------------------------------ MODULE AdsDriver ------------------------------
(***************************************************************************)
(* The ADS port driver at run time: the scan thread that connects, reads   *)
(* and disconnects (ADSPortDriver::adsScan and everything it calls), the   *)
(* threads that process records and enter the driver's read and write      *)
(* handlers, and the thread that starts and destroys the driver.           *)
(*                                                                         *)
(* They share the driver lock (std::lock_guard<ADSPortDriver>), the        *)
(* connection mutex (Connection::mtx), the state of the Connection, the    *)
(* resolved handle of every ADSVariable and the buffers of the             *)
(* SumReadRequest.  One action is one critical section, one ADS call or    *)
(* one unprotected read of shared state: those are the points where        *)
(* another thread can step in.                                             *)
(*                                                                         *)
(* Data are abstracted to the session they come from.  A session is one    *)
(* value returned by AdsPortOpenEx(); sessions are numbered 1, 2, ...; 0   *)
(* is "no port", "not resolved", "no good data".  Every ADS call succeeds  *)
(* or fails; MaxFaults bounds the number of failed calls.                  *)
(***************************************************************************)
EXTENDS Integers, FiniteSets

CONSTANTS
  Vars,       \* the ADS variables addressed by the records
  NoVar,      \* no variable
  WriteVars,  \* those whose address says Operation::Write
  IntrVars,   \* those of an I/O Intr or asyn:READBACK record
  Chunks,     \* sum-read request chunks
  ChunkOf,    \* the chunk SumReadRequest::allocate puts a variable in
  Clients,    \* the threads that process records
  Scan,       \* the scan thread, as an owner of a lock
  Nobody,     \* the owner of a free lock
  MaxFaults   \* bound: ADS calls that fail in one behaviour

ASSUME VarsAssumption    == /\ WriteVars \subseteq Vars /\ IntrVars \subseteq Vars
                            /\ NoVar \notin Vars /\ IsFiniteSet(Vars)
ASSUME ChunksAssumption  == ChunkOf \in [Vars -> Chunks] /\ IsFiniteSet(Chunks)
ASSUME ThreadsAssumption == /\ Scan \notin Clients
                            /\ Nobody \notin Clients
                            /\ Scan # Nobody
ASSUME FaultsAssumption  == MaxFaults \in Nat

VARIABLES
  main,            \* the thread that runs iocInit and, at exit, the destructor
  initialized,     \* ADSPortDriver::initialized (and SumReadRequest::allocated)
  exitCalled,      \* ADSPortDriver::exitCalled
  ads_read_vars,   \* ADSPortDriver::ads_read_vars
  ads_write_vars,  \* ADSPortDriver::ads_write_vars
  write_readback,  \* the variables whose ADSVariable::write_readback is set
  drvLock,         \* owner of the driver lock
  mtx,             \* owner of Connection::mtx
  ads_port,        \* Connection::ads_port: the open session, or 0
  sessions,        \* number of sessions opened so far
  routes,          \* AdsAddRoute() calls not undone by AdsDelRoute()
  handle,          \* per variable: session its handle belongs to, 0 unresolved
  devHandles,      \* per variable: handles the device keeps for it
  sum_initialized, \* SumReadRequest::initialized
  request,         \* per variable: handle in sum_read_request_buffer
  buffer,          \* per variable: session its good data come from, or 0
  buffer_state,    \* per chunk: SumReadBuffer::buffer_state = Valid
  last_written,    \* per variable: session of the unread last_written, or 0
  scan,            \* program counter of the scan thread
  ctx,             \* why ADSConnect/doSumRead/ADSDisconnect is running
  list,            \* the vector (un)resolve_variables is given
  todo,            \* its variables still to be visited
  failed,          \* resolve_variables: status # 0
  reach,           \* unresolve_variables: ads_is_connected
  chunksLeft,      \* the chunks SumReadRequest::read still has to read
  cpc,             \* per client: where it is in a handler
  cvar,            \* per client: the variable it accesses, or NoVar
  cop,             \* per client: the handler it runs, or Idle
  pub,             \* per variable: session of the data last published, or 0
  faults,          \* number of failed ADS calls
  lost             \* of these, calls to open a port, get or release a handle

sysVars    == <<main, initialized, exitCalled, ads_read_vars, ads_write_vars,
                write_readback>>
connVars   == <<ads_port, sessions, routes, lost>>
nameVars   == <<handle, devHandles>>
sumVars    == <<sum_initialized, request>>
bufVars    == <<buffer, buffer_state>>
loopVars   == <<list, todo, failed, reach, chunksLeft>>
clientVars == <<cpc, cvar, cop>>
outVars    == <<last_written, pub>>
vars == <<sysVars, drvLock, mtx, connVars, nameVars, sumVars, bufVars, outVars,
          scan, ctx, loopVars, clientVars, faults>>

Idle   == "idle"
\* Inside a handler, with the driver lock held.
Inside == {"rdConnected", "rdState", "rdCopy", "wrResolved", "wrLock", "wrCall"}
\* The handlers: *Read, *Write, and digitalWrite with a mask, which reads first.
Ops    == {"read", "write", "update"}

\* A call of the ADS client library on the open port: it is answered, or it
\* fails (lost link, timeout, device error).
AdsCall(answered) ==
  IF answered THEN ads_port # 0 /\ faults' = faults
              ELSE faults < MaxFaults /\ faults' = faults + 1

\* The same, for a call that gets or releases a handle.
HandleCall(answered) ==
  AdsCall(answered) /\ lost' = IF answered THEN lost ELSE lost + 1

Init ==
  /\ main = "boot" /\ initialized = FALSE /\ exitCalled = FALSE
  /\ ads_read_vars = {} /\ ads_write_vars = {} /\ write_readback = {}
  /\ drvLock = Nobody /\ mtx = Nobody
  /\ ads_port = 0 /\ sessions = 0 /\ routes = 0
  /\ handle = [v \in Vars |-> 0] /\ devHandles = [v \in Vars |-> 0]
  /\ sum_initialized = FALSE /\ request = [v \in Vars |-> 0]
  /\ buffer = [v \in Vars |-> 0] /\ buffer_state = [c \in Chunks |-> FALSE]
  /\ last_written = [v \in Vars |-> 0] /\ pub = [v \in Vars |-> 0]
  /\ scan = "top" /\ ctx = "cycle"
  /\ list = "read" /\ todo = {} /\ failed = FALSE /\ reach = FALSE
  /\ chunksLeft = {}
  /\ cpc = [c \in Clients |-> Idle] /\ cop = [c \in Clients |-> Idle]
  /\ cvar = [c \in Clients |-> NoVar]
  /\ faults = 0 /\ lost = 0

-----------------------------------------------------------------------------
(* Starting and destroying the driver.                                     *)

Registered == ads_read_vars \cup ads_write_vars

\* ADSPortDriver::createDeviceVariable, called while records are initialised.
CreateDeviceVariable(v) ==
  /\ main = "boot" /\ v \notin Registered
  /\ IF v \in WriteVars
       THEN ads_write_vars' = ads_write_vars \cup {v} /\ UNCHANGED ads_read_vars
       ELSE ads_read_vars' = ads_read_vars \cup {v} /\ UNCHANGED ads_write_vars
  /\ UNCHANGED <<main, initialized, exitCalled, write_readback, drvLock, mtx,
                 connVars, nameVars, sumVars, bufVars, outVars, scan, ctx,
                 loopVars, clientVars, faults>>

\* ADSPortDriver::initHook.  allocated: SumReadRequest::allocate succeeded.
InitHook(allocated) ==
  /\ main = "boot" /\ drvLock = Nobody
  /\ write_readback' = IntrVars \cap ads_write_vars
  /\ ads_read_vars' = ads_read_vars \cup write_readback'
  /\ initialized' = allocated
  /\ main' = "run"
  /\ UNCHANGED <<exitCalled, ads_write_vars, drvLock, mtx, connVars, nameVars,
                 sumVars, bufVars, outVars, scan, ctx, loopVars, clientVars,
                 faults>>

\* (wrong) The destructor joins inside the scope of its lock guard.
ShutdownLocked ==
  /\ main \in {"boot", "run"} /\ drvLock = Nobody
  /\ exitCalled' = TRUE
  /\ main' = "join"
  /\ drvLock' = "main"
  /\ UNCHANGED <<initialized, ads_read_vars, ads_write_vars, write_readback,
                 mtx, connVars, nameVars, sumVars, bufVars, outVars, scan, ctx,
                 loopVars, clientVars, faults>>

\* ~ADSPortDriver up to adsScanThread.join().
Shutdown ==
  /\ main \in {"boot", "run"} /\ drvLock = Nobody
  /\ exitCalled' = TRUE
  /\ main' = "join"
  /\ UNCHANGED <<initialized, ads_read_vars, ads_write_vars, write_readback,
                 drvLock, mtx, connVars, nameVars, sumVars, bufVars, outVars,
                 scan, ctx, loopVars, clientVars, faults>>

Joined ==
  /\ main = "join" /\ scan = "done"
  /\ main' = "dead"
  /\ UNCHANGED <<initialized, exitCalled, ads_read_vars, ads_write_vars,
                 write_readback, drvLock, mtx, connVars, nameVars, sumVars,
                 bufVars, outVars, scan, ctx, loopVars, clientVars, faults>>

-----------------------------------------------------------------------------
(* The scan thread: ADSPortDriver::adsScan.                                *)

NeedsConnect == ads_port = 0 \/ ~sum_initialized

ChunksRead == {ChunkOf[v] : v \in ads_read_vars}

\* Head of the loop.  It spins while initialized is FALSE.
ScanLoop ==
  /\ scan = "top"
  /\ \/ /\ exitCalled
        /\ scan' = "exiting" /\ UNCHANGED chunksLeft
     \/ /\ ~exitCalled /\ initialized /\ NeedsConnect
        /\ scan' = "lockDrv" /\ UNCHANGED chunksLeft
     \/ /\ ~exitCalled /\ initialized /\ ~NeedsConnect  \* deviceInfoPeriod is over
        /\ scan' = "devInfo" /\ UNCHANGED chunksLeft
     \/ /\ ~exitCalled /\ initialized /\ ~NeedsConnect
        /\ scan' = "read" /\ chunksLeft' = ChunksRead
  /\ ctx' = "cycle"
  /\ UNCHANGED <<sysVars, drvLock, mtx, connVars, nameVars, sumVars, bufVars,
                 outVars, list, todo, failed, reach, clientVars, faults>>

\* readADSDeviceInfo, readADSDeviceState.
ReadDevice(pc, answered) ==
  /\ scan = pc /\ mtx = Nobody
  /\ AdsCall(answered)
  /\ IF ~answered
       THEN scan' = "deinit" /\ UNCHANGED chunksLeft
       ELSE IF pc = "devInfo"
         THEN scan' = "devState" /\ UNCHANGED chunksLeft
         ELSE scan' = "read" /\ chunksLeft' = ChunksRead
  /\ UNCHANGED <<sysVars, drvLock, mtx, connVars, nameVars, sumVars, bufVars,
                 outVars, ctx, list, todo, failed, reach, clientVars>>

-----------------------------------------------------------------------------
(* ADSConnect, under the driver lock.                                      *)

\* (wrong) ADSConnect runs without the driver lock.
NoLockForConnect == drvLock' = drvLock

LockForConnect ==
  /\ drvLock = Nobody
  /\ drvLock' = Scan

\* adsScan takes the driver lock before it calls ADSConnect.
BeginConnect ==
  /\ scan = "lockDrv"
  /\ LockForConnect
  /\ scan' = "connect" /\ ctx' = "connect"
  /\ UNCHANGED <<sysVars, mtx, connVars, nameVars, sumVars, bufVars, outVars,
                 loopVars, clientVars, faults>>

\* Connection::connect.  A failure to open the port leaves the route added.
OpenPort ==
  /\ mtx = Nobody
  /\ \/ /\ sessions' = sessions + 1
        /\ ads_port' = sessions + 1
        /\ routes' = routes + 1
        /\ scan' = "lockResolve" /\ list' = "read"
        /\ UNCHANGED <<faults, lost>>
     \/ /\ faults < MaxFaults /\ faults' = faults + 1 /\ lost' = lost + 1
        /\ routes' \in {routes, routes + 1}
        /\ scan' = "deinit"
        /\ UNCHANGED <<ads_port, sessions, list>>

\* The head of ADSConnect: two early returns, then Connection::connect.
Connect ==
  /\ scan = "connect"
  /\ IF exitCalled \/ ~initialized
       THEN scan' = "deinit" /\ UNCHANGED <<connVars, list, faults>>
       ELSE IF ads_port # 0
         THEN scan' = "unlock" /\ UNCHANGED <<connVars, list, faults>>
         ELSE OpenPort
  /\ UNCHANGED <<sysVars, drvLock, mtx, nameVars, sumVars, bufVars, outVars,
                 ctx, todo, failed, reach, chunksLeft, clientVars>>

ListVars(l) == IF l = "read" THEN ads_read_vars ELSE ads_write_vars
OtherList   == IF list = "read" THEN "write" ELSE "read"

\* Connection::resolve_variables takes the mutex.  ADSConnect skips the call
\* for an empty vector; visiting no variable is the same.
LockResolve ==
  /\ scan = "lockResolve" /\ mtx = Nobody
  /\ mtx' = Scan /\ todo' = ListVars(list) /\ failed' = FALSE
  /\ scan' = "resolve"
  /\ UNCHANGED <<sysVars, drvLock, connVars, nameVars, sumVars, bufVars,
                 outVars, ctx, list, reach, chunksLeft, clientVars, faults>>

\* (wrong) A handle is acquired for each list the variable is in.
NeverSkipped(v) == FALSE

\* A variable that is in both lists, one with asyn:READBACK, is resolved once.
Skipped(v) == handle[v] # 0

\* One variable: skipped when resolved; else the device is asked for a handle,
\* which it may have created although the answer is lost.
ResolveVariable(v, answered) ==
  /\ scan = "resolve" /\ v \in todo
  /\ todo' = todo \ {v}
  /\ IF Skipped(v)
       THEN answered /\ UNCHANGED <<handle, devHandles, failed, faults, lost>>
       ELSE /\ HandleCall(answered)
            /\ IF answered
                 THEN /\ handle' = [handle EXCEPT ![v] = ads_port]
                      /\ devHandles' = [devHandles EXCEPT ![v] = @ + 1]
                      /\ UNCHANGED failed
                 ELSE /\ \E n \in {0, 1} :
                           devHandles' = [devHandles EXCEPT ![v] = @ + n]
                      /\ failed' = TRUE /\ UNCHANGED handle
  /\ UNCHANGED <<sysVars, drvLock, mtx, ads_port, sessions, routes, sumVars,
                 bufVars, outVars, scan, ctx, list, reach, chunksLeft,
                 clientVars>>

\* (wrong) The error is returned but ADSDisconnect is not called.
AfterResolveKeepPort == IF failed THEN "unlock"
                        ELSE IF list = "read" THEN "lockResolve" ELSE "initReq"

\* Where ADSConnect goes on: the write variables follow the read variables; one
\* variable that is not resolved makes it return an error, and adsScan calls
\* ADSDisconnect.
AfterResolve == IF failed THEN "deinit"
                ELSE IF list = "read" THEN "lockResolve" ELSE "initReq"

ResolveEnd ==
  /\ scan = "resolve" /\ todo = {}
  /\ mtx' = Nobody
  /\ scan' = AfterResolve /\ list' = OtherList /\ failed' = FALSE
  /\ UNCHANGED <<sysVars, drvLock, connVars, nameVars, sumVars, bufVars,
                 outVars, ctx, todo, reach, chunksLeft, clientVars, faults>>

\* SumReadRequest::initialize, then doSumRead for the initial sum-read.
InitializeRequest ==
  /\ scan = "initReq"
  /\ IF ~sum_initialized /\ \A v \in ads_read_vars : handle[v] # 0
       THEN /\ request' = [v \in Vars |-> IF v \in ads_read_vars
                                            THEN handle[v] ELSE request[v]]
            /\ sum_initialized' = TRUE
            /\ scan' = "read" /\ chunksLeft' = ChunksRead
       ELSE scan' = "deinit" /\ UNCHANGED <<sumVars, chunksLeft>>
  /\ UNCHANGED <<sysVars, drvLock, mtx, connVars, nameVars, bufVars, outVars,
                 ctx, list, todo, failed, reach, clientVars, faults>>
-----------------------------------------------------------------------------
(* doSumRead and performIOIntr.                                            *)

\* What SumReadRequest::read leaves in the buffer of chunk c: the result of a
\* variable is an error when its handle is not one of the open session, or
\* when the device cannot read it (bad).
BufferAfterRead(c, bad) ==
  [v \in Vars |->
     IF v \in ads_read_vars /\ ChunkOf[v] = c
       THEN IF request[v] = ads_port /\ v \notin bad THEN ads_port ELSE 0
       ELSE buffer[v]]

\* One chunk of SumReadRequest::read, answered.  The chunks are independent:
\* their order is left open.
ReadChunk(c, bad) ==
  /\ scan = "read" /\ c \in chunksLeft /\ mtx = Nobody
  /\ \A v \in bad : ChunkOf[v] = c
  /\ ads_port # 0
  /\ IF bad = {} THEN faults' = faults
                 ELSE faults < MaxFaults /\ faults' = faults + 1
  /\ buffer' = BufferAfterRead(c, bad)
  /\ buffer_state' = [buffer_state EXCEPT ![c] = TRUE]
  /\ chunksLeft' = chunksLeft \ {c}
  /\ UNCHANGED <<sysVars, drvLock, mtx, connVars, nameVars, sumVars, outVars,
                 scan, ctx, list, todo, failed, reach, clientVars>>

\* set_buffers_state(Invalid): every chunk, whichever one failed.
InvalidateBuffers == buffer_state' = [c \in Chunks |-> FALSE]

\* A chunk that could not be read: doSumRead calls ADSDisconnect.
ReadChunkFails(c) ==
  /\ scan = "read" /\ c \in chunksLeft /\ mtx = Nobody
  /\ AdsCall(FALSE)
  /\ InvalidateBuffers
  /\ scan' = "deinit" /\ chunksLeft' = {}
  /\ ctx' = IF ctx = "connect" THEN "connectRead" ELSE ctx
  /\ UNCHANGED <<sysVars, drvLock, mtx, connVars, nameVars, sumVars, buffer,
                 outVars, list, todo, failed, reach, clientVars>>

ReadEnd ==
  /\ scan = "read" /\ chunksLeft = {}
  /\ scan' = IF ctx = "connect" THEN "unlock" ELSE "intr"
  /\ UNCHANGED <<sysVars, drvLock, mtx, connVars, nameVars, sumVars, bufVars,
                 outVars, ctx, loopVars, clientVars, faults>>

\* ADSVariable::read_from_buffer hands out data of v ...
Readable(v) == /\ v \in ads_read_vars /\ initialized
               /\ buffer_state[ChunkOf[v]]
               /\ buffer[v] # 0
\* ... and overlays them, once, with the value last written.
Data(v) == IF v \in write_readback /\ last_written[v] # 0
             THEN last_written[v] ELSE buffer[v]

\* performIOIntr holds the driver lock for the whole walk; only the scan thread
\* itself changes the buffers, so that the walk is one step.
PerformIOIntr ==
  /\ scan = "intr" /\ drvLock = Nobody
  /\ LET intr == IntrVars \cap Registered
         read == {v \in intr : ads_port # 0 /\ Readable(v)}
     IN /\ pub' = [v \in Vars |-> IF v \in read THEN Data(v)
                                  ELSE IF v \in intr THEN 0 ELSE pub[v]]
        /\ last_written' = [v \in Vars |-> IF v \in read /\ v \in write_readback
                                             THEN 0 ELSE last_written[v]]
  /\ scan' = "top"
  /\ UNCHANGED <<sysVars, drvLock, mtx, connVars, nameVars, sumVars, bufVars,
                 ctx, loopVars, clientVars, faults>>

-----------------------------------------------------------------------------
(* ADSDisconnect.  The loop calls it without the driver lock.              *)

\* (wrong) The entries are removed instead of zeroed.
RequestCleared == [v \in {} |-> 0]

RequestZeroed == [v \in Vars |-> 0]

\* SumReadRequest::deinitialize.
Deinitialize ==
  /\ scan = "deinit"
  /\ request' = RequestZeroed
  /\ sum_initialized' = FALSE
  /\ scan' = "discChk"
  /\ UNCHANGED <<sysVars, drvLock, mtx, connVars, nameVars, bufVars, outVars,
                 ctx, loopVars, clientVars, faults>>

\* (wrong) A connection that fails is tried again on the spot.
RetryAtOnce ==
  /\ scan' = CASE ctx = "cycle"       -> "top"
               [] ctx = "connectRead" -> "deinit"
               [] ctx = "connect"     -> "connect"
               [] OTHER               -> "unlock"
  /\ ctx' = IF ctx = "connectRead" THEN "connect" ELSE ctx

\* ADSDisconnect returns: to the loop, or to ADSConnect, which returns its error
\* to adsScan, which calls ADSDisconnect again, or to the end of adsScan.
DisconnectReturns ==
  /\ scan' = CASE ctx = "cycle"       -> "top"
               [] ctx = "connectRead" -> "deinit"
               [] OTHER               -> "unlock"
  /\ ctx' = IF ctx = "connectRead" THEN "connect" ELSE ctx

\* At exit the variables stay resolved; without a connection nothing is left.
DisconnectCheck ==
  /\ scan = "discChk"
  /\ \/ exitCalled /\ scan' = "close" /\ UNCHANGED <<ctx, list>>
     \/ ~exitCalled /\ ads_port = 0 /\ DisconnectReturns /\ UNCHANGED list
     \/ ~exitCalled /\ ads_port # 0
        /\ scan' = "lockUnresolve" /\ list' = "read" /\ UNCHANGED ctx
  /\ UNCHANGED <<sysVars, drvLock, mtx, connVars, nameVars, sumVars, bufVars,
                 outVars, todo, failed, reach, chunksLeft, clientVars, faults>>

\* Connection::unresolve_variables takes the mutex.
LockUnresolve ==
  /\ scan = "lockUnresolve" /\ mtx = Nobody
  /\ mtx' = Scan /\ todo' = ListVars(list) /\ reach' = (ads_port # 0)
  /\ scan' = "unresolve"
  /\ UNCHANGED <<sysVars, drvLock, connVars, nameVars, sumVars, bufVars,
                 outVars, ctx, list, failed, chunksLeft, clientVars, faults>>

\* (wrong) The mark stays when the device is not reached.
UnresolveIfReached(v) ==
  handle' = IF reach THEN [handle EXCEPT ![v] = 0] ELSE handle

\* ADSAddress::unresolve, called whether or not the device was reached.
Unresolve(v) == handle' = [handle EXCEPT ![v] = 0]

\* One variable.  The device is asked to release the handle unless an earlier
\* call of the walk found it disconnected; it may have released it although the
\* answer is lost.
UnresolveVariable(v, answered) ==
  /\ scan = "unresolve" /\ v \in todo
  /\ todo' = todo \ {v}
  /\ IF handle[v] = 0
       THEN answered /\ UNCHANGED <<handle, devHandles, reach, faults, lost>>
       ELSE /\ Unresolve(v)
            /\ IF ~reach
                 THEN answered /\ UNCHANGED <<devHandles, reach, faults, lost>>
                 ELSE /\ HandleCall(answered)
                      /\ IF answered
                           THEN /\ devHandles' = [devHandles EXCEPT ![v] = @ - 1]
                                /\ UNCHANGED reach
                           ELSE /\ \E n \in {0, 1} :
                                     devHandles' = [devHandles EXCEPT ![v] = @ - n]
                                /\ reach' \in BOOLEAN
  /\ UNCHANGED <<sysVars, drvLock, mtx, ads_port, sessions, routes, sumVars,
                 bufVars, outVars, scan, ctx, list, failed, chunksLeft,
                 clientVars>>

\* ADSDisconnect unresolves the read variables, then the write variables.
AfterUnresolve == IF list = "read" THEN "lockUnresolve" ELSE "close"

UnresolveEnd ==
  /\ scan = "unresolve" /\ todo = {}
  /\ mtx' = Nobody
  /\ scan' = AfterUnresolve
  /\ list' = OtherList /\ reach' = FALSE
  /\ UNCHANGED <<sysVars, drvLock, connVars, nameVars, sumVars, bufVars,
                 outVars, ctx, todo, failed, chunksLeft, clientVars, faults>>

\* Connection::disconnect, then set_disconnected.
Disconnect ==
  /\ scan = "close" /\ mtx = Nobody
  /\ routes' = IF ads_port # 0 THEN routes - 1 ELSE routes
  /\ ads_port' = 0
  /\ DisconnectReturns
  /\ UNCHANGED <<sysVars, drvLock, mtx, sessions, nameVars, sumVars, bufVars,
                 outVars, loopVars, clientVars, faults, lost>>

\* The driver lock is released after ADSConnect, or after the last
\* ADSDisconnect of adsScan.
UnlockDriver ==
  /\ scan = "unlock"
  /\ drvLock' = Nobody
  /\ scan' = IF ctx = "exit" THEN "done" ELSE "top"
  /\ UNCHANGED <<sysVars, mtx, connVars, nameVars, sumVars, bufVars, outVars,
                 ctx, loopVars, clientVars, faults>>

\* (wrong) The thread ends and leaves the connection to the destructors.
ScanExitOpen ==
  /\ scan = "exiting" /\ scan' = "done"
  /\ UNCHANGED <<sysVars, drvLock, mtx, connVars, nameVars, sumVars, bufVars,
                 outVars, ctx, loopVars, clientVars, faults>>

\* The end of adsScan: an open connection is closed under the driver lock.
ScanExit ==
  /\ scan = "exiting"
  /\ \/ ads_port = 0 /\ scan' = "done" /\ UNCHANGED <<drvLock, ctx>>
     \/ /\ ads_port # 0 /\ drvLock = Nobody
        /\ drvLock' = Scan /\ ctx' = "exit" /\ scan' = "deinit"
  /\ UNCHANGED <<sysVars, mtx, connVars, nameVars, sumVars, bufVars, outVars,
                 loopVars, clientVars, faults>>

-----------------------------------------------------------------------------
(* The handlers of records.  asyn takes the driver lock around a handler.  *)

\* A record is processed: device support calls the driver (external).
ProcessRecord(c, v, op) ==
  /\ main \in {"boot", "run"}
  /\ cpc[c] = Idle /\ v \in Registered
  /\ cpc' = [cpc EXCEPT ![c] = "wait"]
  /\ cvar' = [cvar EXCEPT ![c] = v]
  /\ cop' = [cop EXCEPT ![c] = op]
  /\ UNCHANGED <<sysVars, drvLock, mtx, connVars, nameVars, sumVars, bufVars,
                 outVars, scan, ctx, loopVars, faults>>

EnterHandler(c) ==
  /\ cpc[c] = "wait" /\ drvLock = Nobody
  /\ drvLock' = c
  /\ cpc' = [cpc EXCEPT ![c] = IF cop[c] = "write" THEN "wrResolved"
                                                   ELSE "rdConnected"]
  /\ UNCHANGED <<sysVars, mtx, connVars, nameVars, sumVars, bufVars, outVars,
                 scan, ctx, loopVars, cvar, cop, faults>>

\* The handler returns, with or without an error.
HandlerReturns(c) ==
  /\ cpc' = [cpc EXCEPT ![c] = Idle] /\ cop' = [cop EXCEPT ![c] = Idle]
  /\ cvar' = [cvar EXCEPT ![c] = NoVar]
  /\ drvLock' = Nobody

\* The handler goes on, with the driver lock held.
HandlerAt(c, pc) ==
  /\ cpc' = [cpc EXCEPT ![c] = pc]
  /\ UNCHANGED <<cvar, cop, drvLock>>

\* A read handler returns; digitalWrite goes on to write whatever the outcome.
ReadReturns(c) ==
  IF cop[c] = "update"
    THEN HandlerAt(c, "wrResolved")
    ELSE HandlerReturns(c)

\* The first check of integerRead, digitalRead, floatRead, arrayRead, stringRead.
ReadCheck(c) ==
  /\ cpc[c] = "rdConnected"
  /\ IF (cvar[c] \in WriteVars /\ cvar[c] \notin write_readback) \/ ads_port = 0
       THEN ReadReturns(c)
       ELSE HandlerAt(c, "rdState")
  /\ UNCHANGED <<sysVars, mtx, connVars, nameVars, sumVars, bufVars, outVars,
                 scan, ctx, loopVars, faults>>

\* ADSVariable::read_from_buffer up to the check of buffer_state.
ReadBufferState(c) ==
  /\ cpc[c] = "rdState"
  /\ IF /\ cvar[c] \in ads_read_vars /\ initialized
        /\ buffer_state[ChunkOf[cvar[c]]]
       THEN HandlerAt(c, "rdCopy")
       ELSE ReadReturns(c)
  /\ UNCHANGED <<sysVars, mtx, connVars, nameVars, sumVars, bufVars, outVars,
                 scan, ctx, loopVars, faults>>

\* SumReadBuffer::read_data and the rest of read_from_buffer.
ReadCopy(c) ==
  /\ cpc[c] = "rdCopy"
  /\ last_written' = IF buffer[cvar[c]] # 0 /\ cvar[c] \in write_readback
                       THEN [last_written EXCEPT ![cvar[c]] = 0]
                       ELSE last_written
  /\ ReadReturns(c)
  /\ UNCHANGED <<sysVars, mtx, connVars, nameVars, sumVars, bufVars, pub, scan,
                 ctx, loopVars, faults>>

\* ADSVariable::write up to the check of is_resolved(), without the mutex.
WriteCheck(c) ==
  /\ cpc[c] = "wrResolved"
  /\ IF handle[cvar[c]] = 0
       THEN HandlerReturns(c)
       ELSE HandlerAt(c, "wrLock")
  /\ UNCHANGED <<sysVars, mtx, connVars, nameVars, sumVars, bufVars, outVars,
                 scan, ctx, loopVars, faults>>

\* (wrong) A refused call returns with the mutex still locked.
ReleaseIfAnswered(answered) == mtx' = IF answered THEN Nobody ELSE mtx

\* std::lock_guard: the mutex is released on every path out of write().
ReleaseMutex(answered) == mtx' = Nobody

WriteLock(c) ==
  /\ cpc[c] = "wrLock" /\ mtx = Nobody
  /\ mtx' = c
  /\ HandlerAt(c, "wrCall")
  /\ UNCHANGED <<sysVars, connVars, nameVars, sumVars, bufVars,
                 outVars, scan, ctx, loopVars, faults>>

\* AdsSyncWriteReqEx with the port and the handle of this moment.  The library
\* refuses port 0; a device may accept or refuse index group and offset 0.
WriteCall(c, answered) ==
  /\ cpc[c] = "wrCall"
  /\ IF answered \/ (ads_port # 0 /\ handle[cvar[c]] # 0)
       THEN AdsCall(answered)
       ELSE UNCHANGED faults
  /\ last_written' = IF answered /\ cvar[c] \in write_readback
                       THEN [last_written EXCEPT ![cvar[c]] = ads_port]
                       ELSE last_written
  /\ ReleaseMutex(answered)
  /\ HandlerReturns(c)
  /\ UNCHANGED <<sysVars, connVars, nameVars, sumVars, bufVars, pub, scan, ctx,
                 loopVars>>

-----------------------------------------------------------------------------
ScanThread ==
  \/ ScanLoop
  \/ \E pc \in {"devInfo", "devState"}, answered \in BOOLEAN :
       ReadDevice(pc, answered)
  \/ BeginConnect \/ Connect \/ LockResolve \/ ResolveEnd \/ InitializeRequest
  \/ \E v \in Vars, answered \in BOOLEAN : ResolveVariable(v, answered)
  \/ \E c \in Chunks, bad \in SUBSET ads_read_vars : ReadChunk(c, bad)
  \/ \E c \in Chunks : ReadChunkFails(c)
  \/ ReadEnd \/ PerformIOIntr
  \/ Deinitialize \/ DisconnectCheck \/ LockUnresolve \/ UnresolveEnd
  \/ \E v \in Vars, answered \in BOOLEAN : UnresolveVariable(v, answered)
  \/ Disconnect \/ UnlockDriver \/ ScanExit

Handler(c) ==
  \/ EnterHandler(c) \/ ReadCheck(c) \/ ReadBufferState(c) \/ ReadCopy(c)
  \/ WriteCheck(c) \/ WriteLock(c)
  \/ \E answered \in BOOLEAN : WriteCall(c, answered)

MainThread ==
  \/ \E v \in Vars : CreateDeviceVariable(v)
  \/ \E allocated \in BOOLEAN : InitHook(allocated)
  \/ Shutdown \/ Joined

\* After the driver is destroyed and the last handler has returned.
Destroyed ==
  /\ main = "dead" /\ \A c \in Clients : cpc[c] = Idle
  /\ UNCHANGED vars

Next == \/ MainThread \/ ScanThread
        \/ \E c \in Clients : Handler(c)
        \/ \E c \in Clients, v \in Vars, op \in Ops : ProcessRecord(c, v, op)
        \/ Destroyed

Spec == Init /\ [][Next]_vars

\* Every thread is scheduled, and every thread that waits for a lock gets it in
\* the end: the scan thread sleeps outside the locks in every turn of its loop,
\* and a handler returns.  Nothing obliges records to be processed, the driver
\* to be initialised or the IOC to exit.
Fairness == /\ SF_vars(ScanThread)
            /\ \A c \in Clients : SF_vars(Handler(c))
            /\ WF_vars(Joined)

FairSpec == Spec /\ Fairness

-----------------------------------------------------------------------------
ScanPcs == {"top", "devInfo", "devState", "lockDrv", "connect", "lockResolve",
            "resolve", "initReq", "read", "intr", "deinit", "discChk",
            "lockUnresolve", "unresolve", "close", "unlock", "exiting", "done"}

\* Types of the state.
TypeOK ==
  /\ main \in {"boot", "run", "join", "dead"}
  /\ initialized \in BOOLEAN /\ exitCalled \in BOOLEAN
  /\ ads_read_vars \in SUBSET Vars /\ ads_write_vars \in SUBSET Vars
  /\ write_readback \in SUBSET Vars
  /\ drvLock \in Clients \cup {Scan, Nobody}
  /\ mtx \in Clients \cup {Scan, Nobody}
  /\ ads_port \in Nat /\ sessions \in Nat /\ routes \in Int
  /\ handle \in [Vars -> Nat] /\ devHandles \in [Vars -> Int]
  /\ sum_initialized \in BOOLEAN /\ request \in [Vars -> Nat]
  /\ buffer \in [Vars -> Nat] /\ buffer_state \in [Chunks -> BOOLEAN]
  /\ last_written \in [Vars -> Nat] /\ pub \in [Vars -> Nat]
  /\ scan \in ScanPcs /\ ctx \in {"cycle", "connect", "connectRead", "exit"}
  /\ list \in {"read", "write"} /\ todo \in SUBSET Vars
  /\ failed \in BOOLEAN /\ reach \in BOOLEAN
  /\ chunksLeft \in SUBSET Chunks
  /\ cpc \in [Clients -> Inside \cup {Idle, "wait"}]
  /\ cvar \in [Clients -> Vars \cup {NoVar}] /\ cop \in [Clients -> Ops \cup {Idle}]
  /\ faults \in 0 .. MaxFaults /\ lost \in Nat

\* adsScan decides from is_connected() and SumRead.is_initialized() whether to
\* connect, and ADSConnect returns at once, with success, when the port is
\* open: a turn that started with an open port and no initialised request
\* would never read again.  Every path through ADSConnect and ADSDisconnect,
\* failures included, comes back with both or with neither.
NeverHalfConnected ==
  scan = "top" => (ads_port # 0 <=> sum_initialized)

\* A read handler checks is_connected(), then buffer_state, then copies, with no
\* lock the scan thread would respect when it disconnects.  Even so the data it
\* copies are of the newest session, never left over from an earlier one.
ReadsAreOfTheLatestSession ==
  \A c \in Clients : cpc[c] = "rdCopy" => buffer[cvar[c]] \in {0, sessions}

\* A write request on an open port never carries the handle of an earlier
\* session, which the device may have given to another variable since:
\* resolve_variables skips a variable that is still marked as resolved, so
\* ADSDisconnect must have cleared every mark, reachable or not.
WritesUseNoOldHandle ==
  \A c \in Clients :
    cpc[c] = "wrCall" /\ ads_port # 0 => handle[cvar[c]] \in {0, ads_port}

\* Until the exit, whatever the device keeps for a variable beyond the handle in
\* use goes back to a call that failed when the handle was to be acquired or
\* released, and a route that stays behind to a port that did not open: no
\* reconnect, however the session ended, leaks of itself.
LeaksCostFaults ==
  ~exitCalled =>
    /\ \A v \in Vars : devHandles[v] <=
         (IF ads_port # 0 /\ handle[v] # 0 THEN 1 ELSE 0) + lost
    /\ routes <= (IF ads_port # 0 THEN 1 ELSE 0) + lost

\* "Output records ... write to their corresponding ADS variable immediately
\* when they are processed": the request a write handler gives to the device on
\* an open port carries the handle of its variable.
WriteReachesItsVariable ==
  \A c \in Clients :
    cpc[c] = "wrCall" /\ ads_port # 0 => handle[cvar[c]] = ads_port

\* No step opens a new session while a handler is between its checks and its
\* return: what it found out about the connection is at worst out of date, never
\* about another session.
NoReconnectInHandler ==
  [][(\E c \in Clients : cpc[c] \in Inside) => sessions' = sessions]_vars

\* What a thread waits for, and who has it.
WaitsForDriver(t) == IF t = Scan
                       THEN \/ scan \in {"lockDrv", "intr"}
                            \/ scan = "exiting" /\ ads_port # 0
                       ELSE cpc[t] = "wait"
WaitsForMutex(t) == IF t = Scan
                      THEN scan \in {"devInfo", "devState", "connect", "lockResolve",
                                    "read", "lockUnresolve", "close"}
                      ELSE cpc[t] = "wrLock"
Threads == Clients \cup {Scan}
BlockedBy(t) == {o \in Threads : \/ WaitsForDriver(t) /\ drvLock = o
                                 \/ WaitsForMutex(t) /\ mtx = o}

\* It is on its way to where it releases its locks, and need not wait.
GoesOn(t) == /\ IF t = Scan THEN scan \notin {"top", "done"} ELSE cpc[t] \in Inside
             /\ BlockedBy(t) = {}

\* (ADSDisconnect, ADSVariable::write, performIOIntr) A handler locks mtx while it
\* holds the driver lock; ADSDisconnect locks mtx without the driver lock, and adsScan
\* takes the driver lock after it.  There is no circle: whoever waits, waits for a
\* thread that goes on, or for one that waits for such a thread.
NoCircularWait ==
  \A t \in Threads : \A o \in BlockedBy(t) :
    GoesOn(o) \/ (BlockedBy(o) # {} /\ \A p \in BlockedBy(o) : GoesOn(p))

\* How far the scan thread is from the head of its loop, or its end: the places on
\* its way, in their order, and what it has to visit where it is.
DisconnectPlaces == {"deinit", "discChk", "lockUnresolve", "unresolve", "close"}
Place ==
  CASE scan \in {"top", "done"}    -> 0
    [] scan \in {"unlock", "intr"} -> 1
    [] scan \in DisconnectPlaces   ->
         (CASE scan = "deinit"        -> 8
            [] scan = "discChk"       -> 7
            [] scan = "lockUnresolve" -> IF list = "read" THEN 6 ELSE 4
            [] scan = "unresolve"     -> IF list = "read" THEN 5 ELSE 3
            [] scan = "close"         -> 2)
           + (IF ctx = "connectRead" THEN 8 ELSE 0)
    [] scan = "exiting"     -> 9
    [] scan = "read"        -> 17
    [] scan = "devState"    -> 18
    [] scan = "devInfo"     -> 19
    [] scan = "initReq"     -> 18
    [] scan = "resolve"     -> IF list = "read" THEN 21 ELSE 19
    [] scan = "lockResolve" -> IF list = "read" THEN 22 ELSE 20
    [] scan = "connect"     -> 23
    [] scan = "lockDrv"     -> 24

ToVisit == Cardinality(todo) + Cardinality(chunksLeft)
Rank    == Place * (Cardinality(Vars) + Cardinality(Chunks) + 1) + ToVisit

\* (adsScan) Whatever fails, a turn of the loop comes to its end: each step of the scan
\* thread brings it nearer to where it sleeps, with the driver lock free, or ends.
\* Nothing in ADSConnect, in the sum-read or in ADSDisconnect is tried again.
TurnsEnd == [][ScanThread => scan = "top" \/ Rank' < Rank]_vars

\* Once ADS calls stop failing, an initialised driver stays connected and the records
\* with I/O interrupt scanning carry data of the open session, whatever the failed
\* calls did before; a variable whose first data after a reconnect are the value
\* last written gets there too.
Current == /\ ads_port # 0
           /\ \A v \in IntrVars \cap Registered : pub[v] = ads_port
Recovers == <>[](initialized => exitCalled \/ Current)

\* The destructor gets past join(), whatever the scan thread was doing and
\* however many handlers were waiting.
ExitCompletes == <>[](main # "join")

\* Every handler returns: no handler waits for ever for the driver lock or for
\* the mutex, through any reconnect.
HandlersReturn == \A c \in Clients : []<>(cpc[c] = Idle)

\* Seen from the records, all of this is one session after another: none begins
\* while a handler runs or another is open, data published never go back to an
\* earlier session, and the driver does not end with a session open.
Session == INSTANCE Session WITH
             session <- ads_port,
             opened  <- sessions,
             running <- {c \in Clients : cpc[c] \in Inside},
             gone    <- main = "dead"
SessionSpec == Session!Spec

-----------------------------------------------------------------------------
(* The inductive invariant behind the safety properties.                   *)

\* The scan thread owns the driver lock in ADSConnect and in what ADSConnect and
\* the end of adsScan call, but not in the ADSDisconnect of an ordinary cycle.
ScanOwnsDriver ==
  \/ scan \in {"connect", "lockResolve", "resolve", "initReq", "unlock"}
  \/ /\ scan \in {"read", "deinit", "discChk", "lockUnresolve", "unresolve",
                  "close"}
     /\ ctx # "cycle"

\* Who owns which lock, and why the shared helpers run.
LockInv ==
  /\ drvLock = Scan <=> ScanOwnsDriver
  /\ \A c \in Clients : drvLock = c <=> cpc[c] \in Inside
  /\ mtx = Scan <=> scan \in {"resolve", "unresolve"}
  /\ \A c \in Clients : mtx = c <=> cpc[c] = "wrCall"
  /\ scan \in {"connect", "lockResolve", "resolve", "initReq"} => ctx = "connect"
  /\ scan \in {"lockDrv", "devInfo", "devState", "intr"} => ctx = "cycle"
  /\ scan = "unlock" => ctx \in {"connect", "exit"}
  /\ scan = "read" => ctx \in {"cycle", "connect"}
  /\ ctx = "exit" \/ scan \in {"exiting", "done"} => exitCalled

\* The variables are fixed before the scan thread leaves the head of its loop.
StartInv ==
  /\ main = "boot" => ~initialized /\ ~exitCalled
  /\ ~initialized => /\ scan \in {"top", "exiting", "done"}
                     /\ sessions = 0 /\ \A v \in Vars : buffer[v] = 0
  /\ \A c \in Clients : cpc[c] # Idle => cvar[c] \in Vars
  /\ \A c \in Clients : cpc[c] = "rdCopy" => cvar[c] \in ads_read_vars

\* Where in the loop the port is open and the request initialised.
PortInv ==
  /\ ads_port \in {0, sessions}
  /\ scan \in {"lockResolve", "resolve", "initReq", "read", "devInfo",
              "devState", "intr", "lockUnresolve", "unresolve"} => ads_port # 0
  /\ scan \in {"lockDrv", "connect"} => ads_port = 0 /\ ~sum_initialized
  /\ scan \in {"read", "devInfo", "devState", "intr"} => sum_initialized
  /\ scan \in {"lockResolve", "resolve", "initReq", "discChk", "lockUnresolve",
              "unresolve", "close"} => ~sum_initialized
  /\ scan \in {"top", "unlock", "exiting", "done"} =>
       (ads_port # 0 <=> sum_initialized)
  /\ ctx = "exit" /\ scan = "unlock" => ads_port = 0

\* A handle is of the newest session, and gone when the session is, but at exit.
HandleInv ==
  /\ \A v \in Vars : handle[v] \in {0, sessions}
  /\ \A v \in Vars : handle[v] # 0 => v \in Registered
  /\ ads_port = 0 \/ scan = "close" => exitCalled \/ \A v \in Vars : handle[v] = 0
  /\ scan \in {"lockUnresolve", "unresolve"} /\ list = "write" =>
       \A v \in ads_read_vars : handle[v] = 0
  /\ scan = "unresolve" => \A v \in ListVars(list) \ todo : handle[v] = 0
  /\ scan \in {"resolve", "unresolve"} => todo \subseteq ListVars(list)

\* Data of the read variables are of the newest session ...
Fresh == \A v \in ads_read_vars : buffer[v] \in {0, sessions}

\* ... wherever a handler can read them, or the scan thread is about to let one.
FreshInv ==
  /\ ads_port # 0 /\ drvLock # Scan => Fresh
  /\ ads_port # 0 /\ scan = "unlock" => Fresh
  /\ \A c \in Clients : cpc[c] \in {"rdState", "rdCopy"} => Fresh
  /\ scan = "read" =>
       \A v \in ads_read_vars : ChunkOf[v] \notin chunksLeft =>
                                 buffer[v] \in {0, sessions}

\* What the device and the router keep, against what the driver knows of.
LeakInv ==
  /\ \A v \in Vars : /\ devHandles[v] >= (IF handle[v] = 0 THEN 0 ELSE 1)
                     /\ devHandles[v] <= (IF handle[v] = 0 THEN 0 ELSE 1) + lost
  /\ routes >= (IF ads_port = 0 THEN 0 ELSE 1)
  /\ routes <= (IF ads_port = 0 THEN 0 ELSE 1) + lost
  /\ scan = "unresolve" /\ ~reach => \A v \in Vars : devHandles[v] <= lost

\* Data published are of a session there was, and not newer than a value that
\* was written and still waits to be read back; nothing is open at the end.
PublishedInv ==
  /\ \A v \in Vars : /\ pub[v] <= sessions /\ last_written[v] <= sessions
                     /\ last_written[v] # 0 => /\ pub[v] <= last_written[v]
                                               /\ v \in write_readback
  /\ main = "boot" => write_readback = {}
  /\ scan = "done" => ads_port = 0
  /\ main = "dead" => scan = "done"

\* The inductive invariant: who owns the locks, where the port is open, of
\* which session handles and data are, what may have leaked and what is shown.
Inv == /\ TypeOK /\ LockInv /\ StartInv /\ PortInv /\ HandleInv /\ FreshInv
       /\ LeakInv /\ PublishedInv

=============================================================================
