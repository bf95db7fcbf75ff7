# TLA+ specifications of the ADS port driver

This directory holds TLA+ modules that model the ADS port driver of this
repository (`src/adsApp/src`), TLC configurations that check them on small
instances, and proofs, checked by TLAPS, that hold for any number of variables,
chunks, threads and failures.

Paths below are relative to `src/adsApp/src` unless they start with `src/`;
`PROJECT.json` maps every definition to the lines it stands for.

## 1. The system

An IOC loads the driver with `AdsOpen`. Records name ADS variables of a PLC by
their symbols. One *scan thread* per driver connects to the PLC, turns the
symbols into handles, reads all input variables over and over with *sum-read*
requests into buffers, and publishes the data of I/O Intr records. Records that
are processed otherwise enter *handlers* of the driver: a read handler copies
from the buffers, a write handler sends a request of its own.

| Component | Where | State it keeps | Operations |
|---|---|---|---|
| Driver object | `ADSPortDriver.cpp` | `initialized`, `exitCalled`, `ads_read_vars`, `ads_write_vars` | constructor, `createDeviceVariable`, `initHook`, destructor |
| Scan thread | `ADSPortDriver.cpp:406` | its place in `adsScan`, time of the last device query | `ADSConnect`, `ADSDisconnect`, `readADSDeviceInfo`, `readADSDeviceState`, `doSumRead`, `performIOIntr` |
| Connection | `epics-ads/Connection.cpp` | `ads_port` (0: not connected), AMS net ID, `mtx`; routes and handles outside of it | `connect`, `disconnect`, `set_disconnected`, `resolve_variables`, `unresolve_variables`, `read_device_*` |
| Variable | `epics-ads/Variable.cpp`, `ADSAddress.cpp` | handle (index group, offset, `name_is_resolved`), `buffer_reader`, `write_readback`, `last_written`, `array_data_hash` | `read_from_buffer`, `write`, `resolve`, `unresolve` |
| Sum-read request | `epics-ads/SumReadRequest.cpp` | chunks per ADS port, request entries, `allocated`, `initialized` | `allocate`, `deallocate`, `initialize`, `deinitialize`, `read` |
| Sum-read buffer | `epics-ads/SumReadBuffer.cpp`, `RWLock.cpp` | data, saved data, offsets, `buffer_state`, `rwlock` | `add_variable`, `initialize_buffer`, `save_buffer`, `read_data` |
| Record handlers | `ADSPortDriver.cpp:743-996` | none of their own | `integerRead`, `digitalRead`, `floatRead`, `arrayRead`, `stringRead` and the `*Write` functions |
| Addresses | `ADSAddress.cpp`, `ADSPortDriver.cpp:28-61` | parsed address | `parse_*`, `operator==` |
| IOC shell | `ioc_commands.cpp` | none | `AdsOpen`, `AdsSetLocalAMSNetID` |
| Error codes | `err.cpp` | constant maps | `ads_rc_to_epicsads_error` |

### How they interact

* Three kinds of thread: the scan thread, any number of threads that process
  records (asyn's port thread, the callers of non-blocking ports), and the thread
  that runs `iocInit` and, at exit, the destructor.
* Three kinds of lock. The *driver lock* (`std::lock_guard<ADSPortDriver>`) is
  held around every handler by asyn and autoparamDriver, by the scan thread
  around `ADSConnect`, `performIOIntr` and the final `ADSDisconnect`, and by
  `initHook` and the destructor for a moment. `Connection::mtx` is held around
  ADS calls. `SumReadBuffer::rwlock`, one per buffer, is held by `read_data` and
  `save_buffer`. The order is driver lock, then `mtx`; `rwlock` is innermost.
* What no lock covers: a failed sum-read or device query makes the scan thread
  run `ADSDisconnect` *without* the driver lock, so that it clears the port, the
  handles and the request while a handler runs; the checks a handler makes
  (`is_connected`, `is_resolved`, `buffer_state`) are made without `mtx`; and the
  ADS library writes the sum-read buffer under `mtx`, not under `rwlock`.

### What is hard

Interleavings of disconnects with handlers; a session that ends between two
checks; names that resolve in part; answers that are lost after the device acted;
early returns that leave one of two flags set; shutdown while anything else is
going on; positions in a buffer computed in one place and the request that has
to match them in another. `PROJECT.json` lists each such hazard at its line,
with the property that would catch it going wrong.

### What makes each component correct

* Life cycle: comes back from any failure; never stuck half connected; never uses
  a handle of an earlier session; leaves nothing behind on the device that a
  failed call does not account for; shuts down.
* Handlers: return; return the newest session's data of the right variable from the
  buffers, or once the value written last, which may be from an earlier session
  (`last_written` survives a reconnect); writes reach their own variable (not always,
  see 5).
* Layout: the device's answer and the driver's idea of it agree, byte for byte.
* Buffers: what is copied is what one sum-read brought (it is not, see 5).
* Read-back: a masked write changes its bits only (it does not, see 5); a record
  does not go back to an older value, and shows that of the PLC in the end (not after
  some writes, see 5).
* I/O Intr publishing: records follow the variable and its status (arrays do not
  in part, see 5).
* Values: what a record writes is what it reads back, and a record shows the same
  with `SCAN=I/O Intr` as when it is polled (not for `DWORD` and `UDINT`, see 5).
* Addresses: a record gets the variable it names; records that name the same one
  share it; it is in the sum-reads exactly if a record reads it or reads it back.
* Shell commands: a driver has the settings that were asked for, and the defaults
  that are printed (not all, see 5).
* All together: what a record can see is a sequence of sessions (`Session`).

## 2. The modules

| Module | Models | Built on |
|---|---|---|
| `Session` | what the driver promises about its connection, without locks, failures or buffers | - |
| `AdsDriver` | scan thread, connection, handlers, start and shutdown, composed over their shared state | `INSTANCE Session` |
| `SumRead` | the layout of the sum-read | - |
| `BufferAccess` | one buffer, copied and overwritten cell by cell | - |
| `ReadBack` | bits and masks of writes, the written value kept for the read-back | - |
| `Values` | data types, functions, and what the handlers do with the bytes of a variable | - |
| `IoIntr` | a record with `SCAN=I/O Intr` and its variable, through the operators of `Values` | `Values` |
| `Configuration` | `AdsOpen`, the addresses of records, variables and their lists, `initHook` | - |

`MCAdsDriver`, `MCSumRead`, `MCReadBack`, `MCIoIntr` and `MCConfiguration` give
constants their values. `AdsDriverProofs`, `SessionProofs`, `SumReadProofs`,
`BufferAccessProofs`, `ReadBackProofs`, `ValuesProofs`, `IoIntrProofs` and
`ConfigurationProofs` hold theorems and proofs.

The modules are cut where the code is: `AdsDriver` has all interleavings of the
driver and abstracts data to the session they belong to; each of the others
takes one thing that `AdsDriver` abstracts (the positions in the buffers, the
copy of one buffer, the bits of one variable, the values of one variable, the
start) and has it in detail, with the rest of the driver reduced to what matters
for it. Definitions marked `(wrong)` are plausible errors in the code; no
specification uses them, they are there to check the properties.

### `AdsDriver`

One action is one critical section, one ADS call or one unprotected read of
shared state: between any two of them another thread may step in. The scan
thread's program counter is `scan`; `ctx` says on whose behalf `doSumRead` and
`ADSDisconnect` run, because they return to different places: from an ordinary
turn (`"cycle"`, no driver lock), from `ADSConnect` (`"connect"`,
`"connectRead"`, driver lock held; `ADSDisconnect` then runs twice, once in
`doSumRead` and once in `adsScan`), or at the end (`"exit"`).

| Code | Actions |
|---|---|
| `createDeviceVariable`, `initHook`, destructor | `CreateDeviceVariable`, `InitHook`, `Shutdown`, `Joined` |
| `adsScan` loop, device queries | `ScanLoop`, `ReadDevice`, `BeginConnect`, `UnlockDriver`, `ScanExit` |
| `ADSConnect` | `Connect` (with `OpenPort` for `Connection::connect`), `LockResolve`, `ResolveVariable`, `ResolveEnd`, `InitializeRequest` |
| `doSumRead`, `performIOIntr` | `ReadChunk`, `ReadChunkFails`, `ReadEnd`, `PerformIOIntr` |
| `ADSDisconnect` | `Deinitialize`, `DisconnectCheck`, `LockUnresolve`, `UnresolveVariable`, `UnresolveEnd`, `Disconnect` |
| read handlers | `ReadCheck`, `ReadBufferState`, `ReadCopy` |
| write handlers | `WriteCheck`, `WriteLock`, `WriteCall` |
| masked write (`digitalWrite`) | a read, then a write, in the same handler |
| asyn, autoparamDriver (external) | `ProcessRecord`, `EnterHandler` |

Data are abstracted to the *session* they belong to: sessions are numbered by
successful `AdsPortOpenEx` calls. A handle is the session in which it was
acquired, buffer content is the session whose sum-read brought it, and 0 means
none. `Connection::ads_port` is 0 or the session. `devHandles` and `routes` are
ghosts of what the device and the ADS router keep; `pub` of what I/O Intr records
carry; `lost` counts failed calls that open a port or acquire or release a
handle.

An ADS call (`AdsCall`) succeeds, or fails as long as fewer than `MaxFaults` calls
have failed. A failed request for a handle may have been carried out by the
device. An individual variable may be unreadable in an otherwise successful
sum-read (`bad`). `WriteCall` on a port that was closed meanwhile is refused by
the library.

Sleeping and waiting times are not modelled: any thread may take any time. The
device query due every `deviceInfoPeriod` may happen in any turn.

### `SumRead`

`allocate()` variable by variable, in every order, then buffer by buffer, with
its error path; `deallocate`, `initialize` (up to the first variable that is not
resolved, in the order of the walk over chunks) and `deinitialize`. `reader` is
`ADSVariable::buffer_reader`; a chunk records what `SumReadBuffer` keeps
(`vars`, `bytes`, `data`, `ready`) and the lengths in its request. `size_t`
counts modulo `SizeMod`, so that the overflow check of `add_variable` has
something to catch.

### `BufferAccess`

`AdsDriver` takes the copy in `read_data` as one step. Here it takes one step per
cell, and so does the library when it writes the answer. The content of a cell is
the sweep that wrote it, modulo `Sweeps`. `rwlock` prefers writers: no reader
gets in while a writer waits.

### `ReadBack`

One variable written by records that share an `ADSVariable` (same function and
address). The handler of `digitalWrite` is two steps: `BeginWrite`, the read of
the current value if there is a mask, and `Write`, `WriteFails` or `WriteRefused`,
all under the driver lock. Between them the scan thread can bring a new sum-read
or lose the session, which need no driver lock. `last` is `last_written`, which
`read_from_buffer` (`BufferReading`, `LastAfterRead`) returns once. A value carries
the number of changes of the variable that had happened when it was its value: an
older value is one with a smaller number. `ProgramStep` stands for whoever else
writes the variable. Disconnects and reconnects are one step each; `AdsDriver` has
their details, but the moment between a failing call, from which on the buffer is
invalid, and `ADSDisconnect` is a state of its own (`"disconnect"`), because a handler
can still write in it.

`param` is the asyn parameter of the variable. `Publish` sets it, and
`callParamCallbacks` gives it only to the records that have one of the bits in which
it changed (`CalledBack`): a mask is a record's interrupt mask, too, and a record
without one is called back on any change. A write does not set the parameter, because
the driver switches autoparamDriver's own callbacks off (`setAutoInterrupts(false)`,
line 95); the record shows what it wrote, or tried to write (`Attempted`, with an alarm
that is not modelled), until the parameter changes in its bits.
The records are therefore not simply the last reading, and `InStep(r)` says when
record `r` will follow the variable: it shows what the parameter is, or what
`last_written` will make of it at the next `Publish`.

Ghosts say what a property is about: `by`, who changed the variable last, a record, a
record whose write did not succeed, or the program; `taken`, that a masked write has
read `last_written` and has not succeeded since; and in the handler `read`, that its
read succeeded, and `sampled`, that what it returned was the variable and still is.

### `Values`

No state. `Size` is `ads_datatype_sizes`, `Function` the table of registered
functions, and the C types that are chosen for a variable are those of the
registered handlers (`Handled`, `Digital`, `Epics`) and those of the dispatch in
`performIOIntr` (`Published`): two tables in the code that have to agree. The
contents of a variable are its bytes as one number with `Byte` values per byte,
so that `Low` is a conversion to fewer bytes and `Number` is the sign; `Power[n]` is
the number of values of `n` bytes.
`LocalBytes` is the local variable that `read_from_buffer` fills, with the bytes
it does not fill taken from `junk`.

### `IoIntr`

One variable and one record of any function of `Values`. The variable may change,
become unreadable (`ok` is the result of its read) and be written by records at
any time; `SumRead` and `Publish` alternate. The data of a failed read are
arbitrary, and are hashed like others, because `read_from_buffer` copies before it
looks at the result. `array_data_hash` starts with any value: it is not
initialised. Properties about arrays speak of one that was called back at least
once (`called`): with an unlucky initial hash the first data are not sent. A write
(`WriteScalar`, `WriteElements`) goes through the conversions of its handler;
`asked` remembers it until somebody else changes the variable. `Bytes` is
`ADSVariable::size`, a product in 32 bits: of elements that do not fit, what has room
is written.

### `Configuration`

`AdsOpen(command)` with its checks and conversions, `LoadRecord(spec, intr)` for
every record (`ParseAddress`, then `Find`, then `CreateDeviceVariable`), and
`InitHook`. A text is a number, a word or nothing, a token is a text with or
without a key; the parsers (`ParseNelem`, `ParseOperation`, `ParsePort`,
`ParseName`, `ParseType`) are translated one by one, with the order in which their
exceptions are thrown, and `Short`, `Wide` and `LongMax` are the widths of
`uint16_t`, `uint32_t` and `long`. The phase `"undefined"` is where the program is
after it has read a missing argument or after an exception that nobody handles.
`UsageTimeout` is the default that the usage message of `AdsOpen` prints.
`Interrupt` (`getInterruptVariables`) and `Find` are what autoparamDriver does.

### `Session`

The abstract specification. Its variables are functions of those of `AdsDriver`:
`session` is `ads_port`, `opened` is `sessions`, `running` the threads that are
between entry and return of a handler, `gone` the end of the destructor. It says
that a session begins only after the one before has ended and while no handler
runs, that it may end under a handler, that handlers run one at a time, that
`performIOIntr` publishes with no handler running and never data of an earlier
session than a record has already, and that the driver goes with its session
closed. `AdsDriver!SessionSpec` is checked and proved.

## 3. Runs

| Run | Question | Instance and bounds |
|---|---|---|
| `driver` | Do the sessions, handles, buffers and leftovers stay consistent, can whoever holds a lock go on, does every turn of the scan thread end, does the driver implement `Session`, and does it recover, shut down, return? | two variables: an I/O Intr input and an output with read-back; two chunks; one processing thread, two failed calls, `FairSpec` |
| `write_race` | Does a write reach its variable? | as `driver`, with an output that is not read: it does not (5) |
| `sum_read` | Does the layout match the device's? | five variables on two ports: one over the soft limit, one that makes `size_t` wrap; two variables per chunk |
| `buffer` | How torn can a copy be, can whoever holds a lock go on, and do readers hold up the sum-read? | two cells, two readers, five sweeps, `FairSpec` |
| `buffer_torn` | Is a copy of one sweep? | it is not (5) |
| `read_back` | Which bits does a masked write keep and when does it make them up, do records ever go back in time, which ones lose track of the variable, do the others settle? | two bits, a record for one of them and one for both, the program of the PLC, three changes, one failed call, `FairSpec` |
| `masked_stale` | Does a masked write always keep the other bits? | a record for each bit and one for both, four writes, no program, no failures: it does not (5) |
| `io_intr` | Do records with `SCAN=I/O Intr` show what a polled one shows, and what was written? | all functions but some arrays, five elements, bytes of two values, three contents, three hashes, `FairSpec` |
| `array_alarm` | Are array records in alarm when scalars are? | they are not (5) |
| `intr_width` | Do records of a `UDINT` show its value? | they do not (5) |
| `config` | What do startup scripts and records become? | 10 commands, 18 specifications of records, up to three records, each with or without I/O Intr |
| `usage` | Does `AdsOpen` do what its usage message says? | as `config`, one record: it does not (5) |

Why the bounds are enough. Two failed calls are the smallest number with which a
failure can hit the clean-up of an earlier failure (a sum-read that fails and a
release that times out in the disconnect that follows, or a reconnect that fails
again); sessions are unbounded but for that, and a third session behaves like
the second because nothing but the newest session's number is kept anywhere,
which the proofs confirm for any number. One processing thread suffices for the
safety properties because handlers exclude each other through the driver lock,
which is proved for any number of threads (`LockInv`, and `Running` in
`SessionProofs`). Two variables are a readable one and one that is in both lists; an
output without read-back differs from the latter only in that it is never read, and is
in `write_race`. Two chunks are the least with which a sum-read can fail after one
chunk was read.

In `sum_read` every size relation occurs: a chunk closed by count, by the soft
limit, by neither; two variables of the same size; a chunk per port; a wrap. In
`buffer`, five sweeps modulo are enough to tell neighbours from others (a
difference of 1 from one of 2 or 3); two cells are the least a copy can tear.

In `read_back`, two bits are one inside and one outside of a mask, and three
changes are enough for a write, one that uses up its read-back, and one that then
merges with the buffer, by different records or the program; the one failure is that
of a write or that which loses the session. The second masked record of `masked_stale` would
be the mirror image of the first.

`io_intr` has no counters: its bounds are the contents. Zero, the smallest negative
number and -1 of each type are those that a wrong size or sign changes, in bytes of
two values as in bytes of 256; zero and -1 share a hash. `RecordValues` are all
numbers of the type, and some out of its range. Three functions of arrays, of one,
two and four bytes per element, stand for all: every array goes through the same
template. Five elements of four bytes are 20 bytes, which do not fit into the 16
values that `uint32_t` then has: their size wraps to four bytes.
`array_alarm` and `intr_width` have bytes of four values and two elements.

In `config`, `uint16_t` has 20 values, `uint32_t` 100 and `long` 601, so that
numbers of two and three digits are in range of all, of some, and of none; each
specification breaks one rule of the grammar or one range, or none, and three
records are one that creates a variable, one that shares it, and one more.

Deadlock is checked in every run (and `NoCircularWait` and `LockHoldersGoOn` say of
each lock what TLC's check, which asks only for one enabled action anywhere, does not); `AdsDriver` has an explicit stuttering step
`Destroyed` for the one state in which it may stop, `Configuration` its `Done`.

## 4. Fairness

`AdsDriver!Fairness`: strong fairness of the scan thread and of each handler,
weak fairness of the join. Strong, because a thread waits for locks that are
taken and released over and over: the driver lock and `Connection::mtx` are
`epicsMutex`es, and the scan thread sleeps outside both of them in every turn
(`waitForConnectionPeriod`, `sumReadPeriod`), as does a processing thread between
records, so that a waiting thread is let in. This is a property of the scheduler
in the end, not of the code, and it is the only one assumed: nothing obliges
records to be processed, `initHook` to run or the IOC to exit. `BufferAccess!FairSpec`
assumes strong fairness of the driver lock for the scan thread only, and of
`rwlock` nothing but the writer preference the code asks for: `SweepsGoOn`
depends on it. (Built without `LINUX_USE_CPP11`, `RWLock` is a
`boost::shared_mutex`, whose own policy takes the place of that preference.)
`ReadBack!FairSpec` has the same strong fairness for the scan
thread and weak fairness of a handler that runs; `IoIntr!FairSpec` weak fairness
of the scan thread, which nothing disables there.

An ADS call is a single step that is always enabled while it may fail or
succeed: the library has a timeout for every call.

## 5. Disagreements between code and documentation

* `write_race`: `ADSVariable::write` checks `is_resolved()` before it takes
  `Connection::mtx` and reads index group, index offset and port after it. If the
  scan thread runs `unresolve_variables` in between (no lock prevents that in an
  ordinary turn), the request goes to the open port with index group 0 and offset
  0, and the record that was written is told that the write succeeded if the
  device accepts it. The manual promises a write to the corresponding variable.
  What does hold, and is proved: it never goes out with a handle of an earlier
  session (`WritesUseNoOldHandle`).
* `buffer_torn`: `SumReadRequest::read` lets the library write the buffer without
  `rwlock`, which the comment on `get_buffer` asks for. A handler can return a
  variable half from one sweep and half from the next. What does hold: never from
  sweeps further apart (`AtMostOneSweepApart`), because `save_buffer` needs the
  write lock before each sweep.
* `masked_stale`: `digitalWrite` takes the bits outside the mask from
  `read_from_buffer`. After a write has been read back (by `performIOIntr`) and
  before the next sum-read, that is the value before the write, and a masked
  write to other bits undoes it, although the comment says that they are read
  first. What does hold (`SampledBitsKept`): it keeps them when the last write was
  not read back yet or a sum-read has come since.
  What happens when that read fails is not looked at, and the bits outside the mask are
  made up. With read-back (`MadeUpBitsWindow`) they get to the device only between the
  failing call and the `ADSDisconnect` that follows; before and after, there is a value
  to read or no session to write to. An output without `asyn:READBACK` has nothing to read
  and always makes them up (`OtherBitsKept` fails with `Readback = FALSE`).
  The read also uses up the value kept for the read-back, so that after a failed masked
  write a record jumps back to the value before the last write. Nothing else makes it do
  so (`NoJumpBack`, whose ghost `taken` is this case).
* `array_alarm`: `performArrayCallbacks` looks at the hash of the data only, while
  `callParamCallbacks`, which its comment says it mimics, looks at the status,
  too. What does hold: an array record shows data with the hash stored last
  (`ArrayShowsTheHash`), and that of the variable in the end (`RecordCatchesUp`).
* `intr_width`: `performIOIntr` reads a `DWORD` or `UDINT` with
  `integerRead<epicsUInt64>`, of whose eight bytes `read_from_buffer` fills four;
  the others were not initialised. Their `_digi` functions it reads with the mask
  0xFFFF, so that the upper half is lost. The registered handlers do neither. What
  does hold: the lower four (two) bytes are right, and every other function shows
  what a polled record shows (`ScalarsShowTheVariable`).
* `usage`: `AdsOpen` counts the command among its arguments and accepts two, without an
  AMS net ID, where its usage message requires three; and that message prints
  `defaultADSCallTimeout_ms` (500 ms) as the default of the timeout, while -1 is passed on as a
  `uint32_t`. The manual says 5000 ms, of the ADS library; the driver stores its number
  and does not use it. What does hold (`SettingsAsAsked`): with three arguments all
  settings that were given and fit are taken as given, and the defaults of the others
  are those of the code.

A record can lose track of its variable for good. The manual says of
`info(asyn:READBACK, "1")` that "the ADS device support will update the output variable
if it was changed outside of EPICS" (`index.rst:196`), but `performIOIntr` calls records
back on changes of the parameter only, and writes do not set it:

* The parameter is A. A record writes B and another one A, both before the next
  `performIOIntr`. That finds A and calls nobody back: the first record shows B until
  the variable changes once more.
* The same with the program of the PLC in place of the other record, which is the case
  the manual is about: a masked write reads `last_written`, which uses it up, and fails;
  the program writes A before the next sum-read.
* A record whose write failed shows what it tried to write, with an alarm.

`ReadBack` has these histories, and two properties say that there are no others: a
record gets out of step only by a write of its own that does not succeed or by another
record's write before the next `performIOIntr` (`LeftBehindByWritesOnly`), and one that
stays in step shows the value of the PLC in the end (`ShownSettles`). The stronger
statement, for all records, is `ShownSettles` without its hypothesis; no run is about
it.

The following have no run: the outcome is undefined, or `Configuration`, `Values` or
`IoIntr` shows it in a definition.

* `parse_ads_port` returns a 32-bit number as `uint16_t` (`ParsePort`): a port above
  65535 is taken for another one, which contradicts the comment on it, that an invalid
  port throws (`epics-ads/ADSAddress.cpp:347`). Records that follow the manual, with
  ports in range, are bound to what they name (`RecordsGetWhatTheySay`).
* `parse_nelem_autoparam` does not ask whether `N=` is there and cuts off the first
  digit of a bare number (`ParseNelem`, `ButFirst`).
* `parseDeviceAddress` catches `std::invalid_argument`; a number beyond `long` throws
  `std::out_of_range`, and a missing argument is read beyond the end of the vector.
* `sum_buffer_nelem` 65536 becomes 0, for which `SumReadRequest` throws an exception
  that ends the IOC.
* `ADSVariable::size` multiplies in 32 bits: `N=536870912` of an eight-byte type has
  size 0; the handlers wrap in the same way and read and write nothing, with success
  (`Bytes` and `WriteElements` in `IoIntr`).
* `integerWrite` sends the low bytes of a value that does not fit (`Fits` in
  `WriteReadsBack`), and `arrayWrite` and `stringWrite` send `N=` elements even if the
  record has fewer.

## 6. Proofs

`AdsDriverProofs` proves for any sets of variables, chunks and threads and any
`MaxFaults`, from the assumptions in `AdsDriver` (`VarsAssumption`,
`ChunksAssumption`, `ThreadsAssumption`, `FaultsAssumption`; there are finitely many
variables and chunks):

| Theorem | States |
|---|---|
| `Invariance` | `Spec => []Inv` |
| `TypeCorrect` | `Spec => []TypeOK` |
| `NoHalfConnection` | `Spec => []NeverHalfConnected` |
| `ReadsAreFresh` | `Spec => []ReadsAreOfTheLatestSession` |
| `WritesAreCurrent` | `Spec => []WritesUseNoOldHandle` |
| `LeaksAreBounded` | `Spec => []LeaksCostFaults` |
| `HandlersKeepTheirSession` | `Spec => NoReconnectInHandler` |
| `LocksAreOrdered` | `Spec => []NoCircularWait` |
| `EveryTurnEnds` | `Spec => TurnsEnd` |

None of these properties is inductive. `Inv` strengthens them by conjuncts that
are proved one lemma each (`TypeNext`, `LockNext`, ..., `LeakNext`), each with one
step per action, and each relying on the earlier ones:

1. `TypeOK`.
2. `LockInv`: who holds which lock, from the program counters; in particular the
   scan thread holds the driver lock exactly in `ADSConnect` and in what it calls.
3. `StartInv`: the lists of variables no longer change when the scan thread uses
   them.
4. `PortInv`: at which places of the loop the port is open and the request
   initialised. `NeverHalfConnected` is one of its conjuncts.
5. `HandleInv`: a handle is of the newest session, and after the unresolve loops
   there is none. That the port is only opened with no handle left is what keeps
   old handles out of new sessions.
6. `FreshInv`: with the port open and the driver lock not with the scan thread,
   all buffers hold data of the newest session or none. The buffers still hold old
   data during `ADSConnect`, up to the initial sum-read; that all of this happens
   under the driver lock, which a reader needs, is why no reader sees them.
7. `LeakInv`: for every variable, handles on the device are at most those in use
   plus the failed calls.
8. `PublishedInv`: what I/O Intr records carry is of a session there was, and not of a
   later one than a value that was written and still waits to be read back; the
   driver that is gone has no port open. `SessionProofs` needs it.

`HandlersKeepTheirSession` follows from `LockInv`: a session is opened under the
driver lock, which a handler holds.

The last two are the safety half of `HandlersReturn`, `ExitCompletes` and
`Recovers`: what does not depend on the scheduler. `NoCircularWait` says that a
thread which has a lock that another one waits for is at a place where it can take
its next step, or waits itself for one that is. `LocksAreOrdered` gets it from
`LockInv`: with the driver lock a thread may wait for `Connection::mtx`, and whoever
has that is in an ADS call (`ScanGoesOn`, `HandlerGoesOn`). `TurnsEnd` says that every
step of the scan thread lowers a natural number, `Rank`, unless it begins a turn:
the place in the loop first (`Place`), then what is left to resolve, to release or
to read (`ToVisit`, a sum of cardinalities; `Lexicographic` and `OneVisited` are the
arithmetic). No failing call, in whatever order, makes it start anything again
before it has come to where it sleeps. `TurnNext` has one step per action.

`SumReadProofs` proves for any variables, ports, sizes and limits, from
`LayoutAssumption` in `SumRead` (a single variable with its result fits into
`size_t`; without it `add_variable` could not detect the overflow):

| Theorem | States |
|---|---|
| `Invariance` | `Spec => []Inv` |
| `TypeCorrect` | `Spec => []TypeOK` |
| `RegionsAreDisjoint` | `Spec => []RegionsDisjoint` |
| `LayoutIsTheDevices` | `Spec => []LayoutMatchesDevice` |
| `ChunksHaveOnePort` | `Spec => []OnePortPerChunk` |
| `NoReaderDangles` | `Spec => []NoDanglingReader` |
| `ChunksAreFilledInOrder` | `Spec => []ChunksFilledInOrder` |

`RegionsDisjoint` speaks of the variables that have a position; that a new one
gets no region twice needs to be known of the chunk it goes to, and that
`deallocate` clears every position needs that every variable with a position is
found in a chunk. Hence the conjuncts of `SumRead!Inv`:

1. `PhaseInv`: what is left to add has no position, all else has one.
2. `ReaderInv`: `buffer_reader` and the chunks refer to each other, and the last
   chunk of a port is of that port.
3. `PackedInv`: the data of a chunk follow each other without gaps, its size is
   that of results and data. The new region then starts where the last one ends.
4. `RequestInv`: once initialised, the request asks for the sizes laid out.

`AddVariable` is the step with the work in it: `TargetFacts` says which chunk it
takes, `AddFacts` what it does to it, `Sizes` the arithmetic, and `AddKeepsInv`
proves each conjunct for that chunk and for the others. The steps that only
change states and request entries share `SkeletonKeepsLayout`, those that free
everything share `FreeKeepsInv`. `LayoutMatchesDevice` follows from `PackedInv`
and `RequestInv`.

`SessionProofs` proves `DriverImplementsSession`, `Spec => SessionSpec`, from `AdsDriver!Inv`, one lemma per
kind of step: all steps of the scan thread leave `Session` unchanged but `Connect` when it opens the
port (`Open`), `Disconnect` (`Close`), and `PerformIOIntr` (`Publish`, for which
`FreshInv` gives that the data are of the open session); `EnterHandler` and the
returns are `Enter` and `Leave`, where `LockInv` gives that nobody else runs.

`BufferAccessProofs` proves for any cells, readers and number of sweeps (from
`BufferAssumption`; sweeps are counted modulo `Sweeps`) `TypeCorrect`,
`CopiesMixTwoSweeps` and `HoldersGoOn`. The inductive invariant adds to the types who
holds the driver lock and `rwlock` (`HandlersLocked`, `ScanLocked`, `WriterLocked`),
that the buffer holds the last
sweep but for the cells still to be written (`BufferRecent`), and that what was
copied is of the last sweep when the next may begin (`CopyRecent`): a reader cannot
be in its copy while `save_buffer` has the write lock. `HoldersGoOn`
(`LockHoldersGoOn`) is about the writer preference of `rwlock`, which makes a handler
wait for a scan thread that itself only waits: the two never wait for each other.

`ReadBackProofs` proves for any bits, masks, records and bounds (from
`MaskAssumption`):

| Theorem | States |
|---|---|
| `TypeCorrect` | `Spec => []TypeOK` |
| `MaskedWritesWrite` | `Spec => OwnBitsWritten` |
| `MaskedWritesKeep` | `Spec => SampledBitsKept` |
| `ShownMovesForward` | `Spec => NoJumpBack` |
| `MadeUpBitsOnlyBeforeDisconnect` | `Spec => MadeUpBitsWindow` |
| `LeftBehind` | `Spec => LeftBehindByWritesOnly` |

The invariant says that what a handler has read is the variable
as long as the ghost says so (`HandlerInv`), that the number of changes tells values
apart and that `last_written` is the variable while nothing happens to it
(`VersionInv`), that records show nothing newer than what the next
`performIOIntr` will show them (`ShownInv`), and that a handler which could not read has
no session or runs before a disconnect (`WindowInv`; `ADSConnect` cannot change that,
because it needs the driver lock). `LeftBehind` has one lemma per kind of step:
`PublishKeepsInStep`, of which the case of a record that is not called back is the
interesting one (its bits of the parameter did not change), and `OwnWriteInStep`.

`ConfigurationProofs` proves, for any types, port names, commands, specifications
and widths (from the assumptions in `Configuration`: `Short` is at most half of
`Wide`, which is even; the defaults and the named ports fit into `Short`), all five
properties of the run `config`. `ParseConforming` is the lemma about the parser: an
address that follows the manual is parsed to its meaning. The invariant adds that
the settings are those of an accepted command (`SettingsInv`), that records, lists
and variables refer to each other (`TablesInv`), and that before `initHook` each
variable is in the list of its operation once (`ListsInv`). `OnceInBoth` is about the
list that `initHook` makes of two.

`ValuesProofs` proves what the conversions do, for any `Byte` above 1 (from
`ByteAssumption`):

| Theorem | States |
|---|---|
| `WrittenIsRead` | a value that the C type of a write handler holds is what polling gives back |
| `PublishedIsPolled` | the two tables of types agree in what a record shows: exactly, and for `DWORD` and `UDINT` in the lower four or, masked, two bytes |

The exponents in these conversions depend on the type, so that the lemmas need
`Power[m + n] = Power[m] * Power[n]` for all exponents, by induction. No prover here
can instantiate an induction theorem that takes an operator; `SetInduction` is about
a *set* that holds 0 and with each number the next one, and follows from
`LeastElement`: a set of numbers has a least one, as `<` is well-founded on `Nat`
(`NatLessThanWellFounded`, `WFMin`). That `Power` is a function at all is
`PowerExists`, made of its finite parts (`IsPart`, `PartsAgree`, `PartsExist`).
`LowOfLow` and `LowOfSum` then say what a conversion keeps, `NumberIs` and
`NumberOfBytes` that bytes and numbers of a C type correspond, `LocalIs` and
`IntegerReadKeeps` which bytes survive a variable that `read_from_buffer` did not
fill; `HandledIs`, `PublishedIs` and `DigitalIs` read the tables.

`IoIntrProofs` proves, for any functions, bytes, elements and hash (from the
assumptions in `Values` and `IoIntr`):

| Theorem | States |
|---|---|
| `TypeCorrect` | `Spec => []TypeOK` |
| `ArraysFollowTheHash` | `Spec => []ArrayShowsTheHash` |
| `ScalarsAreRight` | `Spec => []ScalarsShowTheVariable` |
| `OnlyWideTypesDiffer` | `Spec => []IntrShowsTheValue`, which the run `intr_width` refutes, if no record is of a `DWORD` or `UDINT` |
| `WritesReadBack` | `Spec => []WriteReadsBack` |

Each is inductive with `TypeOK`; the work is in `ValuesProofs` and in `TakenIs`,
which says how much of an array has room in a size that was cut to 32 bits. So
the model-checked bytes of two and four values stand for those of 256, and five
elements for any `N=`.

### Only model-checked

* Liveness, which needs fairness and `ENABLED`: `Recovers`, `ExitCompletes`,
  `HandlersReturn`, `SweepsGoOn`, `ShownSettles`, `RecordCatchesUp`. What they need of
  the code besides a fair scheduler is proved for the locks and the scan thread
  (`LocksAreOrdered`, `EveryTurnEnds`, `HoldersGoOn`).
* The properties of the runs that find a violation are false, and have no proof.

## 7. Not modelled

* Values of `REAL` and `LREAL`: `floatRead` and `floatWrite` have the same C type on
  every path, and a model of rounding would say nothing about the driver.
* The constructors of `ADSAddress` other than the one for autoparam, with index
  groups, offsets, notification delays and record arguments, `ADSVariable::read`,
  `get_read_data`, `RWLock::try_lock_*`: nothing in the driver calls them.
* `AdsSetLocalAMSNetID`, which hands its argument to the ADS library, and the
  registration of the shell commands.
* Log messages and the texts of error codes (`err.cpp`): tables without a state.
  Which errors lead where is in `AdsDriver`, which status a record gets in `IoIntr`.
* Times and periods, see 2.
* The ADS library, asyn, autoparamDriver and EPICS base: their source is not part
  of the repository; they are modelled by what the driver relies on.
* A handler that is still waiting for the driver lock when the driver object is
  destroyed: `AdsDriver` lets it run to its end; whether asyn can get there is a
  question of asyn's exit handling.
* A name that never resolves: the driver then tries to connect for ever and no
  record works. This is what the code does by design; in `AdsDriver` it is a call
  that keeps failing, and `Recovers` speaks of runs in which calls stop failing.
* While the device cannot be reached, `adsScan` does not get to `performIOIntr`, and
  I/O Intr records keep their last value and status. `AdsDriver` leaves `pub`
  unchanged there; no property calls it right or wrong.
