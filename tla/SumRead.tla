------------------------------- MODULE SumRead -------------------------------
(***************************************************************************)
(* How SumReadRequest lays out the variables of a sum-read: which chunk a   *)
(* variable goes to, where in the buffer of the chunk its result and its    *)
(* data are, and what is asked of the device for the chunk.                 *)
(*                                                                         *)
(* The device answers a chunk with the results of all its variables, in the *)
(* order of the request, followed by their data, without gaps, each as long *)
(* as the request said.  The driver computes the same positions on its own, *)
(* one variable at a time, in SumReadBuffer::add_variable.                  *)
(***************************************************************************)
EXTENDS Integers, Sequences

CONSTANTS
  Variables,  \* the variables given to allocate()
  Ports,      \* ADS ports (numbers: chunks_by_ads_port is ordered by them)
  Port,       \* the ADS port of a variable
  Size,       \* ADSVariable::size(), in bytes
  MaxVars,    \* max_vars_per_buffer
  SoftLimit,  \* SumReadBuffer::max_data_size_soft_limit
  SizeMod     \* size_t counts modulo SizeMod

ResultSize == 4

\* The size of one variable fits into size_t with room for its result.
ASSUME LayoutAssumption ==
  /\ Ports \subseteq Nat /\ Port \in [Variables -> Ports]
  /\ Size \in [Variables -> Nat]
  /\ MaxVars \in Nat \ {0} /\ SoftLimit \in Nat \ {0} /\ SizeMod \in Nat
  /\ \A v \in Variables : Size[v] + ResultSize < SizeMod

VARIABLES
  phase,       \* where allocate() is: "idle", "adding", "buffers"
  todo,        \* the variables it still has to add
  chunks,      \* the chunks, in the order they were created
  tail,        \* per port: index of chunk_set->back(), 0 for no chunk
  reader,      \* per variable: ADSVariable::buffer_reader
  allocated,   \* SumReadRequest::allocated
  initialized  \* SumReadRequest::initialized

vars == <<phase, todo, chunks, tail, reader, allocated, initialized>>

Empty == [chunk |-> 0, result |-> 0, data |-> 0]  \* EMPTY_BUFFER_DATA_POSITION

\* A chunk: variables, buffer_size, next_data_offset and buffer_initialized of
\* its SumReadBuffer, and the lengths in its sum_read_request_buffer.
NewChunk(p) == [port |-> p, vars |-> <<>>, bytes |-> 0, data |-> 0,
                ready |-> FALSE, request |-> <<>>]

Init ==
  /\ phase = "idle" /\ todo = {} /\ chunks = <<>>
  /\ tail = [p \in Ports |-> 0]
  /\ reader = [v \in Variables |-> Empty]
  /\ allocated = FALSE /\ initialized = FALSE

-----------------------------------------------------------------------------
(* allocate()                                                              *)

Allocate ==
  /\ phase = "idle" /\ ~allocated
  /\ phase' = "adding" /\ todo' = Variables
  /\ UNCHANGED <<chunks, tail, reader, allocated, initialized>>

\* (wrong) Only the number of variables counts.
AtCapacityCount(ch) == Len(ch.vars) >= MaxVars

AtCapacity(ch) == \/ ch.bytes - ResultSize * Len(ch.vars) >= SoftLimit
                  \/ Len(ch.vars) >= MaxVars

\* The last chunk of the port takes another variable.
HasRoom(p) == tail[p] # 0 /\ ~AtCapacity(chunks[tail[p]])

\* (wrong) The newest chunk, whatever its port.
NewestChunk(p) == IF chunks # <<>> /\ ~AtCapacity(chunks[Len(chunks)])
                    THEN Len(chunks) ELSE Len(chunks) + 1

\* Index of the chunk that takes the next variable of port p.
Target(p) == IF HasRoom(p) THEN tail[p] ELSE Len(chunks) + 1

\* chunks, with an empty one at the end when a new one is needed.
ChunksFor(p) == IF HasRoom(p) THEN chunks ELSE Append(chunks, NewChunk(p))

\* new_size in add_variable, as size_t computes it.
NewSize(ch, v) == LET n == ch.bytes + Size[v] + ResultSize
                  IN IF n >= SizeMod THEN n - SizeMod ELSE n

\* (wrong) The data of the next variable start after the result of this one.
NextDataResult(ch, v) == ch.data + ResultSize

NextData(ch, v) == ch.data + Size[v]

\* SumReadBuffer::add_variable and ReadRequestChunk::add_variable.
Extended(ch, v) == [ch EXCEPT !.vars = Append(@, v), !.bytes = NewSize(ch, v),
                              !.data = NextData(ch, v),
                              !.request = Append(@, 0)]

AddVariable(v) ==
  /\ phase = "adding" /\ v \in todo
  /\ LET k == Target(Port[v])
         ch == ChunksFor(Port[v])[k]
     IN /\ NewSize(ch, v) >= ch.bytes
        /\ chunks' = [ChunksFor(Port[v]) EXCEPT ![k] = Extended(ch, v)]
        /\ tail' = [tail EXCEPT ![Port[v]] = k]
        /\ reader' = [reader EXCEPT ![v] =
             [chunk |-> k, result |-> Len(ch.vars), data |-> ch.data]]
  /\ todo' = todo \ {v}
  /\ UNCHANGED <<phase, allocated, initialized>>

\* (wrong) The buffers are freed, the variables keep their positions.
ReadersKept == reader

\* deallocate() decouples the variables of every chunk.
ReadersDecoupled ==
  [v \in Variables |->
     IF \E k \in 1 .. Len(chunks) : \E i \in 1 .. Len(chunks[k].vars) :
          chunks[k].vars[i] = v
       THEN Empty ELSE reader[v]]

FreeChunks ==
  /\ chunks' = <<>> /\ tail' = [p \in Ports |-> 0]
  /\ reader' = ReadersDecoupled
  /\ allocated' = FALSE /\ initialized' = FALSE
  /\ phase' = "idle" /\ todo' = {}

\* ALLOC_ERROR after add_variable: new_size wrapped around.
AddVariableFails(v) ==
  /\ phase = "adding" /\ v \in todo
  /\ LET ch == ChunksFor(Port[v])[Target(Port[v])]
     IN NewSize(ch, v) < ch.bytes
  /\ FreeChunks

VariablesAdded ==
  /\ phase = "adding" /\ todo = {}
  /\ phase' = "buffers"
  /\ UNCHANGED <<todo, chunks, tail, reader, allocated, initialized>>

\* SumReadBuffer::initialize_buffer of a chunk.
InitializeBuffer(k) ==
  /\ phase = "buffers" /\ ~chunks[k].ready
  /\ chunks' = [chunks EXCEPT ![k].ready = TRUE]
  /\ UNCHANGED <<phase, todo, tail, reader, allocated, initialized>>

\* ALLOC_ERROR after initialize_buffer: out of memory.
InitializeBufferFails(k) ==
  /\ phase = "buffers" /\ ~chunks[k].ready
  /\ FreeChunks

AllocateEnd ==
  /\ phase = "buffers" /\ \A k \in 1 .. Len(chunks) : chunks[k].ready
  /\ phase' = "idle" /\ allocated' = TRUE
  /\ UNCHANGED <<todo, chunks, tail, reader, initialized>>

-----------------------------------------------------------------------------
(* deallocate(), initialize(), deinitialize()                              *)

Deallocate == phase = "idle" /\ allocated /\ FreeChunks

\* (wrong) The length in the request includes the result.
LengthWithResult(v) == Size[v] + ResultSize

Length(v) == Size[v]

\* The entries of the variables in done are filled in.
Filled(done) ==
  [k \in 1 .. Len(chunks) |->
     [chunks[k] EXCEPT !.request =
        [i \in 1 .. Len(chunks[k].vars) |->
           IF chunks[k].vars[i] \in done THEN Length(chunks[k].vars[i])
                                         ELSE chunks[k].request[i]]]]

\* u comes before v in the walk over get_chunks().
Before(u, v) ==
  \/ Port[u] < Port[v]
  \/ Port[u] = Port[v] /\ reader[u].chunk < reader[v].chunk
  \/ reader[u].chunk = reader[v].chunk /\ reader[u].result < reader[v].result

\* The walk stops at the first variable that is not resolved (done: those before
\* it), and the request stays uninitialised.
Initialize(done) ==
  /\ phase = "idle" /\ allocated /\ ~initialized
  /\ \A v \in done, u \in Variables : Before(u, v) => u \in done
  /\ chunks' = Filled(done)
  /\ initialized' = (done = Variables)
  /\ UNCHANGED <<phase, todo, tail, reader, allocated>>

Deinitialize ==
  /\ phase = "idle" /\ allocated
  /\ chunks' = [k \in 1 .. Len(chunks) |->
       [chunks[k] EXCEPT !.request = [i \in 1 .. Len(@) |-> 0]]]
  /\ initialized' = FALSE
  /\ UNCHANGED <<phase, todo, tail, reader, allocated>>

Next == \/ Allocate \/ VariablesAdded \/ AllocateEnd \/ Deallocate
        \/ \E v \in Variables : AddVariable(v) \/ AddVariableFails(v)
        \/ \E k \in 1 .. Len(chunks) :
             InitializeBuffer(k) \/ InitializeBufferFails(k)
        \/ \E done \in SUBSET Variables : Initialize(done)
        \/ Deinitialize

Spec == Init /\ [][Next]_vars

-----------------------------------------------------------------------------
ChunkType == [port : Ports, vars : Seq(Variables), bytes : Nat, data : Nat,
              ready : BOOLEAN, request : Seq(Nat)]

\* Types of the state; no index leads beyond the chunks there are.
TypeOK ==
  /\ phase \in {"idle", "adding", "buffers"} /\ todo \in SUBSET Variables
  /\ chunks \in Seq(ChunkType) /\ tail \in [Ports -> 0 .. Len(chunks)]
  /\ reader \in [Variables -> [chunk : 0 .. Len(chunks), result : Nat, data : Nat]]
  /\ allocated \in BOOLEAN /\ initialized \in BOOLEAN

Placed == {v \in Variables : reader[v].chunk # 0}

\* The data of two variables never overlap in a buffer, no result is shared, and
\* everything lies inside the buffer: read_from_buffer hands out bytes of its own
\* variable only.
RegionsDisjoint ==
  /\ \A v \in Placed :
       /\ reader[v].chunk <= Len(chunks)
       /\ reader[v].data + Size[v] + ResultSize * Len(chunks[reader[v].chunk].vars)
            <= chunks[reader[v].chunk].bytes
  /\ \A u, v \in Placed :
       u # v /\ reader[u].chunk = reader[v].chunk =>
         /\ reader[u].result # reader[v].result
         /\ \/ reader[u].data + Size[u] <= reader[v].data
            \/ reader[v].data + Size[v] <= reader[u].data

\* The offsets at which the device puts the data of the variables of a chunk: one
\* after the other, each as long as its request entry says.
DeviceLayout(ch, off) ==
  /\ ch.request # <<>> => off[1] = 0
  /\ \A i \in 1 .. Len(ch.request) - 1 : off[i + 1] = off[i] + ch.request[i]

\* Once the request is initialised, the device answers with as many bytes as the
\* buffer has, and puts the result and the data of every variable where its
\* buffer_reader looks for them.
LayoutMatchesDevice ==
  initialized =>
    /\ \A k \in 1 .. Len(chunks) :
         LET ch  == chunks[k]
             n   == Len(ch.request)
             off == [i \in 1 .. Len(ch.vars) |-> reader[ch.vars[i]].data]
         IN /\ n = Len(ch.vars) /\ n > 0
            /\ DeviceLayout(ch, off)
            /\ ch.bytes = ResultSize * n + off[n] + ch.request[n]
    /\ \A v \in Variables :
         /\ reader[v].chunk \in 1 .. Len(chunks)
         /\ chunks[reader[v].chunk].vars[reader[v].result + 1] = v

\* One request goes to one ADS port: every variable is in a chunk of its port.
OnePortPerChunk ==
  \A v \in Placed : chunks[reader[v].chunk].port = Port[v]

\* However allocate() ends and whatever follows it, no variable keeps a position
\* in a buffer that was freed.
NoDanglingReader ==
  \A v \in Placed :
    /\ reader[v].chunk \in 1 .. Len(chunks)
    /\ \E i \in 1 .. Len(chunks[reader[v].chunk].vars) :
         chunks[reader[v].chunk].vars[i] = v

\* No chunk has more variables than a request may have, none goes beyond the soft
\* limit by more than its last variable, and only the last chunk of a port has
\* room left: there are no more requests in a sum-read than necessary.
ChunksFilledInOrder ==
  \A k \in 1 .. Len(chunks) :
    LET ch == chunks[k]
        n  == Len(ch.vars)
    IN /\ n \in 1 .. MaxVars
       /\ ch.bytes - ResultSize * n - Size[ch.vars[n]] < SoftLimit
       /\ k # tail[ch.port] => AtCapacity(ch)


-----------------------------------------------------------------------------
(* The inductive invariant behind these properties.                        *)

\* What is left to add has no position, everything else has one.
PhaseInv ==
  /\ phase # "adding" => todo = {}
  /\ phase # "idle" => ~allocated
  /\ initialized => allocated
  /\ phase = "idle" /\ ~allocated => chunks = <<>>
  /\ phase # "idle" \/ allocated => Placed = Variables \ todo

\* buffer_reader and the variables of the chunks refer to each other.
ReaderInv ==
  /\ \A p \in Ports : tail[p] # 0 => chunks[tail[p]].port = p
  /\ \A v \in Placed :
       /\ reader[v].result < Len(chunks[reader[v].chunk].vars)
       /\ chunks[reader[v].chunk].vars[reader[v].result + 1] = v
  /\ \A k \in 1 .. Len(chunks) : \A i \in 1 .. Len(chunks[k].vars) :
       LET v == chunks[k].vars[i]
       IN reader[v].chunk = k /\ reader[v].result = i - 1

\* The data of a chunk are packed, and its size is that of results and data.
Packed(k) ==
  LET ch == chunks[k]
      n  == Len(ch.vars)
  IN /\ n > 0 /\ Len(ch.request) = n
     /\ ch.bytes = ResultSize * n + ch.data
     /\ reader[ch.vars[1]].data = 0
     /\ \A i \in 1 .. n - 1 : reader[ch.vars[i + 1]].data =
                                reader[ch.vars[i]].data + Size[ch.vars[i]]
     /\ ch.data = reader[ch.vars[n]].data + Size[ch.vars[n]]

PackedInv == \A k \in 1 .. Len(chunks) : Packed(k)

\* An initialised request asks for every variable at its length.
RequestInv ==
  initialized =>
    \A k \in 1 .. Len(chunks) : \A i \in 1 .. Len(chunks[k].request) :
      chunks[k].request[i] = Size[chunks[k].vars[i]]

\* The inductive invariant: positions and chunks refer to each other, chunks are
\* packed in the order of their variables, requests ask for what was laid out.
Inv == /\ TypeOK /\ PhaseInv /\ ReaderInv /\ PackedInv /\ RequestInv
       /\ RegionsDisjoint /\ OnePortPerChunk /\ ChunksFilledInOrder

=============================================================================
