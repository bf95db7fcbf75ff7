---------------------------- MODULE SumReadProofs ----------------------------
(***************************************************************************)
(* Proofs about SumRead for any variables, sizes and limits: the inductive  *)
(* invariant, and from it that regions are disjoint, that the layout is the *)
(* device's, that no position outlives its buffer.                          *)
(***************************************************************************)
EXTENDS SumRead, TLAPS

\* What the type of a chunk says of its fields.
LEMMA ChunkFields ==
  ASSUME NEW S \in Seq(ChunkType), NEW k \in 1 .. Len(S)
  PROVE  /\ S[k] \in ChunkType /\ S[k].port \in Ports
         /\ S[k].vars \in Seq(Variables) /\ Len(S[k].vars) \in Nat
         /\ \A i \in 1 .. Len(S[k].vars) : S[k].vars[i] \in Variables
         /\ S[k].bytes \in Nat /\ S[k].data \in Nat /\ S[k].ready \in BOOLEAN
         /\ S[k].request \in Seq(Nat) /\ Len(S[k].request) \in Nat
<1>1. S[k] \in ChunkType
  OBVIOUS
<1>2. /\ S[k].port \in Ports /\ S[k].vars \in Seq(Variables)
      /\ S[k].bytes \in Nat /\ S[k].data \in Nat /\ S[k].ready \in BOOLEAN
      /\ S[k].request \in Seq(Nat)
  BY <1>1 DEF ChunkType
<1> QED
  BY <1>1, <1>2

\* The chunks keep their ports, variables, sizes and offsets.
SameSkeleton ==
  /\ Len(chunks') = Len(chunks)
  /\ \A k \in 1 .. Len(chunks) :
       /\ chunks'[k].port = chunks[k].port /\ chunks'[k].vars = chunks[k].vars
       /\ chunks'[k].bytes = chunks[k].bytes /\ chunks'[k].data = chunks[k].data
       /\ Len(chunks'[k].request) = Len(chunks[k].request)
  /\ UNCHANGED <<tail, reader>>

\* A step that changes no more than the state of buffers and the contents of
\* requests keeps the layout.
LEMMA SkeletonKeepsLayout ==
  ASSUME Inv, SameSkeleton
  PROVE  /\ ReaderInv' /\ PackedInv' /\ RegionsDisjoint' /\ OnePortPerChunk'
         /\ ChunksFilledInOrder'
<1> USE LayoutAssumption
<1>0. chunks \in Seq(ChunkType) /\ Len(chunks) \in Nat
      /\ tail \in [Ports -> 0 .. Len(chunks)]
      /\ reader \in [Variables -> [chunk : 0 .. Len(chunks), result : Nat, data : Nat]]
  BY DEF Inv, TypeOK
<1>1. Placed' = Placed /\ \A v \in Placed : reader[v].chunk \in 1 .. Len(chunks)
  BY <1>0 DEF Placed, SameSkeleton
<1>2. ReaderInv'
  <2>1. \A p \in Ports : tail'[p] # 0 => chunks'[tail'[p]].port = p
    BY <1>0 DEF Inv, ReaderInv, SameSkeleton
  <2>2. ASSUME NEW v \in Placed
        PROVE  LET ch == chunks'[reader'[v].chunk]
               IN reader'[v].result < Len(ch.vars) /\ ch.vars[reader'[v].result + 1] = v
    <3>1. reader'[v] = reader[v] /\ reader[v].chunk \in 1 .. Len(chunks)
      BY <1>1 DEF SameSkeleton
    <3>2. chunks'[reader[v].chunk].vars = chunks[reader[v].chunk].vars
      BY <3>1 DEF SameSkeleton
    <3>3. LET ch == chunks[reader[v].chunk]
          IN reader[v].result < Len(ch.vars) /\ ch.vars[reader[v].result + 1] = v
      BY DEF Inv, ReaderInv
    <3> QED
      BY <3>1, <3>2, <3>3
  <2>3. ASSUME NEW k \in 1 .. Len(chunks'), NEW i \in 1 .. Len(chunks'[k].vars)
        PROVE  LET v == chunks'[k].vars[i]
               IN reader'[v].chunk = k /\ reader'[v].result = i - 1
    <3>1. k \in 1 .. Len(chunks) /\ chunks'[k].vars = chunks[k].vars /\ reader' = reader
      BY DEF SameSkeleton
    <3>2. LET v == chunks[k].vars[i]
          IN reader[v].chunk = k /\ reader[v].result = i - 1
      BY <3>1 DEF Inv, ReaderInv
    <3> QED
      BY <3>1, <3>2
  <2> QED
    BY <1>1, <2>1, <2>2, <2>3 DEF ReaderInv
<1>3. PackedInv'
  <2> SUFFICES ASSUME NEW k \in 1 .. Len(chunks') PROVE Packed(k)'
    BY DEF PackedInv
  <2> DEFINE vs == chunks[k].vars
  <2>1. /\ chunks'[k].vars = vs /\ chunks'[k].data = chunks[k].data
        /\ chunks'[k].bytes = chunks[k].bytes /\ k \in 1 .. Len(chunks)
        /\ Len(chunks'[k].request) = Len(chunks[k].request) /\ reader' = reader
    BY DEF SameSkeleton
  <2>2. /\ Len(vs) > 0 /\ Len(chunks[k].request) = Len(vs)
        /\ chunks[k].bytes = ResultSize * Len(vs) + chunks[k].data
        /\ reader[vs[1]].data = 0
        /\ chunks[k].data = reader[vs[Len(vs)]].data + Size[vs[Len(vs)]]
    BY <2>1 DEF Inv, PackedInv, Packed
  <2>3. \A i \in 1 .. Len(vs) - 1 :
          reader[vs[i + 1]].data = reader[vs[i]].data + Size[vs[i]]
    BY <2>1 DEF Inv, PackedInv, Packed
  <2> HIDE DEF vs
  <2>4. \A i \in 1 .. Len(vs) - 1 :
          reader'[vs[i + 1]].data = reader'[vs[i]].data + Size[vs[i]]
    BY <2>1, <2>3
  <2> QED
    BY <2>1, <2>2, <2>4 DEF Packed
<1>4. RegionsDisjoint'
  <2>1. /\ Len(chunks') = Len(chunks) /\ reader' = reader
        /\ \A v \in Placed : /\ chunks'[reader[v].chunk].vars = chunks[reader[v].chunk].vars
                             /\ chunks'[reader[v].chunk].bytes = chunks[reader[v].chunk].bytes
    BY <1>1 DEF SameSkeleton
  <2> QED
    BY <1>1, <2>1 DEF Inv, RegionsDisjoint
<1>5. OnePortPerChunk'
  BY <1>0, <1>1 DEF Inv, OnePortPerChunk, SameSkeleton
<1>6. ChunksFilledInOrder'
  BY <1>0, <1>1 DEF Inv, ChunksFilledInOrder, SameSkeleton, AtCapacity
<1> QED
  BY <1>2, <1>3, <1>4, <1>5, <1>6

\* FreeChunks leaves nothing that could be wrong.
LEMMA FreeKeepsInv == Inv /\ FreeChunks => Inv'
<1> SUFFICES ASSUME Inv, FreeChunks PROVE Inv'
  OBVIOUS
<1> USE LayoutAssumption
<1>0. chunks \in Seq(ChunkType) /\ Len(chunks) \in Nat
      /\ reader \in [Variables -> [chunk : 0 .. Len(chunks), result : Nat, data : Nat]]
  BY DEF Inv, TypeOK
<1>1. chunks' = <<>> /\ Len(chunks') = 0
  BY DEF FreeChunks
<1>2. \A v \in Variables : reader'[v].chunk = 0 /\ reader'[v].result \in Nat
                             /\ reader'[v].data \in Nat
                             /\ reader'[v] \in [chunk : {0}, result : Nat, data : Nat]
  <2> TAKE v \in Variables
  <2>1. CASE reader[v].chunk = 0
    BY <1>0, <2>1 DEF FreeChunks, ReadersDecoupled, Empty
  <2>2. CASE reader[v].chunk # 0
    <3>1. v \in Placed
      BY <2>2 DEF Placed
    <3>2. reader[v].chunk \in 1 .. Len(chunks)
      BY <1>0, <2>2
    <3>6. /\ reader[v].result \in Nat
          /\ reader[v].result < Len(chunks[reader[v].chunk].vars)
          /\ chunks[reader[v].chunk].vars[reader[v].result + 1] = v
      BY <1>0, <3>1 DEF Inv, ReaderInv
    <3>3. Len(chunks[reader[v].chunk].vars) \in Nat
      BY <1>0, <3>2, ChunkFields
    <3>4. reader[v].result + 1 \in 1 .. Len(chunks[reader[v].chunk].vars)
      BY <3>3, <3>6
    <3>5. ReadersDecoupled[v] = Empty
      BY <3>2, <3>4, <3>6 DEF ReadersDecoupled
    <3> QED
      BY <3>5 DEF FreeChunks, Empty
  <2> QED
    BY <2>1, <2>2
<1>3. TypeOK'
  <2>1. reader' \in [Variables -> [chunk : 0 .. Len(chunks'), result : Nat, data : Nat]]
    BY <1>1, <1>2 DEF FreeChunks, ReadersDecoupled
  <2>2. chunks' \in Seq(ChunkType)
    BY <1>1
  <2>3. tail' \in [Ports -> 0 .. Len(chunks')]
    BY <1>1 DEF FreeChunks
  <2>4. phase' \in {"idle", "adding", "buffers"} /\ todo' \in SUBSET Variables
    BY DEF FreeChunks
  <2>5. allocated' \in BOOLEAN /\ initialized' \in BOOLEAN
    BY DEF FreeChunks
  <2> QED
    BY <2>1, <2>2, <2>3, <2>4, <2>5 DEF TypeOK
<1>4. Placed' = {}
  BY <1>2 DEF Placed
<1>5. PhaseInv'
  BY <1>1, <1>4 DEF PhaseInv, FreeChunks
<1>6. ReaderInv'
  BY <1>1, <1>4 DEF ReaderInv, FreeChunks
<1>7. PackedInv' /\ RequestInv' /\ ChunksFilledInOrder'
  BY <1>1 DEF PackedInv, RequestInv, ChunksFilledInOrder
<1>8. RegionsDisjoint' /\ OnePortPerChunk'
  BY <1>4 DEF RegionsDisjoint, OnePortPerChunk
<1> QED
  BY <1>3, <1>5, <1>6, <1>7, <1>8 DEF Inv

-----------------------------------------------------------------------------
(* AddVariable.                                                            *)

\* The chunk that takes v, before it does, and its index.
K(v)   == Target(Port[v])
Old(v) == ChunksFor(Port[v])[K(v)]

\* The chunk is the last one of the port of v and has room, or it is new.
LEMMA TargetFacts ==
  ASSUME Inv, NEW v \in Variables
  PROVE  /\ K(v) \in Nat \ {0}
         /\ Old(v) \in ChunkType /\ Old(v).port = Port[v]
         /\ ~AtCapacity(Old(v)) /\ Len(Old(v).request) = Len(Old(v).vars)
         /\ Old(v).bytes = ResultSize * Len(Old(v).vars) + Old(v).data
         /\ \/ /\ K(v) = tail[Port[v]] /\ K(v) \in 1 .. Len(chunks)
               /\ Old(v) = chunks[K(v)] /\ ChunksFor(Port[v]) = chunks
            \/ /\ K(v) = Len(chunks) + 1 /\ ~HasRoom(Port[v])
               /\ Old(v) = NewChunk(Port[v])
               /\ ChunksFor(Port[v]) = Append(chunks, NewChunk(Port[v]))
<1> USE LayoutAssumption
<1>0. chunks \in Seq(ChunkType) /\ Len(chunks) \in Nat /\ Port[v] \in Ports
      /\ tail \in [Ports -> 0 .. Len(chunks)]
  BY DEF Inv, TypeOK
<1>1. CASE HasRoom(Port[v])
  <2>1. /\ K(v) = tail[Port[v]] /\ ChunksFor(Port[v]) = chunks
        /\ Old(v) = chunks[tail[Port[v]]] /\ tail[Port[v]] # 0
        /\ ~AtCapacity(chunks[tail[Port[v]]])
    BY <1>1 DEF K, Old, Target, ChunksFor, HasRoom
  <2>2. K(v) \in 1 .. Len(chunks)
    <3>1. tail[Port[v]] \in 0 .. Len(chunks)
      BY <1>0
    <3> QED
      BY <1>0, <2>1, <3>1
  <2>3. Old(v) \in ChunkType
    BY <1>0, <2>1, <2>2, ChunkFields
  <2>4. Old(v).port = Port[v]
    <3>1. chunks[tail[Port[v]]].port = Port[v]
      BY <1>0, <2>1 DEF Inv, ReaderInv
    <3> QED
      BY <2>1, <3>1
  <2>5. /\ Len(Old(v).request) = Len(Old(v).vars)
        /\ Old(v).bytes = ResultSize * Len(Old(v).vars) + Old(v).data
    BY <2>1, <2>2 DEF Inv, PackedInv, Packed
  <2> QED
    BY <2>1, <2>2, <2>3, <2>4, <2>5
<1>2. CASE ~HasRoom(Port[v])
  <2>1. /\ K(v) = Len(chunks) + 1
        /\ ChunksFor(Port[v]) = Append(chunks, NewChunk(Port[v]))
    BY <1>2 DEF K, Target, ChunksFor
  <2>2. NewChunk(Port[v]) \in ChunkType
    BY <1>0 DEF NewChunk, ChunkType
  <2>3. Old(v) = NewChunk(Port[v])
    BY <1>0, <2>1, <2>2 DEF Old
  <2>4. /\ Old(v).port = Port[v] /\ Old(v).vars = <<>> /\ Old(v).request = <<>>
        /\ Old(v).bytes = 0 /\ Old(v).data = 0
    BY <2>3 DEF NewChunk
  <2>5. ~AtCapacity(Old(v))
    BY <2>4 DEF AtCapacity, ResultSize
  <2> QED
    BY <1>0, <1>2, <2>1, <2>2, <2>3, <2>4, <2>5 DEF ResultSize
<1> QED
  BY <1>1, <1>2

\* The chunk with v added, the others as they were, and the position of v.
LEMMA AddFacts ==
  ASSUME Inv, NEW v \in Variables, AddVariable(v)
  PROVE  /\ chunks' \in Seq(ChunkType) /\ K(v) \in 1 .. Len(chunks')
         /\ Len(chunks) <= Len(chunks')
         /\ \A j \in 1 .. Len(chunks') :
              j # K(v) => j \in 1 .. Len(chunks) /\ chunks'[j] = chunks[j]
         /\ chunks'[K(v)].port = Port[v]
         /\ chunks'[K(v)].vars = Append(Old(v).vars, v)
         /\ chunks'[K(v)].bytes = Old(v).bytes + Size[v] + ResultSize
         /\ chunks'[K(v)].data = Old(v).data + Size[v]
         /\ Len(chunks'[K(v)].request) = Len(Old(v).vars) + 1
         /\ reader' = [reader EXCEPT ![v] =
              [chunk |-> K(v), result |-> Len(Old(v).vars), data |-> Old(v).data]]
         /\ tail' = [tail EXCEPT ![Port[v]] = K(v)]
<1> USE LayoutAssumption
<1>0. chunks \in Seq(ChunkType) /\ Len(chunks) \in Nat
  BY DEF Inv, TypeOK
<1>1. /\ chunks' = [ChunksFor(Port[v]) EXCEPT ![K(v)] = Extended(Old(v), v)]
      /\ NewSize(Old(v), v) >= Old(v).bytes
      /\ reader' = [reader EXCEPT ![v] =
           [chunk |-> K(v), result |-> Len(Old(v).vars), data |-> Old(v).data]]
      /\ tail' = [tail EXCEPT ![Port[v]] = K(v)]
  BY DEF AddVariable, K, Old
<1>2. /\ Old(v) \in ChunkType /\ Old(v).bytes \in Nat /\ Old(v).data \in Nat
      /\ Old(v).vars \in Seq(Variables) /\ Old(v).request \in Seq(Nat)
      /\ Old(v).port = Port[v] /\ Port[v] \in Ports /\ Old(v).ready \in BOOLEAN
      /\ Len(Old(v).request) = Len(Old(v).vars) /\ Size[v] \in Nat
  BY TargetFacts DEF ChunkType
<1>3. NewSize(Old(v), v) = Old(v).bytes + Size[v] + ResultSize
  BY <1>1, <1>2 DEF NewSize, ResultSize
<1> DEFINE new == Extended(Old(v), v)
<1>4. /\ new.port = Port[v] /\ new.vars = Append(Old(v).vars, v)
      /\ new.bytes = Old(v).bytes + Size[v] + ResultSize
      /\ new.data = Old(v).data + Size[v]
      /\ new.request = Append(Old(v).request, 0)
  BY <1>2, <1>3 DEF Extended, NextData, ChunkType
<1>5. new \in ChunkType
  <2>1. NewSize(Old(v), v) \in Nat /\ NextData(Old(v), v) \in Nat
    <3>1. \A b, d, s \in Nat : b + s + ResultSize \in Nat /\ d + s \in Nat
      BY DEF ResultSize
    <3> QED
      BY <1>2, <1>3, <3>1 DEF NextData
  <2>2. Append(Old(v).vars, v) \in Seq(Variables) /\ Append(Old(v).request, 0) \in Seq(Nat)
    BY <1>2
  <2> QED
    BY <1>2, <2>1, <2>2 DEF Extended, ChunkType
<1>6. Len(new.request) = Len(Old(v).vars) + 1
  BY <1>2, <1>4
<1> HIDE DEF new
<1>7. CASE K(v) \in 1 .. Len(chunks) /\ ChunksFor(Port[v]) = chunks
  BY <1>0, <1>1, <1>4, <1>5, <1>6, <1>7 DEF new
<1>8. CASE /\ K(v) = Len(chunks) + 1
           /\ ChunksFor(Port[v]) = Append(chunks, NewChunk(Port[v]))
  <2>1. NewChunk(Port[v]) \in ChunkType
    BY <1>2 DEF NewChunk, ChunkType
  <2> DEFINE longer == Append(chunks, NewChunk(Port[v]))
  <2>2. /\ longer \in Seq(ChunkType) /\ Len(longer) = Len(chunks) + 1
        /\ \A j \in 1 .. Len(chunks) : longer[j] = chunks[j]
    BY <1>0, <2>1
  <2>4. chunks' = [longer EXCEPT ![Len(chunks) + 1] = new]
    BY <1>1, <1>8 DEF new
  <2> HIDE DEF longer
  <2>5. chunks' \in Seq(ChunkType) /\ Len(chunks') = Len(longer)
    BY <1>0, <1>5, <2>2, <2>4
  <2>6. /\ \A j \in 1 .. Len(longer) : j # Len(chunks) + 1 => chunks'[j] = longer[j]
        /\ chunks'[Len(chunks) + 1] = new
    BY <1>0, <2>2, <2>4
  <2>3. /\ chunks' \in Seq(ChunkType) /\ Len(chunks') = Len(chunks) + 1
        /\ \A j \in 1 .. Len(chunks) : chunks'[j] = chunks[j]
        /\ chunks'[K(v)] = new
    BY <1>0, <1>8, <2>2, <2>5, <2>6
  <2> QED
    BY <1>0, <1>1, <1>4, <1>6, <1>8, <2>3
<1> QED
  BY <1>7, <1>8, TargetFacts

\* The sizes of a packed chunk with n variables, b bytes and d bytes of data, to
\* which a variable of s bytes is added.
LEMMA Sizes ==
  ASSUME NEW n \in Nat, NEW b \in Nat, NEW d \in Nat, NEW s \in Nat,
         b = ResultSize * n + d
  PROVE  /\ b + s + ResultSize = ResultSize * (n + 1) + (d + s)
         /\ (b + s + ResultSize) - ResultSize * (n + 1) - s = b - ResultSize * n
         /\ b - ResultSize * n \in Nat
         /\ d + s + ResultSize * (n + 1) <= b + s + ResultSize
         /\ \A x, y \in Nat :
              /\ x + y + ResultSize * n <= b => x + y <= d
              /\ x + y <= d => x + y + ResultSize * (n + 1) <= b + s + ResultSize
BY DEF ResultSize

\* add_variable keeps the invariant, for a new chunk and for one with room.
LEMMA AddKeepsInv ==
  ASSUME Inv, NEW v \in Variables, AddVariable(v)
  PROVE  Inv'
<1> DEFINE k  == K(v)
           o  == Old(v)
           nv == Append(o.vars, v)
<1>1. /\ chunks \in Seq(ChunkType) /\ Len(chunks) \in Nat
      /\ tail \in [Ports -> 0 .. Len(chunks)] /\ Port[v] \in Ports
      /\ reader \in [Variables -> [chunk : 0 .. Len(chunks), result : Nat, data : Nat]]
  BY LayoutAssumption DEF Inv, TypeOK
<1>2. /\ v \in todo /\ todo' = todo \ {v} /\ phase = "adding" /\ phase' = "adding"
      /\ UNCHANGED <<allocated, initialized>> /\ ~allocated /\ ~initialized
  BY DEF Inv, PhaseInv, AddVariable
<1>3. v \notin Placed /\ reader[v].chunk = 0
  BY <1>2 DEF Inv, PhaseInv, Placed
<1>4. \A j \in 1 .. Len(chunks) : \A i \in 1 .. Len(chunks[j].vars) : chunks[j].vars[i] # v
  BY <1>1, <1>3 DEF Inv, ReaderInv
<1>5. /\ o.vars \in Seq(Variables) /\ Len(o.vars) \in Nat /\ o.bytes \in Nat
      /\ o.data \in Nat /\ Size[v] \in Nat
  BY TargetFacts, LayoutAssumption DEF ChunkType
<1>6. /\ k \in Nat \ {0} /\ o.port = Port[v]
      /\ ~AtCapacity(o) /\ o.bytes = ResultSize * Len(o.vars) + o.data
      /\ \/ k = tail[Port[v]] /\ k \in 1 .. Len(chunks) /\ o = chunks[k]
         \/ /\ k = Len(chunks) + 1 /\ ~HasRoom(Port[v])
            /\ o.vars = <<>> /\ o.data = 0
  <2>1. NewChunk(Port[v]).vars = <<>> /\ NewChunk(Port[v]).data = 0
    BY DEF NewChunk
  <2> QED
    BY TargetFacts, <2>1
<1>7. /\ chunks' \in Seq(ChunkType) /\ k \in 1 .. Len(chunks') /\ Len(chunks') \in Nat
      /\ Len(chunks) <= Len(chunks')
      /\ \A j \in 1 .. Len(chunks') :
           j # k => j \in 1 .. Len(chunks) /\ chunks'[j] = chunks[j]
  BY AddFacts
<1>8. /\ chunks'[k].port = Port[v] /\ chunks'[k].vars = nv
      /\ chunks'[k].bytes = o.bytes + Size[v] + ResultSize
      /\ chunks'[k].data = o.data + Size[v]
      /\ Len(chunks'[k].request) = Len(o.vars) + 1
  BY AddFacts
<1>9. /\ tail' = [tail EXCEPT ![Port[v]] = k]
      /\ reader' = [reader EXCEPT ![v] =
           [chunk |-> k, result |-> Len(o.vars), data |-> o.data]]
  BY AddFacts
<1>13. /\ Len(nv) = Len(o.vars) + 1
       /\ nv[Len(o.vars) + 1] = v
       /\ \A i \in 1 .. Len(o.vars) : nv[i] = o.vars[i]
  BY <1>5
<1> HIDE DEF k, o, nv
<1>10. /\ reader'[v].chunk = k /\ reader'[v].result = Len(o.vars)
       /\ reader'[v].data = o.data
       /\ \A u \in Variables : u # v => reader'[u] = reader[u]
  BY <1>1, <1>9
<1>11. Placed' = Placed \cup {v}
  BY <1>6, <1>10 DEF Placed
<1>12. \A u \in Placed : /\ u # v /\ reader[u].chunk \in 1 .. Len(chunks)
                         /\ reader[u].result \in Nat /\ reader[u].data \in Nat
  BY <1>1, <1>3 DEF Placed
<1>22. /\ o.bytes + Size[v] + ResultSize
            = ResultSize * (Len(o.vars) + 1) + (o.data + Size[v])
       /\ (o.bytes + Size[v] + ResultSize) - ResultSize * (Len(o.vars) + 1) - Size[v]
            = o.bytes - ResultSize * Len(o.vars)
       /\ o.bytes - ResultSize * Len(o.vars) \in Nat
       /\ o.data + Size[v] + ResultSize * (Len(o.vars) + 1)
            <= o.bytes + Size[v] + ResultSize
       /\ \A x, y \in Nat :
            /\ x + y + ResultSize * Len(o.vars) <= o.bytes => x + y <= o.data
            /\ x + y <= o.data => x + y + ResultSize * (Len(o.vars) + 1)
                                    <= o.bytes + Size[v] + ResultSize
  <2>1. o.bytes = ResultSize * Len(o.vars) + o.data
    BY <1>6
  <2> QED
    BY <1>5, <2>1, Sizes
<1>14. TypeOK'
  <2>1. tail' \in [Ports -> 0 .. Len(chunks')]
    BY <1>1, <1>7, <1>9
  <2>2. reader' \in [Variables -> [chunk : 0 .. Len(chunks'), result : Nat, data : Nat]]
    <3>1. [chunk |-> k, result |-> Len(o.vars), data |-> o.data]
            \in [chunk : 0 .. Len(chunks'), result : Nat, data : Nat]
      BY <1>5, <1>7
    <3>2. \A u \in Variables :
            reader[u] \in [chunk : 0 .. Len(chunks'), result : Nat, data : Nat]
      BY <1>1, <1>7
    <3> QED
      BY <1>1, <1>9, <3>1, <3>2
  <2> QED
    BY <1>2, <1>7, <2>1, <2>2 DEF Inv, TypeOK
<1>15. PhaseInv'
  BY <1>2, <1>11 DEF Inv, PhaseInv
<1>16. ReaderInv'
  <2>1. ASSUME NEW p \in Ports, tail'[p] # 0 PROVE chunks'[tail'[p]].port = p
    <3>1. CASE p = Port[v]
      BY <1>1, <1>8, <1>9, <3>1
    <3>2. CASE p # Port[v]
      <4>1. tail'[p] = tail[p] /\ tail[p] \in 1 .. Len(chunks) /\ chunks[tail[p]].port = p
        <5>1. tail'[p] = tail[p]
          BY <1>1, <1>9, <3>2
        <5>2. chunks[tail[p]].port = p
          BY <2>1, <5>1 DEF Inv, ReaderInv
        <5>3. tail[p] \in 0 .. Len(chunks) /\ tail[p] # 0
          BY <1>1, <2>1, <5>1
        <5> QED
          BY <1>1, <5>1, <5>2, <5>3
      <4>2. tail[p] # k
        BY <1>1, <1>6, <3>2, <4>1
      <4> QED
        BY <1>1, <1>7, <4>1, <4>2
    <3> QED
      BY <3>1, <3>2
  <2>2. ASSUME NEW u \in Placed'
        PROVE  LET ch == chunks'[reader'[u].chunk]
               IN reader'[u].result < Len(ch.vars) /\ ch.vars[reader'[u].result + 1] = u
    <3>1. CASE u = v
      BY <1>5, <1>8, <1>10, <1>13, <3>1
    <3>2. CASE u # v
      <4>1. /\ u \in Placed /\ reader'[u] = reader[u]
            /\ reader[u].chunk \in 1 .. Len(chunks) /\ reader[u].result \in Nat
        BY <1>10, <1>11, <1>12, <3>2 DEF Placed
      <4>2. /\ reader[u].result < Len(chunks[reader[u].chunk].vars)
            /\ chunks[reader[u].chunk].vars[reader[u].result + 1] = u
        BY <4>1 DEF Inv, ReaderInv
      <4>3. CASE reader[u].chunk = k
        <5>1. o = chunks[k]
          BY <1>1, <1>6, <4>1, <4>3
        <5>2. reader[u].result + 1 \in 1 .. Len(o.vars)
          BY <1>5, <4>1, <4>2, <4>3, <5>1
        <5>3. nv[reader[u].result + 1] = u
          BY <1>13, <4>2, <4>3, <5>1, <5>2
        <5>4. reader[u].result < Len(nv)
          BY <1>5, <1>13, <4>1, <5>2
        <5> QED
          BY <1>8, <4>1, <4>3, <5>3, <5>4
      <4>4. CASE reader[u].chunk # k
        <5>1. chunks'[reader[u].chunk] = chunks[reader[u].chunk]
          <6>1. reader[u].chunk \in 1 .. Len(chunks')
            BY <1>1, <1>7, <4>1
          <6> QED
            BY <1>7, <4>4, <6>1
        <5> QED
          BY <4>1, <4>2, <5>1
      <4> QED
        BY <4>3, <4>4
    <3> QED
      BY <3>1, <3>2
  <2>3. ASSUME NEW j \in 1 .. Len(chunks'), NEW i \in 1 .. Len(chunks'[j].vars)
        PROVE  LET u == chunks'[j].vars[i]
               IN reader'[u].chunk = j /\ reader'[u].result = i - 1
    <3>1. CASE j = k
      <4>1. i \in 1 .. Len(o.vars) + 1
        BY <1>8, <1>13, <2>3, <3>1
      <4>2. CASE i = Len(o.vars) + 1
        <5>1. Len(o.vars) = i - 1
          BY <1>5, <4>2
        <5> QED
          BY <1>8, <1>10, <1>13, <3>1, <4>2, <5>1
      <4>3. CASE i \in 1 .. Len(o.vars)
        <5>1. o = chunks[k] /\ k \in 1 .. Len(chunks)
          BY <1>6, <4>3
        <5>3. i \in 1 .. Len(chunks[k].vars)
          BY <4>3, <5>1
        <5>4. /\ reader[chunks[k].vars[i]].chunk = k
              /\ reader[chunks[k].vars[i]].result = i - 1
          BY <5>1, <5>3 DEF Inv, ReaderInv
        <5>2. /\ o.vars[i] \in Variables /\ o.vars[i] # v
              /\ reader[o.vars[i]].chunk = k /\ reader[o.vars[i]].result = i - 1
          BY <1>4, <1>5, <4>3, <5>1, <5>3, <5>4
        <5> QED
          BY <1>8, <1>10, <1>13, <3>1, <4>3, <5>2
      <4> QED
        BY <1>5, <4>1, <4>2, <4>3
    <3>2. CASE j # k
      <4>1. j \in 1 .. Len(chunks) /\ chunks'[j] = chunks[j]
        BY <1>7, <3>2
      <4>2. i \in 1 .. Len(chunks[j].vars)
        BY <4>1
      <4>3. /\ chunks[j].vars[i] \in Variables /\ chunks[j].vars[i] # v
            /\ reader[chunks[j].vars[i]].chunk = j
            /\ reader[chunks[j].vars[i]].result = i - 1
        BY <1>1, <1>4, <4>1, <4>2, ChunkFields DEF Inv, ReaderInv
      <4> QED
        BY <1>10, <4>1, <4>3
    <3> QED
      BY <3>1, <3>2
  <2> QED
    BY <2>1, <2>2, <2>3 DEF ReaderInv
<1>17. PackedInv'
  <2> SUFFICES ASSUME NEW j \in 1 .. Len(chunks') PROVE Packed(j)'
    BY DEF PackedInv
  <2>1. CASE j = k
    <3>1. CASE Len(o.vars) = 0
      <4> DEFINE vs == nv
                 n  == Len(o.vars)
      <4>1. n = 0 /\ Len(vs) = n + 1 /\ vs[n + 1] = v
        BY <1>13, <3>1
      <4>2. o.data = 0
        <5>1. CASE o = chunks[k] /\ k \in 1 .. Len(chunks)
          BY <3>1, <5>1 DEF Inv, PackedInv, Packed
        <5> QED
          BY <1>6, <5>1
      <4>3. /\ chunks'[j].vars = vs /\ Len(chunks'[j].request) = n + 1
            /\ chunks'[j].data = o.data + Size[v]
        BY <1>8, <2>1
      <4>4. chunks'[j].bytes = ResultSize * (n + 1) + chunks'[j].data
        BY <1>8, <1>22, <2>1
      <4>5. reader'[v].data = o.data
        BY <1>10
      <4> HIDE DEF vs, n
      <4>6. reader'[vs[1]].data = 0 /\ \A i \in 1 .. (n + 1) - 1 : FALSE
        BY <4>1, <4>2, <4>5
      <4>7. chunks'[j].data = reader'[vs[n + 1]].data + Size[vs[n + 1]]
        BY <4>1, <4>3, <4>5
      <4>8. n + 1 > 0
        BY <4>1
      <4> QED
        BY <4>1, <4>3, <4>4, <4>6, <4>7, <4>8 DEF Packed
    <3>2. CASE Len(o.vars) > 0
      <4>1. o = chunks[k] /\ k \in 1 .. Len(chunks)
        BY <1>6, <3>2
      <4>2. Packed(k)
        BY <4>1 DEF Inv, PackedInv
      <4>3. \A i \in 1 .. Len(o.vars) :
              /\ o.vars[i] \in Variables
              /\ reader'[o.vars[i]] = reader[o.vars[i]]
              /\ nv[i] = o.vars[i]
        BY <1>4, <1>5, <1>10, <1>13, <4>1
      <4>4. \A i \in 1 .. Len(o.vars) - 1 :
              reader'[nv[i + 1]].data =
                reader'[nv[i]].data + Size[nv[i]]
        <5> TAKE i \in 1 .. Len(o.vars) - 1
        <5>1. i \in 1 .. Len(o.vars) /\ i + 1 \in 1 .. Len(o.vars)
          BY <1>5
        <5>2. reader[o.vars[i + 1]].data = reader[o.vars[i]].data + Size[o.vars[i]]
          BY <4>1, <4>2 DEF Packed
        <5> QED
          BY <4>3, <5>1, <5>2
      <4>5. /\ reader'[nv[1]].data = 0
            /\ o.data = reader'[nv[Len(o.vars)]].data
                          + Size[nv[Len(o.vars)]]
        <5>1. 1 \in 1 .. Len(o.vars) /\ Len(o.vars) \in 1 .. Len(o.vars)
          BY <1>5, <3>2
        <5>2. /\ reader[o.vars[1]].data = 0
              /\ o.data = reader[o.vars[Len(o.vars)]].data + Size[o.vars[Len(o.vars)]]
          BY <4>1, <4>2 DEF Packed
        <5> QED
          BY <4>3, <5>1, <5>2
      <4> DEFINE vs == nv
                 n  == Len(o.vars)
      <4>6. /\ Len(vs) = n + 1 /\ vs[n + 1] = v /\ n \in Nat /\ n > 0
            /\ reader'[vs[n + 1]].data = o.data
        BY <1>5, <1>10, <1>13, <3>2
      <4>7. /\ \A i \in 1 .. n - 1 : reader'[vs[i + 1]].data =
                                       reader'[vs[i]].data + Size[vs[i]]
            /\ reader'[vs[1]].data = 0
            /\ o.data = reader'[vs[n]].data + Size[vs[n]]
        BY <4>4, <4>5
      <4>8. chunks'[j].vars = vs /\ Len(chunks'[j].request) = n + 1
        BY <1>8, <2>1
      <4>9. /\ chunks'[j].bytes = ResultSize * (n + 1) + chunks'[j].data
            /\ chunks'[j].data = o.data + Size[v]
        BY <1>8, <1>22, <2>1
      <4> HIDE DEF vs, n
      <4>10. \A i \in 1 .. (n + 1) - 1 : reader'[vs[i + 1]].data =
                                           reader'[vs[i]].data + Size[vs[i]]
        <5> TAKE i \in 1 .. (n + 1) - 1
        <5>1. i \in 1 .. n - 1 \/ i = n
          BY <4>6
        <5> QED
          BY <4>6, <4>7, <5>1
      <4> QED
        BY <4>6, <4>7, <4>8, <4>9, <4>10 DEF Packed
    <3> QED
      BY <1>5, <3>1, <3>2
  <2>2. CASE j # k
    <3>1. j \in 1 .. Len(chunks) /\ chunks'[j] = chunks[j]
      BY <1>7, <2>2
    <3>2. Packed(j)
      BY <3>1 DEF Inv, PackedInv
    <3> DEFINE vs == chunks[j].vars
    <3>3. Len(vs) \in Nat /\ \A i \in 1 .. Len(vs) : reader'[vs[i]] = reader[vs[i]]
      BY <1>1, <1>4, <1>10, <3>1, ChunkFields
    <3>4. /\ Len(vs) > 0 /\ Len(chunks'[j].request) = Len(vs) /\ chunks'[j].vars = vs
          /\ chunks'[j].bytes = ResultSize * Len(vs) + chunks'[j].data
          /\ reader[vs[1]].data = 0
          /\ \A i \in 1 .. Len(vs) - 1 : reader[vs[i + 1]].data =
                                           reader[vs[i]].data + Size[vs[i]]
          /\ chunks'[j].data = reader[vs[Len(vs)]].data + Size[vs[Len(vs)]]
      BY <3>1, <3>2 DEF Packed
    <3> HIDE DEF vs
    <3>5. \A i \in 1 .. Len(vs) - 1 : reader'[vs[i + 1]].data =
                                        reader'[vs[i]].data + Size[vs[i]]
      BY <3>3, <3>4
    <3>6. reader'[vs[1]] = reader[vs[1]] /\ reader'[vs[Len(vs)]] = reader[vs[Len(vs)]]
      <4>1. 1 \in 1 .. Len(vs) /\ Len(vs) \in 1 .. Len(vs)
        BY <3>3, <3>4
      <4> QED
        BY <3>3, <4>1
    <3> QED
      BY <3>4, <3>5, <3>6 DEF Packed
  <2> QED
    BY <2>1, <2>2
<1>18. RequestInv'
  BY <1>2 DEF RequestInv
<1>19. RegionsDisjoint'
  <2>1. \A u \in Variables : Size[u] \in Nat
    BY LayoutAssumption
  \* Every region lies within the data of its chunk, before and after.
  <2>2. ASSUME NEW u \in Placed, reader[u].chunk = k
        PROVE  /\ o = chunks[k] /\ k \in 1 .. Len(chunks)
               /\ reader[u].data + Size[u] <= o.data
               /\ reader[u].result < Len(o.vars)
    <3>1. o = chunks[k] /\ k \in 1 .. Len(chunks)
      BY <1>1, <1>6, <1>12, <2>2
    <3>2. reader[u].data + Size[u] + ResultSize * Len(o.vars) <= o.bytes
      BY <2>2, <3>1 DEF Inv, RegionsDisjoint
    <3>3. reader[u].result < Len(o.vars)
      BY <2>2, <3>1 DEF Inv, ReaderInv
    <3>4. reader[u].data \in Nat /\ Size[u] \in Nat
      BY <1>12, <2>1 DEF Placed
    <3> QED
      BY <1>22, <3>1, <3>2, <3>3, <3>4
  <2>3. ASSUME NEW u \in Placed'
        PROVE  /\ reader'[u].chunk <= Len(chunks')
               /\ reader'[u].data + Size[u]
                    + ResultSize * Len(chunks'[reader'[u].chunk].vars)
                    <= chunks'[reader'[u].chunk].bytes
    <3>1. CASE u = v
      <4>1. Len(chunks'[k].vars) = Len(o.vars) + 1
        BY <1>8, <1>13
      <4> QED
        <5>1. o.data + Size[v] + ResultSize * (Len(o.vars) + 1)
                <= o.bytes + Size[v] + ResultSize
          BY <1>22
        <5>2. k <= Len(chunks')
          BY <1>7
        <5> QED
          BY <1>8, <1>10, <3>1, <4>1, <5>1, <5>2
    <3>2. CASE u # v
      <4>1. /\ u \in Placed /\ u \in Variables /\ reader'[u] = reader[u]
            /\ reader[u].chunk \in 1 .. Len(chunks) /\ reader[u].data \in Nat
        BY <1>10, <1>11, <1>12, <3>2 DEF Placed
      <4>2. CASE reader[u].chunk = k
        <5>1. Len(chunks'[k].vars) = Len(o.vars) + 1
          BY <1>8, <1>13
        <5>2. reader[u].data + Size[u] <= o.data /\ Size[u] \in Nat
          BY <2>1, <2>2, <4>1, <4>2
        <5> QED
          <6>1. reader[u].data + Size[u] + ResultSize * (Len(o.vars) + 1)
                  <= o.bytes + Size[v] + ResultSize
            BY <1>22, <4>1, <5>2
          <6> QED
            BY <1>7, <1>8, <4>1, <4>2, <5>1, <6>1
      <4>3. CASE reader[u].chunk # k
        <5>1. chunks'[reader[u].chunk] = chunks[reader[u].chunk]
          <6>1. reader[u].chunk \in 1 .. Len(chunks')
            BY <1>1, <1>7, <4>1
          <6> QED
            BY <1>7, <4>3, <6>1
        <5>2. reader[u].data + Size[u] + ResultSize * Len(chunks[reader[u].chunk].vars)
                <= chunks[reader[u].chunk].bytes
          BY <4>1 DEF Inv, RegionsDisjoint
        <5> QED
          BY <1>1, <1>7, <4>1, <5>1, <5>2
      <4> QED
        BY <4>2, <4>3
    <3> QED
      BY <3>1, <3>2
  <2>4. ASSUME NEW u \in Placed', NEW w \in Placed', u # w, reader'[u].chunk = reader'[w].chunk
        PROVE  /\ reader'[u].result # reader'[w].result
               /\ \/ reader'[u].data + Size[u] <= reader'[w].data
                  \/ reader'[w].data + Size[w] <= reader'[u].data
    <3>1. CASE u # v /\ w # v
      BY <1>10, <1>11, <2>4, <3>1 DEF Inv, RegionsDisjoint, Placed
    <3>2. CASE u = v
      <4>1. w \in Placed /\ reader'[w] = reader[w] /\ reader[w].chunk = k
        BY <1>10, <1>11, <2>4, <3>2 DEF Placed
      <4> QED
        BY <1>5, <1>10, <1>12, <2>2, <3>2, <4>1
    <3>3. CASE w = v
      <4>1. u \in Placed /\ reader'[u] = reader[u] /\ reader[u].chunk = k
        BY <1>10, <1>11, <2>4, <3>3 DEF Placed
      <4> QED
        BY <1>5, <1>10, <1>12, <2>2, <3>3, <4>1
    <3> QED
      BY <3>1, <3>2, <3>3
  <2> QED
    BY <2>3, <2>4 DEF RegionsDisjoint
<1>20. OnePortPerChunk'
  <2> SUFFICES ASSUME NEW u \in Placed' PROVE chunks'[reader'[u].chunk].port = Port[u]
    BY DEF OnePortPerChunk
  <2>1. CASE u = v
    BY <1>8, <1>10, <2>1
  <2>2. CASE u # v
    <3>1. /\ u \in Placed /\ reader'[u] = reader[u] /\ reader[u].chunk \in 1 .. Len(chunks)
          /\ chunks[reader[u].chunk].port = Port[u]
      BY <1>10, <1>11, <1>12, <2>2 DEF Placed, Inv, OnePortPerChunk
    <3>2. chunks'[reader[u].chunk].port = chunks[reader[u].chunk].port
      <4>1. CASE reader[u].chunk = k
        <5>1. o = chunks[k]
          BY <1>1, <1>6, <3>1, <4>1
        <5> QED
          BY <1>6, <1>8, <4>1, <5>1
      <4>2. CASE reader[u].chunk # k
        <5>1. reader[u].chunk \in 1 .. Len(chunks')
          BY <1>1, <1>7, <3>1
        <5> QED
          BY <1>7, <4>2, <5>1
      <4> QED
        BY <4>1, <4>2
    <3> QED
      BY <3>1, <3>2
  <2> QED
    BY <2>1, <2>2
<1>21. ChunksFilledInOrder'
  <2>2. MaxVars \in Nat /\ SoftLimit \in Nat
    BY LayoutAssumption
  <2>1. ASSUME NEW j \in 1 .. Len(chunks')
        PROVE  LET ch == chunks'[j]
                   n  == Len(ch.vars)
               IN /\ n \in 1 .. MaxVars
                  /\ ch.bytes - ResultSize * n - Size[ch.vars[n]] < SoftLimit
                  /\ j # tail'[ch.port] => AtCapacity(ch)
    <3>1. CASE j = k
      <4>1. tail'[chunks'[k].port] = k
        BY <1>1, <1>8, <1>9
      <4>2. Len(o.vars) < MaxVars /\ o.bytes - ResultSize * Len(o.vars) < SoftLimit
        <5>1. ~(o.bytes - ResultSize * Len(o.vars) >= SoftLimit) /\ ~(Len(o.vars) >= MaxVars)
          BY <1>6 DEF AtCapacity
        <5> QED
          BY <1>5, <1>22, <2>2, <5>1
      <4>3. /\ Len(chunks'[k].vars) = Len(o.vars) + 1
            /\ chunks'[k].vars[Len(o.vars) + 1] = v
        BY <1>8, <1>13
      <4>4. chunks'[k].bytes - ResultSize * (Len(o.vars) + 1) - Size[v] < SoftLimit
        BY <1>8, <1>22, <4>2
      <4>5. Len(o.vars) + 1 \in 1 .. MaxVars
        BY <1>5, <2>2, <4>2
      <4> QED
        BY <3>1, <4>1, <4>3, <4>4, <4>5
    <3>2. CASE j # k
      <4>1. j \in 1 .. Len(chunks) /\ chunks'[j] = chunks[j] /\ chunks[j].port \in Ports
        BY <1>1, <1>7, <3>2, ChunkFields
      <4>2. LET ch == chunks[j]
                n  == Len(ch.vars)
            IN /\ n \in 1 .. MaxVars
               /\ ch.bytes - ResultSize * n - Size[ch.vars[n]] < SoftLimit
               /\ j # tail[ch.port] => AtCapacity(ch)
        BY <4>1 DEF Inv, ChunksFilledInOrder
      <4>3. ASSUME j # tail'[chunks[j].port], j = tail[chunks[j].port]
            PROVE  AtCapacity(chunks[j])
        <5>1. chunks[j].port = Port[v]
          BY <1>1, <1>9, <4>1, <4>3
        <5>2. ~HasRoom(Port[v])
          BY <1>6, <3>2, <4>3, <5>1
        <5> QED
          BY <4>1, <4>3, <5>1, <5>2 DEF HasRoom
      <4> QED
        BY <4>1, <4>2, <4>3
    <3> QED
      BY <3>1, <3>2
  <2> QED
    BY <2>1 DEF ChunksFilledInOrder
<1> QED
  BY <1>14, <1>15, <1>16, <1>17, <1>18, <1>19, <1>20, <1>21 DEF Inv

-----------------------------------------------------------------------------
(* The steps that leave the layout alone.                                  *)

\* A function on 1 .. n is a sequence of length n.
LEMMA FunctionIsSeq ==
  ASSUME NEW S, NEW n \in Nat, NEW f \in [1 .. n -> S]
  PROVE  f \in Seq(S) /\ Len(f) = n
  OBVIOUS

\* Chunks that differ from the old ones in state and request only.
LEMMA SameShape ==
  ASSUME Inv, UNCHANGED <<tail, reader>>,
         chunks' \in [1 .. Len(chunks) -> ChunkType],
         \A k \in 1 .. Len(chunks) :
           /\ chunks'[k].port = chunks[k].port /\ chunks'[k].vars = chunks[k].vars
           /\ chunks'[k].bytes = chunks[k].bytes /\ chunks'[k].data = chunks[k].data
           /\ Len(chunks'[k].request) = Len(chunks[k].request)
  PROVE  /\ SameSkeleton /\ Placed' = Placed
         /\ chunks' \in Seq(ChunkType)
         /\ tail' \in [Ports -> 0 .. Len(chunks')]
         /\ reader' \in [Variables -> [chunk : 0 .. Len(chunks'), result : Nat, data : Nat]]
         /\ chunks = <<>> => chunks' = <<>>
<1>0. chunks \in Seq(ChunkType) /\ Len(chunks) \in Nat
      /\ tail \in [Ports -> 0 .. Len(chunks)]
      /\ reader \in [Variables -> [chunk : 0 .. Len(chunks), result : Nat, data : Nat]]
  BY DEF Inv, TypeOK
<1>1. chunks' \in Seq(ChunkType) /\ Len(chunks') = Len(chunks)
  BY <1>0, FunctionIsSeq
<1>2. SameSkeleton
  BY <1>1 DEF SameSkeleton
<1>3. Placed' = Placed
  BY DEF Placed
<1> QED
  BY <1>0, <1>1, <1>2, <1>3

\* What a chunk keeps when its request or its state changes.
LEMMA WithRequest ==
  ASSUME NEW c \in ChunkType, NEW r \in Seq(Nat), NEW d, d = [c EXCEPT !.request = r]
  PROVE  /\ d \in ChunkType /\ d.request = r
         /\ d.port = c.port /\ d.vars = c.vars /\ d.bytes = c.bytes /\ d.data = c.data
BY DEF ChunkType

\* The same for the state of the buffer.
LEMMA WithReady ==
  ASSUME NEW c \in ChunkType, NEW b \in BOOLEAN, NEW d, d = [c EXCEPT !.ready = b]
  PROVE  /\ d \in ChunkType /\ d.request = c.request
         /\ d.port = c.port /\ d.vars = c.vars /\ d.bytes = c.bytes /\ d.data = c.data
BY DEF ChunkType

\* initialize_buffer() of a chunk keeps the invariant.
LEMMA InitializeBufferKeepsInv ==
  ASSUME Inv, NEW k \in 1 .. Len(chunks), InitializeBuffer(k)
  PROVE  Inv'
<1>0. chunks \in Seq(ChunkType) /\ Len(chunks) \in Nat
  BY DEF Inv, TypeOK
<1>1. chunks' = [chunks EXCEPT ![k].ready = TRUE]
      /\ UNCHANGED <<phase, todo, tail, reader, allocated, initialized>> /\ phase = "buffers"
  BY DEF InitializeBuffer
<1> DEFINE d == [chunks[k] EXCEPT !.ready = TRUE]
<1>2. chunks' = [chunks EXCEPT ![k] = d]
  BY <1>1
<1>3. chunks[k] \in ChunkType
  BY <1>0
<1>4. /\ d \in ChunkType /\ d.request = chunks[k].request
      /\ d.port = chunks[k].port /\ d.vars = chunks[k].vars
      /\ d.bytes = chunks[k].bytes /\ d.data = chunks[k].data
  BY <1>3, WithReady
<1> HIDE DEF d
<1>5. chunks' \in [1 .. Len(chunks) -> ChunkType]
  BY <1>0, <1>2, <1>4
<1>6. \A j \in 1 .. Len(chunks) :
        /\ chunks'[j].port = chunks[j].port /\ chunks'[j].vars = chunks[j].vars
        /\ chunks'[j].bytes = chunks[j].bytes /\ chunks'[j].data = chunks[j].data
        /\ chunks'[j].request = chunks[j].request
  BY <1>0, <1>2, <1>4
<1>7. /\ SameSkeleton /\ Placed' = Placed /\ TypeOK'
  BY <1>1, <1>5, <1>6, SameShape DEF Inv, TypeOK
<1>8. PhaseInv' /\ RequestInv'
  BY <1>1, <1>7 DEF Inv, PhaseInv, RequestInv
<1> QED
  BY <1>7, <1>8, SkeletonKeepsLayout DEF Inv

\* initialize() keeps the invariant, complete or stopped at an unresolved variable.
LEMMA InitializeKeepsInv ==
  ASSUME Inv, NEW done \in SUBSET Variables, Initialize(done)
  PROVE  Inv'
<1> USE LayoutAssumption
<1>0. chunks \in Seq(ChunkType) /\ Len(chunks) \in Nat
  BY DEF Inv, TypeOK
<1>1. /\ chunks' = Filled(done) /\ UNCHANGED <<phase, todo, tail, reader, allocated>>
      /\ phase = "idle" /\ allocated /\ initialized' = (done = Variables)
  BY DEF Initialize
<1> DEFINE entries(k) == [i \in 1 .. Len(chunks[k].vars) |->
                            IF chunks[k].vars[i] \in done THEN Length(chunks[k].vars[i])
                                                          ELSE chunks[k].request[i]]
<1>2. \A k \in 1 .. Len(chunks) : chunks'[k] = [chunks[k] EXCEPT !.request = entries(k)]
  BY <1>1 DEF Filled
<1>3. \A k \in 1 .. Len(chunks) :
        entries(k) \in Seq(Nat) /\ Len(entries(k)) = Len(chunks[k].request)
  <2> TAKE k \in 1 .. Len(chunks)
  <2>1. Len(chunks[k].request) = Len(chunks[k].vars)
    BY DEF Inv, PackedInv, Packed
  <2>2. /\ chunks[k].vars \in Seq(Variables) /\ Len(chunks[k].vars) \in Nat
        /\ chunks[k].request \in Seq(Nat)
        /\ \A i \in 1 .. Len(chunks[k].vars) :
             chunks[k].vars[i] \in Variables /\ chunks[k].request[i] \in Nat
    <3>1. /\ chunks[k].vars \in Seq(Variables) /\ Len(chunks[k].vars) \in Nat
          /\ chunks[k].request \in Seq(Nat)
          /\ \A i \in 1 .. Len(chunks[k].vars) : chunks[k].vars[i] \in Variables
      BY <1>0, ChunkFields
    <3>2. \A i \in 1 .. Len(chunks[k].request) : chunks[k].request[i] \in Nat
      BY <3>1
    <3> QED
      BY <2>1, <3>1, <3>2
  <2>3. entries(k) \in [1 .. Len(chunks[k].vars) -> Nat]
    BY <2>2 DEF Length
  <2> QED
    BY <2>1, <2>2, <2>3, FunctionIsSeq
<1>4. \A k \in 1 .. Len(chunks) : \A i \in 1 .. Len(entries(k)) :
        done = Variables => entries(k)[i] = Size[chunks[k].vars[i]]
  <2> TAKE k \in 1 .. Len(chunks)
  <2>1. Len(chunks[k].request) = Len(chunks[k].vars)
    BY DEF Inv, PackedInv, Packed
  <2>2. \A i \in 1 .. Len(chunks[k].vars) : chunks[k].vars[i] \in Variables
    BY <1>0, ChunkFields
  <2> QED
    BY <1>3, <2>1, <2>2 DEF Length
<1> HIDE DEF entries
<1>5. \A j \in 1 .. Len(chunks) :
        /\ chunks'[j] \in ChunkType
        /\ chunks'[j].port = chunks[j].port /\ chunks'[j].vars = chunks[j].vars
        /\ chunks'[j].bytes = chunks[j].bytes /\ chunks'[j].data = chunks[j].data
        /\ chunks'[j].request = entries(j)
  <2> TAKE j \in 1 .. Len(chunks)
  <2>1. chunks[j] \in ChunkType /\ chunks'[j] = [chunks[j] EXCEPT !.request = entries(j)]
    <3>1. chunks[j] \in ChunkType
      BY <1>0
    <3> QED
      BY <1>2, <3>1
  <2> QED
    BY <1>3, <2>1, WithRequest
<1>6. chunks' \in [1 .. Len(chunks) -> ChunkType]
  BY <1>1, <1>5 DEF Filled
<1>7. /\ SameSkeleton /\ Placed' = Placed /\ (chunks = <<>> => chunks' = <<>>)
      /\ chunks' \in Seq(ChunkType) /\ tail' \in [Ports -> 0 .. Len(chunks')]
      /\ reader' \in [Variables -> [chunk : 0 .. Len(chunks'), result : Nat, data : Nat]]
  BY <1>1, <1>3, <1>5, <1>6, SameShape
<1>8. initialized' \in BOOLEAN
  BY <1>1
<1>9. TypeOK'
  BY <1>1, <1>7, <1>8 DEF Inv, TypeOK
<1>10. PhaseInv'
  BY <1>1, <1>7 DEF Inv, PhaseInv
<1>11. RequestInv'
  <2> SUFFICES ASSUME done = Variables, NEW k \in 1 .. Len(chunks'),
                      NEW i \in 1 .. Len(chunks'[k].request)
               PROVE  chunks'[k].request[i] = Size[chunks'[k].vars[i]]
    BY <1>1 DEF RequestInv
  <2>1. k \in 1 .. Len(chunks)
    BY <1>7 DEF SameSkeleton
  <2>2. chunks'[k].request = entries(k) /\ chunks'[k].vars = chunks[k].vars
    BY <1>5, <2>1
  <2> QED
    BY <1>4, <2>1, <2>2
<1> QED
  BY <1>7, <1>9, <1>10, <1>11, SkeletonKeepsLayout DEF Inv

\* deinitialize() keeps the invariant.
LEMMA DeinitializeKeepsInv == Inv /\ Deinitialize => Inv'
<1> SUFFICES ASSUME Inv, Deinitialize PROVE Inv'
  OBVIOUS
<1>0. chunks \in Seq(ChunkType) /\ Len(chunks) \in Nat
  BY DEF Inv, TypeOK
<1> DEFINE zeros(k) == [i \in 1 .. Len(chunks[k].request) |-> 0]
<1>1. /\ chunks' = [k \in 1 .. Len(chunks) |-> [chunks[k] EXCEPT !.request = zeros(k)]]
      /\ UNCHANGED <<phase, todo, tail, reader, allocated>>
      /\ phase = "idle" /\ allocated /\ initialized' = FALSE
  BY DEF Deinitialize
<1>2. \A k \in 1 .. Len(chunks) :
        zeros(k) \in Seq(Nat) /\ Len(zeros(k)) = Len(chunks[k].request)
  <2> TAKE k \in 1 .. Len(chunks)
  <2>1. Len(chunks[k].request) \in Nat
    BY <1>0, ChunkFields
  <2>2. zeros(k) \in [1 .. Len(chunks[k].request) -> Nat]
    OBVIOUS
  <2> QED
    BY <2>1, <2>2, FunctionIsSeq
<1> HIDE DEF zeros
<1>3. \A j \in 1 .. Len(chunks) :
        /\ chunks'[j] \in ChunkType
        /\ chunks'[j].port = chunks[j].port /\ chunks'[j].vars = chunks[j].vars
        /\ chunks'[j].bytes = chunks[j].bytes /\ chunks'[j].data = chunks[j].data
        /\ chunks'[j].request = zeros(j)
  <2> TAKE j \in 1 .. Len(chunks)
  <2>1. chunks[j] \in ChunkType /\ chunks'[j] = [chunks[j] EXCEPT !.request = zeros(j)]
    BY <1>0, <1>1
  <2> QED
    BY <1>2, <2>1, WithRequest
<1>4. chunks' \in [1 .. Len(chunks) -> ChunkType]
  BY <1>1, <1>3
<1>5. /\ SameSkeleton /\ Placed' = Placed /\ (chunks = <<>> => chunks' = <<>>)
      /\ chunks' \in Seq(ChunkType) /\ tail' \in [Ports -> 0 .. Len(chunks')]
      /\ reader' \in [Variables -> [chunk : 0 .. Len(chunks'), result : Nat, data : Nat]]
  BY <1>1, <1>2, <1>3, <1>4, SameShape
<1>6. TypeOK' /\ PhaseInv' /\ RequestInv'
  BY <1>1, <1>5 DEF Inv, TypeOK, PhaseInv, RequestInv
<1> QED
  BY <1>5, <1>6, SkeletonKeepsLayout DEF Inv

\* The steps that change no chunk and no position.
LEMMA PhaseStepKeepsInv ==
  Inv /\ (Allocate \/ VariablesAdded \/ AllocateEnd \/ UNCHANGED vars) => Inv'
<1> SUFFICES ASSUME Inv, Allocate \/ VariablesAdded \/ AllocateEnd \/ UNCHANGED vars
             PROVE  Inv'
  OBVIOUS
<1>0. chunks \in Seq(ChunkType) /\ Len(chunks) \in Nat
      /\ reader \in [Variables -> [chunk : 0 .. Len(chunks), result : Nat, data : Nat]]
  BY DEF Inv, TypeOK
<1>1. UNCHANGED <<chunks, tail, reader, initialized>>
  BY DEF Allocate, VariablesAdded, AllocateEnd, vars
<1>2. SameSkeleton /\ Placed' = Placed /\ RequestInv'
  BY <1>1 DEF SameSkeleton, Placed, RequestInv, Inv
<1>3. CASE Allocate
  <2>1. chunks = <<>> /\ phase = "idle" /\ ~allocated /\ ~initialized
    BY <1>3 DEF Allocate, Inv, PhaseInv
  <2>2. Placed = {}
    BY <1>0, <2>1 DEF Placed
  <2>3. TypeOK'
    BY <1>1, <1>3 DEF Allocate, Inv, TypeOK
  <2>4. PhaseInv'
    BY <1>1, <1>2, <1>3, <2>1, <2>2 DEF Allocate, PhaseInv
  <2> QED
    BY <1>2, <2>3, <2>4, SkeletonKeepsLayout DEF Inv
<1>4. CASE VariablesAdded
  <2>1. TypeOK' /\ PhaseInv'
    BY <1>1, <1>2, <1>4 DEF VariablesAdded, Inv, TypeOK, PhaseInv
  <2> QED
    BY <1>2, <2>1, SkeletonKeepsLayout DEF Inv
<1>5. CASE AllocateEnd
  <2>1. allocated' \in BOOLEAN
    BY <1>5 DEF AllocateEnd
  <2>2. TypeOK' /\ PhaseInv'
    BY <1>1, <1>2, <1>5, <2>1 DEF AllocateEnd, Inv, TypeOK, PhaseInv
  <2> QED
    BY <1>2, <2>2, SkeletonKeepsLayout DEF Inv
<1>6. CASE UNCHANGED vars
  <2>1. TypeOK' /\ PhaseInv'
    BY <1>2, <1>6 DEF vars, Inv, TypeOK, PhaseInv
  <2> QED
    BY <1>2, <2>1, SkeletonKeepsLayout DEF Inv
<1> QED
  BY <1>3, <1>4, <1>5, <1>6

-----------------------------------------------------------------------------
(* The theorems.                                                           *)

\* A new SumReadRequest satisfies the invariant.
LEMMA InitHasInv == Init => Inv
<1> SUFFICES ASSUME Init PROVE Inv
  OBVIOUS
<1> USE LayoutAssumption
<1>1. chunks = <<>> /\ Len(chunks) = 0 /\ \A v \in Variables : reader[v] = Empty
  BY DEF Init
<1>2. Placed = {}
  BY <1>1 DEF Placed, Empty
<1>3. reader \in [Variables -> [chunk : 0 .. Len(chunks), result : Nat, data : Nat]]
  BY <1>1 DEF Init, Empty
<1>4. allocated \in BOOLEAN /\ initialized \in BOOLEAN
  BY DEF Init
<1>5. TypeOK
  BY <1>1, <1>3, <1>4 DEF Init, TypeOK
<1>6. PhaseInv /\ ReaderInv
  BY <1>1, <1>2 DEF Init, PhaseInv, ReaderInv
<1>7. PackedInv /\ RequestInv /\ ChunksFilledInOrder
  BY <1>1 DEF PackedInv, RequestInv, ChunksFilledInOrder
<1> QED
  BY <1>2, <1>5, <1>6, <1>7 DEF Inv, RegionsDisjoint, OnePortPerChunk

\* Every operation keeps the invariant.
LEMMA NextKeepsInv == Inv /\ [Next]_vars => Inv'
<1> SUFFICES ASSUME Inv, [Next]_vars PROVE Inv'
  OBVIOUS
<1>1. ASSUME NEW v \in Variables, AddVariable(v) PROVE Inv'
  BY <1>1, AddKeepsInv
<1>2. ASSUME NEW v \in Variables, AddVariableFails(v) PROVE Inv'
  BY <1>2, FreeKeepsInv DEF AddVariableFails
<1>3. ASSUME NEW k \in 1 .. Len(chunks), InitializeBuffer(k) PROVE Inv'
  BY <1>3, InitializeBufferKeepsInv
<1>4. ASSUME NEW k \in 1 .. Len(chunks), InitializeBufferFails(k) PROVE Inv'
  BY <1>4, FreeKeepsInv DEF InitializeBufferFails
<1>5. ASSUME Deallocate PROVE Inv'
  BY <1>5, FreeKeepsInv DEF Deallocate
<1>6. ASSUME NEW done \in SUBSET Variables, Initialize(done) PROVE Inv'
  BY <1>6, InitializeKeepsInv
<1>7. ASSUME Deinitialize PROVE Inv'
  BY <1>7, DeinitializeKeepsInv
<1>8. ASSUME Allocate \/ VariablesAdded \/ AllocateEnd \/ UNCHANGED vars PROVE Inv'
  BY <1>8, PhaseStepKeepsInv
<1> QED
  BY <1>1, <1>2, <1>3, <1>4, <1>5, <1>6, <1>7, <1>8 DEF Next

\* However allocate, initialize and their inverses follow each other, chunks and
\* positions stay consistent: SumReadRequest::allocate(), initialize(),
\* deinitialize(), deallocate().
THEOREM Invariance == Spec => []Inv
<1>1. Init => Inv
  BY InitHasInv
<1>2. Inv /\ [Next]_vars => Inv'
  BY NextKeepsInv
<1> QED
  BY <1>1, <1>2, PTL DEF Spec

\* The types of the chunks and positions SumReadRequest keeps.
THEOREM TypeCorrect == Spec => []TypeOK
<1>1. Inv => TypeOK
  BY DEF Inv
<1> QED
  BY <1>1, Invariance, PTL

\* read_from_buffer of one variable never sees the bytes of another, nor any
\* beyond the buffer, for every number, size and order of the variables.
THEOREM RegionsAreDisjoint == Spec => []RegionsDisjoint
<1>1. Inv => RegionsDisjoint
  BY DEF Inv
<1> QED
  BY <1>1, Invariance, PTL

\* A chunk, which is sent to one ADS port, has only variables of that port.
THEOREM ChunksHaveOnePort == Spec => []OnePortPerChunk
<1>1. Inv => OnePortPerChunk
  BY DEF Inv
<1> QED
  BY <1>1, Invariance, PTL

\* add_variable opens a new chunk only when the last one of the port is full.
THEOREM ChunksAreFilledInOrder == Spec => []ChunksFilledInOrder
<1>1. Inv => ChunksFilledInOrder
  BY DEF Inv
<1> QED
  BY <1>1, Invariance, PTL

\* After deallocate(), also from an allocate() that failed half way, no variable
\* has a position in a buffer that is gone.
THEOREM NoReaderDangles == Spec => []NoDanglingReader
<1>1. Inv => NoDanglingReader
  <2> SUFFICES ASSUME Inv, NEW v \in Placed
               PROVE  /\ reader[v].chunk \in 1 .. Len(chunks)
                      /\ \E i \in 1 .. Len(chunks[reader[v].chunk].vars) :
                           chunks[reader[v].chunk].vars[i] = v
    BY DEF NoDanglingReader
  <2>1. /\ chunks \in Seq(ChunkType) /\ reader[v].chunk \in 1 .. Len(chunks)
        /\ reader[v].result \in Nat
    BY DEF Inv, TypeOK, Placed
  <2>2. Len(chunks[reader[v].chunk].vars) \in Nat
    BY <2>1, ChunkFields
  <2>3. /\ reader[v].result + 1 \in 1 .. Len(chunks[reader[v].chunk].vars)
        /\ chunks[reader[v].chunk].vars[reader[v].result + 1] = v
    BY <2>1, <2>2 DEF Inv, ReaderInv
  <2> QED
    BY <2>1, <2>3
<1> QED
  BY <1>1, Invariance, PTL

\* The size of a buffer, by results and data or summed from the left.
LEMMA SumOfSizes ==
  ASSUME NEW n \in Nat, NEW a \in Nat, NEW b \in Nat
  PROVE  ResultSize * n + (a + b) = ResultSize * n + a + b
BY DEF ResultSize

\* The offsets that add_variable computes are those at which the device, which
\* only knows the lengths in the request, puts results and data.
THEOREM LayoutIsTheDevices == Spec => []LayoutMatchesDevice
<1> USE LayoutAssumption
<1>1. Inv => LayoutMatchesDevice
  <2> SUFFICES ASSUME Inv, initialized PROVE LayoutMatchesDevice
    BY DEF LayoutMatchesDevice
  <2>0. /\ chunks \in Seq(ChunkType) /\ Len(chunks) \in Nat
        /\ reader \in [Variables -> [chunk : 0 .. Len(chunks), result : Nat, data : Nat]]
    BY DEF Inv, TypeOK
  <2>1. ASSUME NEW k \in 1 .. Len(chunks)
        PROVE  LET ch  == chunks[k]
                   n   == Len(ch.request)
                   off == [i \in 1 .. Len(ch.vars) |-> reader[ch.vars[i]].data]
               IN /\ n = Len(ch.vars) /\ n > 0
                  /\ DeviceLayout(ch, off)
                  /\ ch.bytes = ResultSize * n + off[n] + ch.request[n]
    <3> DEFINE ch  == chunks[k]
               vs  == ch.vars
               n   == Len(vs)
               off == [i \in 1 .. n |-> reader[vs[i]].data]
    <3>1. /\ n > 0 /\ Len(ch.request) = n
          /\ ch.bytes = ResultSize * n + ch.data
          /\ reader[vs[1]].data = 0
          /\ ch.data = reader[vs[n]].data + Size[vs[n]]
      BY DEF Inv, PackedInv, Packed
    <3>2. \A i \in 1 .. n - 1 : reader[vs[i + 1]].data = reader[vs[i]].data + Size[vs[i]]
      BY DEF Inv, PackedInv, Packed
    <3>3. n \in Nat /\ \A i \in 1 .. n : vs[i] \in Variables
      BY <2>0, ChunkFields
    <3>4. \A i \in 1 .. n : ch.request[i] = Size[vs[i]] /\ reader[vs[i]].data \in Nat
      BY <2>0, <3>1, <3>3 DEF Inv, RequestInv
    <3>5. \A i \in 1 .. n : off[i] = reader[vs[i]].data
      OBVIOUS
    <3> HIDE DEF vs, n, off
    <3>6. off[1] = 0 /\ ch.bytes = ResultSize * n + off[n] + ch.request[n]
      <4>1. 1 \in 1 .. n /\ n \in 1 .. n
        BY <3>1, <3>3
      <4>2. ch.data = off[n] + ch.request[n] /\ off[n] \in Nat /\ ch.request[n] \in Nat
        BY <3>1, <3>3, <3>4, <3>5, <4>1
      <4> QED
        <5>1. ResultSize * n + (off[n] + ch.request[n])
                = ResultSize * n + off[n] + ch.request[n]
          <6> DEFINE a == off[n]
                     b == ch.request[n]
          <6>1. a \in Nat /\ b \in Nat /\ n \in Nat
            BY <3>3, <4>2
          <6> HIDE DEF a, b
          <6>2. ResultSize * n + (a + b) = ResultSize * n + a + b
            BY <6>1, SumOfSizes
          <6> QED
            BY <6>2 DEF a, b
        <5> QED
          BY <3>1, <3>5, <4>1, <4>2, <5>1
    <3>7. \A i \in 1 .. n - 1 : off[i + 1] = off[i] + ch.request[i]
      BY <3>2, <3>3, <3>4, <3>5
    <3>8. DeviceLayout(ch, off)
      BY <3>1, <3>6, <3>7 DEF DeviceLayout
    <3> QED
      BY <3>1, <3>6, <3>8 DEF vs, n, off
  <2>2. ASSUME NEW v \in Variables
        PROVE  /\ reader[v].chunk \in 1 .. Len(chunks)
               /\ chunks[reader[v].chunk].vars[reader[v].result + 1] = v
    <3>1. phase = "idle" /\ allocated /\ todo = {}
      BY DEF Inv, PhaseInv, TypeOK
    <3>2. v \in Placed
      BY <3>1 DEF Inv, PhaseInv
    <3> QED
      BY <2>0, <3>2 DEF Inv, ReaderInv, Placed
  <2> QED
    BY <2>1, <2>2 DEF LayoutMatchesDevice
<1> QED
  BY <1>1, Invariance, PTL

=============================================================================
