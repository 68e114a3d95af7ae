-------------------------- MODULE FrameMemoryProofs --------------------------
(***************************************************************************)
(* The memory of the frames, for any number of readers, calculators,       *)
(* frames and chunks, and any size of the queue: no chunk is lost or has   *)
(* two owners, and no frame sees the bytes another one left.               *)
(*                                                                         *)
(* ChunksAccounted counts owners; the invariant says the same without      *)
(* numbers: owners of a chunk are alone (Exclusive), and a chunk that is   *)
(* not free has one (NotLost).                                             *)
(***************************************************************************)
EXTENDS FrameMemory, SizingProofs, FiniteSetTheorems

(* A frame with its chunk. *)
Full(f) == f.index \in Frames /\ f.memory \in Chunks /\ f.memoryPool = TRUE

(* What TypeOK says, without the count of handles. *)
StateOK ==
  /\ pc \in [Tasks -> {"fetch", "allocate", "fill", "push", "take", "done", "failed"}]
  /\ currentConfigIndex \in Nat /\ failures \in [Readers -> 0 .. Attempts]
  /\ frame \in [Tasks -> DataFrames] /\ queue \in Seq(DataFrames)
  /\ initialised \in BOOLEAN /\ over \in BOOLEAN
  /\ free \subseteq Chunks
  /\ bytes \in [Chunks -> [ChunkBytes -> {Zero, Garbage} \cup {ByteOf(i) : i \in Frames}]]

(* Tasks stay in their code, with the frame that belongs to the place. *)
PlacesOK ==
  /\ \A r \in Readers : pc[r] # "take"
  /\ \A t \in Calculators : pc[t] \in {"take", "done", "failed"}
  /\ \A t \in Tasks :
       /\ pc[t] \in {"fetch", "done", "failed"} => frame[t] = Empty
       /\ pc[t] = "allocate" => /\ frame[t].index \in Frames /\ frame[t].memory = None
                                /\ frame[t].memoryPool = TRUE
       /\ pc[t] \in {"fill", "push"} => Full(frame[t])
       /\ pc[t] = "take" => frame[t] = Empty \/ Full(frame[t])
  /\ \A i \in 1 .. Len(queue) : Full(queue[i])

Exclusive ==
  /\ \A t \in Tasks : frame[t].memory \notin free
  /\ \A i \in 1 .. Len(queue) : queue[i].memory \notin free
  /\ \A t, u \in Tasks : frame[t].memory = frame[u].memory /\ frame[t].memory # None => t = u
  /\ \A i, j \in 1 .. Len(queue) : queue[i].memory = queue[j].memory => i = j
  /\ \A t \in Tasks : \A i \in 1 .. Len(queue) : frame[t].memory # queue[i].memory

Owned(c) == \/ \E t \in Tasks : frame[t].memory = c
            \/ \E i \in 1 .. Len(queue) : queue[i].memory = c

NotLost == initialised => \A c \in Chunks : c \in free \/ Owned(c)

(* Nobody has a chunk before there is a pool. *)
NoneYet == ~initialised => free = {} /\ \A c \in Chunks : ~Owned(c)

(* What the bytes of a frame must be. *)
Intact(f) == \A b \in ChunkBytes :
               bytes[f.memory][b] = IF b \in BytesRead(f.index) THEN ByteOf(f.index) ELSE Zero

BytesOK ==
  /\ \A t \in Tasks : pc[t] \in {"push", "take"} /\ Full(frame[t]) => Intact(frame[t])
  /\ \A i \in 1 .. Len(queue) : Intact(queue[i])

IInv == StateOK /\ PlacesOK /\ Exclusive /\ NotLost /\ NoneYet /\ BytesOK

-----------------------------------------------------------------------------
LEMMA Constants ==
  /\ None \notin Chunks /\ None \notin Frames
  /\ \A r \in Readers : r \in Tasks /\ r \notin Calculators
  /\ \A t \in Calculators : t \in Tasks /\ t \notin Readers
  /\ \A t \in Tasks : t \in Readers \/ t \in Calculators
  /\ Empty \in DataFrames /\ Empty.memory = None /\ Empty.memoryPool = FALSE
  /\ Empty.index = None /\ ~Full(Empty)
  /\ Attempts \in Nat
BY MemoryAssumption DEF Tasks, Frames, DataFrames, Empty, Full

LEMMA FullFrames ==
  ASSUME NEW f, Full(f), f \in DataFrames
  PROVE  f.memory \in Chunks /\ f.memory # None /\ f # Empty /\ f.memoryPool /\ f.index # None
BY Constants DEF Full

(* The end of a frame gives its chunk back, if it has one. *)
LEMMA DestroyOne ==
  ASSUME NEW f, f = Empty \/ Full(f), Destroy({f})
  PROVE  free' = free \cup ({f.memory} \ {None})
<1>1. CASE f = Empty
  BY <1>1, Constants DEF Destroy
<1>2. CASE Full(f)
  BY <1>2, Constants DEF Destroy, Full
<1>. QED  BY <1>1, <1>2

-----------------------------------------------------------------------------
LEMMA InitIInv == Init => IInv
<1>. SUFFICES ASSUME Init PROVE IInv
  OBVIOUS
<1>0. /\ pc = [t \in Tasks |-> IF t \in Readers THEN "fetch" ELSE "take"]
      /\ frame = [t \in Tasks |-> Empty] /\ queue = <<>> /\ Len(queue) = 0
      /\ free = {} /\ initialised = FALSE
  BY DEF Init
<1>1. StateOK
  <2>1. bytes \in [Chunks -> [ChunkBytes -> {Zero, Garbage} \cup {ByteOf(i) : i \in Frames}]]
    BY DEF Init
  <2>2. queue \in Seq(DataFrames) /\ frame \in [Tasks -> DataFrames]
    BY <1>0, Constants
  <2>3. failures \in [Readers -> 0 .. Attempts]
    BY Constants DEF Init
  <2>. QED  BY <1>0, <2>1, <2>2, <2>3 DEF Init, StateOK
<1>2. PlacesOK
  BY <1>0, Constants DEF PlacesOK
<1>3. Exclusive
  BY <1>0, Constants DEF Exclusive
<1>4. NotLost /\ NoneYet
  BY <1>0, Constants DEF NotLost, NoneYet, Owned
<1>5. BytesOK
  BY <1>0, Constants DEF BytesOK
<1>. QED  BY <1>1, <1>2, <1>3, <1>4, <1>5 DEF IInv

-----------------------------------------------------------------------------
(* Steps of a task that leave queue, chunks and bytes alone, and do not    *)
(* change which chunk it has.                                              *)
LEMMA QuietStep ==
  ASSUME IInv, NEW t \in Tasks, NEW w, NEW f,
         pc' = [pc EXCEPT ![t] = w], frame' = [frame EXCEPT ![t] = f],
         f.memory = frame[t].memory,
         w \in {"push", "take"} => Intact(f),
         UNCHANGED <<queue, free, bytes>>, initialised' = initialised
  PROVE  Exclusive' /\ NotLost' /\ NoneYet' /\ BytesOK'
<1>1. /\ frame'[t] = f /\ pc'[t] = w
      /\ \A u \in Tasks : u # t => frame'[u] = frame[u] /\ pc'[u] = pc[u]
      /\ \A u \in Tasks : frame'[u].memory = frame[u].memory
  BY DEF IInv, StateOK
<1>2. Exclusive'
  BY <1>1 DEF IInv, Exclusive
<1>3. NotLost' /\ NoneYet'
  BY <1>1 DEF IInv, NotLost, NoneYet, Owned
<1>4. BytesOK'
  BY <1>1 DEF IInv, BytesOK, Intact
<1>. QED  BY <1>2, <1>3, <1>4

LEMMA FetchStep ==
  ASSUME IInv, NEW r \in Readers, FetchConfig(r) \/ NoMoreConfigs(r)
  PROVE  IInv'
<1>0. r \in Tasks /\ frame[r] = Empty /\ frame[r].memory = None
  BY Constants DEF FetchConfig, NoMoreConfigs, IInv, PlacesOK
<1>. USE DEF IInv
<1>1. CASE FetchConfig(r)
  <2>. DEFINE f == [index |-> currentConfigIndex, memory |-> None, memoryPool |-> TRUE]
  <2>1. /\ frame' = [frame EXCEPT ![r] = f] /\ pc' = [pc EXCEPT ![r] = "allocate"]
        /\ f \in DataFrames /\ f.index \in Frames /\ f.memory = None /\ f.memoryPool = TRUE
        /\ UNCHANGED <<failures, queue, initialised, free, bytes, over>>
        /\ currentConfigIndex' = currentConfigIndex + 1
    BY <1>1 DEF FetchConfig, Goto, DataFrames
  <2>. HIDE DEF f
  <2>2. StateOK'
    BY <1>0, <2>1 DEF StateOK
  <2>3. PlacesOK'
    <3>1. /\ frame'[r] = f /\ pc'[r] = "allocate"
          /\ \A u \in Tasks : u # r => frame'[u] = frame[u] /\ pc'[u] = pc[u]
      BY <1>0, <2>1 DEF StateOK
    <3>. QED  BY <1>0, <2>1, <3>1, Constants DEF PlacesOK
  <2>. QED  BY <1>0, <2>1, <2>2, <2>3, QuietStep
<1>2. CASE NoMoreConfigs(r)
  <2>1. /\ frame' = [frame EXCEPT ![r] = frame[r]] /\ pc' = [pc EXCEPT ![r] = "done"]
        /\ UNCHANGED <<frame, failures, queue, initialised, free, bytes, over>>
        /\ currentConfigIndex' = currentConfigIndex + 1
    BY <1>2 DEF NoMoreConfigs, Goto, StateOK
  <2>2. StateOK'
    BY <1>0, <2>1 DEF StateOK
  <2>3. PlacesOK'
    BY <1>0, <2>1 DEF StateOK, PlacesOK
  <2>. QED  BY <1>0, <2>1, <2>2, <2>3, QuietStep
<1>. QED  BY <1>1, <1>2

LEMMA InitialiseStep ==
  ASSUME IInv, NEW r \in Readers, InitialisePool(r)
  PROVE  IInv'
<1>. USE DEF IInv
<1>0. /\ ~initialised /\ initialised' = TRUE /\ free' = Chunks
      /\ UNCHANGED <<pc, currentConfigIndex, failures, frame, queue, bytes, over>>
  BY DEF InitialisePool
<1>1. StateOK' /\ PlacesOK' /\ BytesOK'
  BY <1>0 DEF StateOK, PlacesOK, BytesOK, Intact
<1>2. Exclusive'
  BY <1>0, Constants DEF Exclusive, NoneYet, Owned
<1>3. NotLost' /\ NoneYet'
  BY <1>0 DEF NotLost, NoneYet
<1>. QED  BY <1>1, <1>2, <1>3

LEMMA MallocStep ==
  ASSUME IInv, NEW r \in Readers, Malloc(r)
  PROVE  IInv'
<1>. USE DEF IInv
<1>1. PICK c \in free : free' = free \ {c} /\ frame' = [frame EXCEPT ![r].memory = c]
  BY DEF Malloc
<1>. DEFINE f == [frame[r] EXCEPT !.memory = c]
<1>2. /\ r \in Tasks /\ initialised /\ c \in Chunks /\ c # None
      /\ frame[r].index \in Frames /\ frame[r].memory = None /\ frame[r].memoryPool = TRUE
      /\ frame[r] \in DataFrames
  BY <1>1, Constants DEF Malloc, PlacesOK, StateOK
<1>3. /\ frame' = [frame EXCEPT ![r] = f] /\ pc' = [pc EXCEPT ![r] = "fill"]
      /\ f \in DataFrames /\ Full(f) /\ f.memory = c
      /\ UNCHANGED <<currentConfigIndex, queue, initialised, bytes, over>>
      /\ failures' = [failures EXCEPT ![r] = 0]
  BY <1>1, <1>2 DEF Malloc, Goto, DataFrames, Full
<1>. HIDE DEF f
<1>4. /\ frame'[r] = f /\ pc'[r] = "fill"
      /\ \A u \in Tasks : u # r => frame'[u] = frame[u] /\ pc'[u] = pc[u]
  BY <1>2, <1>3 DEF StateOK
<1>5. StateOK'
  <2>1. /\ frame' \in [Tasks -> DataFrames] /\ free' \subseteq Chunks
        /\ pc' \in [Tasks -> {"fetch", "allocate", "fill", "push", "take", "done", "failed"}]
    BY <1>1, <1>2, <1>3 DEF StateOK
  <2>2. failures' \in [Readers -> 0 .. Attempts]
    BY <1>3, Constants DEF StateOK
  <2>. QED  BY <1>3, <2>1, <2>2 DEF StateOK
<1>6. PlacesOK'
  <2>1. \A i \in 1 .. Len(queue') : Full(queue'[i])
    BY <1>3 DEF PlacesOK
  <2>. QED  BY <1>2, <1>3, <1>4, <2>1, Constants DEF PlacesOK
<1>7. Exclusive'
  BY <1>1, <1>2, <1>3, <1>4 DEF Exclusive
<1>8. NotLost' /\ NoneYet'
  <2>1. ASSUME NEW d \in Chunks, d # c, Owned(d) PROVE Owned(d)'
    BY <1>2, <1>3, <1>4, <2>1, Constants DEF Owned
  <2>2. Owned(c)'
    BY <1>2, <1>3, <1>4 DEF Owned
  <2>. QED  BY <1>1, <1>2, <1>3, <2>1, <2>2 DEF NotLost, NoneYet
<1>9. BytesOK'
  BY <1>3, <1>4 DEF BytesOK, Intact
<1>. QED  BY <1>5, <1>6, <1>7, <1>8, <1>9

LEMMA DeniedStep ==
  ASSUME IInv, NEW r \in Readers, MallocDenied(r)
  PROVE  IInv'
<1>. USE DEF IInv
<1>1. /\ failures' = [failures EXCEPT ![r] = @ + 1] /\ failures[r] < Attempts
      /\ UNCHANGED <<pc, currentConfigIndex, frame, queue, initialised, free, bytes, over>>
  BY DEF MallocDenied
<1>2. StateOK'
  BY <1>1, Constants DEF StateOK
<1>3. PlacesOK' /\ Exclusive'
  BY <1>1 DEF PlacesOK, Exclusive
<1>4. NotLost' /\ NoneYet' /\ BytesOK'
  BY <1>1 DEF NotLost, NoneYet, Owned, BytesOK, Intact
<1>. QED  BY <1>2, <1>3, <1>4

(* No other frame lies in the chunk that is filled. *)
LEMMA FillStep ==
  ASSUME IInv, NEW r \in Readers, Fill(r)
  PROVE  IInv'
<1>. USE DEF IInv
<1>0. /\ r \in Tasks /\ Full(frame[r]) /\ pc' = [pc EXCEPT ![r] = "push"]
      /\ UNCHANGED <<currentConfigIndex, failures, frame, queue, initialised, free, over>>
  BY Constants DEF Fill, PlacesOK, Goto
<1>. DEFINE c == frame[r].memory
            filled == [b \in ChunkBytes |-> IF b \in BytesRead(frame[r].index)
                                           THEN ByteOf(frame[r].index) ELSE Zero]
<1>1. bytes' = [bytes EXCEPT ![c] = filled] /\ c \in Chunks
  <2>1. \A b \in ChunkBytes : ZeroFill(bytes[c])[b] = Zero
    BY DEF ZeroFill
  <2>. QED  BY <1>0, <2>1 DEF Fill, Full
<1>2. /\ bytes'[c] = filled
      /\ \A d \in Chunks : d # c => bytes'[d] = bytes[d]
  BY <1>1 DEF StateOK
<1>3. filled \in [ChunkBytes -> {Zero, Garbage} \cup {ByteOf(i) : i \in Frames}]
  BY <1>0 DEF Full
<1>4. \A b \in ChunkBytes : filled[b] = IF b \in BytesRead(frame[r].index)
                                       THEN ByteOf(frame[r].index) ELSE Zero
  OBVIOUS
<1>. HIDE DEF filled
<1>5. StateOK'
  BY <1>0, <1>1, <1>3 DEF StateOK
<1>6. PlacesOK'
  <2>1. pc'[r] = "push" /\ \A u \in Tasks : u # r => pc'[u] = pc[u]
    BY <1>0 DEF StateOK
  <2>2. \A i \in 1 .. Len(queue') : Full(queue'[i])
    BY <1>0 DEF PlacesOK
  <2>. QED  BY <1>0, <2>1, <2>2, Constants DEF PlacesOK
<1>7. Exclusive' /\ NotLost' /\ NoneYet'
  BY <1>0 DEF Exclusive, NotLost, NoneYet, Owned
<1>8. BytesOK'
  <2>1. ASSUME NEW t \in Tasks, pc'[t] \in {"push", "take"}, Full(frame[t])
        PROVE  Intact(frame[t])'
    <3>1. CASE t = r
      BY <1>0, <1>2, <1>4, <3>1 DEF Intact
    <3>2. CASE t # r
      <4>1. frame[t].memory # c /\ frame[t].memory \in Chunks
        BY <1>0, <1>1, <2>1, <3>2, Constants DEF Exclusive, Full
      <4>2. pc[t] \in {"push", "take"}
        BY <1>0, <2>1, <3>2 DEF StateOK
      <4>. QED  BY <1>0, <1>2, <2>1, <4>1, <4>2 DEF BytesOK, Intact
    <3>. QED  BY <3>1, <3>2
  <2>2. ASSUME NEW i \in 1 .. Len(queue) PROVE Intact(queue[i])'
    <3>1. queue[i].memory # c /\ queue[i].memory \in Chunks
      BY <1>0 DEF Exclusive, PlacesOK, Full
    <3>. QED  BY <1>0, <1>2, <3>1 DEF BytesOK, Intact
  <2>. QED  BY <1>0, <2>1, <2>2 DEF BytesOK, Full
<1>. QED  BY <1>5, <1>6, <1>7, <1>8

(* A task lets its frame go. *)
LEMMA ReleaseStep ==
  ASSUME IInv, NEW t \in Tasks,
         frame[t] = Empty \/ frame[t].memory = None \/ Full(frame[t]),
         free' = free \cup ({frame[t].memory} \ {None}),
         pc'[t] \in {"done", "failed"}, frame'[t] = Empty,
         \A u \in Tasks : u # t => frame'[u] = frame[u] /\ pc'[u] = pc[u],
         frame' \in [Tasks -> DataFrames],
         pc' \in [Tasks -> {"fetch", "allocate", "fill", "push", "take", "done", "failed"}],
         failures' \in [Readers -> 0 .. Attempts],
         UNCHANGED <<currentConfigIndex, queue, initialised, bytes, over>>
  PROVE  IInv'
<1>. USE DEF IInv
<1>1. /\ Empty.memory = None
      /\ frame[t].memory \in Chunks \cup {None}
  BY Constants DEF StateOK, DataFrames
<1>2. StateOK'
  BY <1>1, Constants DEF StateOK
<1>3. PlacesOK'
  BY <1>1, Constants DEF PlacesOK, Full
<1>4. Exclusive'
  <2>1. \A u \in Tasks : frame'[u].memory \notin free'
    <3>. SUFFICES ASSUME NEW u \in Tasks PROVE frame'[u].memory \notin free'
      OBVIOUS
    <3>1. CASE u = t
      BY <1>1, <3>1, Constants DEF StateOK
    <3>2. CASE u # t
      BY <1>1, <3>2 DEF Exclusive
    <3>. QED  BY <3>1, <3>2
  <2>2. \A i \in 1 .. Len(queue') : queue'[i].memory \notin free'
    BY <1>1 DEF Exclusive
  <2>3. \A u, v \in Tasks :
          frame'[u].memory = frame'[v].memory /\ frame'[u].memory # None => u = v
    BY <1>1 DEF Exclusive
  <2>4. \A u \in Tasks : \A i \in 1 .. Len(queue') : frame'[u].memory # queue'[i].memory
    BY <1>1, Constants DEF Exclusive, PlacesOK, Full
  <2>. QED  BY <2>1, <2>2, <2>3, <2>4 DEF Exclusive
<1>5. NotLost' /\ NoneYet'
  BY <1>1, Constants DEF NotLost, NoneYet, Owned
<1>6. BytesOK'
  BY <1>1 DEF BytesOK, Intact
<1>. QED  BY <1>2, <1>3, <1>4, <1>5, <1>6

LEMMA ReaderFailsStep ==
  ASSUME IInv, NEW r \in Readers, ReaderFails(r)
  PROVE  IInv'
<1>1. /\ r \in Tasks /\ (frame[r].memory = None \/ Full(frame[r]))
      /\ free' = free \cup ({frame[r].memory} \ {None})
      /\ pc' = [pc EXCEPT ![r] = "failed"] /\ frame' = [frame EXCEPT ![r] = Empty]
      /\ failures' \in [Readers -> 0 .. Attempts]
      /\ UNCHANGED <<currentConfigIndex, queue, initialised, bytes, over>>
  BY Constants DEF ReaderFails, IInv, PlacesOK, StateOK, Goto
<1>2. /\ pc'[r] = "failed" /\ frame'[r] = Empty
      /\ \A u \in Tasks : u # r => frame'[u] = frame[u] /\ pc'[u] = pc[u]
      /\ frame' \in [Tasks -> DataFrames]
      /\ pc' \in [Tasks -> {"fetch", "allocate", "fill", "push", "take", "done", "failed"}]
  BY <1>1, Constants DEF IInv, StateOK
<1>. QED  BY <1>1, <1>2, ReleaseStep

LEMMA CalculatorEndsStep ==
  ASSUME IInv, NEW t \in Calculators, CalculatorEnds(t)
  PROVE  IInv'
<1>1. /\ t \in Tasks /\ (frame[t] = Empty \/ Full(frame[t]))
      /\ Destroy({frame[t]})
      /\ \E w \in {"done", "failed"} : pc' = [pc EXCEPT ![t] = w]
      /\ frame' = [frame EXCEPT ![t] = Empty]
      /\ failures' \in [Readers -> 0 .. Attempts]
      /\ UNCHANGED <<currentConfigIndex, queue, initialised, bytes, over>>
  BY Constants DEF CalculatorEnds, IInv, PlacesOK, StateOK, Goto
<1>2. free' = free \cup ({frame[t].memory} \ {None})
  BY <1>1, DestroyOne
<1>3. /\ pc'[t] \in {"done", "failed"} /\ frame'[t] = Empty
      /\ \A u \in Tasks : u # t => frame'[u] = frame[u] /\ pc'[u] = pc[u]
      /\ frame' \in [Tasks -> DataFrames]
      /\ pc' \in [Tasks -> {"fetch", "allocate", "fill", "push", "take", "done", "failed"}]
  BY <1>1, Constants DEF IInv, StateOK
<1>. QED  BY <1>1, <1>2, <1>3, ReleaseStep

LEMMA PushStep ==
  ASSUME IInv, NEW r \in Readers, PushFrame(r)
  PROVE  IInv'
<1>. USE DEF IInv
<1>0. /\ r \in Tasks /\ pc[r] = "push" /\ Full(frame[r]) /\ frame[r] \in DataFrames
      /\ queue' = Append(queue, frame[r]) /\ queue \in Seq(DataFrames)
      /\ frame' = [frame EXCEPT ![r] = Empty] /\ pc' = [pc EXCEPT ![r] = "fetch"]
      /\ UNCHANGED <<currentConfigIndex, failures, initialised, free, bytes, over>>
  BY Constants DEF PushFrame, PlacesOK, StateOK, Goto
<1>1. /\ Len(queue') = Len(queue) + 1 /\ Len(queue) \in Nat /\ queue' \in Seq(DataFrames)
      /\ \A i \in 1 .. Len(queue) : queue'[i] = queue[i]
      /\ queue'[Len(queue) + 1] = frame[r]
  BY <1>0
<1>2. /\ frame'[r] = Empty /\ pc'[r] = "fetch" /\ Empty.memory = None
      /\ \A u \in Tasks : u # r => frame'[u] = frame[u] /\ pc'[u] = pc[u]
      /\ frame[r].memory \in Chunks /\ frame[r].memory # None
  BY <1>0, Constants DEF StateOK, Full
<1>3. \A i \in 1 .. Len(queue') : i \in 1 .. Len(queue) \/ i = Len(queue) + 1
  BY <1>1
<1>4. StateOK'
  BY <1>0, <1>1, Constants DEF StateOK
<1>5. PlacesOK'
  BY <1>0, <1>1, <1>2, <1>3 DEF PlacesOK, Full
<1>6. Exclusive'
  <2>1. /\ \A t \in Tasks : frame'[t].memory \notin free'
        /\ \A t, u \in Tasks :
             frame'[t].memory = frame'[u].memory /\ frame'[t].memory # None => t = u
    BY <1>0, <1>2, Constants DEF Exclusive, StateOK
  <2>2. \A i \in 1 .. Len(queue') : queue'[i].memory \notin free'
    BY <1>0, <1>1, <1>3 DEF Exclusive
  <2>3. \A i, j \in 1 .. Len(queue') : queue'[i].memory = queue'[j].memory => i = j
    BY <1>0, <1>1, <1>3 DEF Exclusive
  <2>4. \A t \in Tasks : \A i \in 1 .. Len(queue') : frame'[t].memory # queue'[i].memory
    BY <1>0, <1>1, <1>2, <1>3, Constants DEF Exclusive, PlacesOK, Full
  <2>. QED  BY <2>1, <2>2, <2>3, <2>4 DEF Exclusive
<1>7. \A c \in Chunks : Owned(c)' <=> Owned(c)
  <2>1. ASSUME NEW c \in Chunks, Owned(c) PROVE Owned(c)'
    <3>1. CASE \E t \in Tasks : frame[t].memory = c
      BY <1>0, <1>1, <1>2, <3>1 DEF Owned
    <3>2. CASE \E i \in 1 .. Len(queue) : queue[i].memory = c
      BY <1>1, <3>2 DEF Owned
    <3>. QED  BY <2>1, <3>1, <3>2 DEF Owned
  <2>2. ASSUME NEW c \in Chunks, Owned(c)' PROVE Owned(c)
    BY <1>0, <1>1, <1>2, <1>3, <2>2, Constants DEF Owned
  <2>. QED  BY <2>1, <2>2
<1>8. NotLost' /\ NoneYet'
  BY <1>0, <1>7 DEF NotLost, NoneYet
<1>9. BytesOK'
  BY <1>0, <1>1, <1>2, <1>3 DEF BytesOK, Intact
<1>. QED  BY <1>4, <1>5, <1>6, <1>8, <1>9

(* The frame popped takes the place of the one before it, whose chunk     *)
(* becomes free.                                                          *)
LEMMA PopStep ==
  ASSUME IInv, NEW t \in Calculators, PopFrame(t)
  PROVE  IInv'
<1>. USE DEF IInv
<1>0. /\ t \in Tasks /\ pc[t] = "take" /\ queue # <<>> /\ queue \in Seq(DataFrames)
      /\ frame' = [frame EXCEPT ![t] = Head(queue)] /\ queue' = Tail(queue)
      /\ frame[t] = Empty \/ Full(frame[t])
      /\ UNCHANGED <<pc, currentConfigIndex, failures, initialised, bytes, over>>
  BY Constants DEF PopFrame, PlacesOK, StateOK
<1>1. free' = free \cup ({frame[t].memory} \ {None})
  BY <1>0, DestroyOne DEF PopFrame
<1>2. /\ Len(queue') = Len(queue) - 1 /\ Len(queue) \in Nat \ {0} /\ 1 \in 1 .. Len(queue)
      /\ queue' \in Seq(DataFrames) /\ Head(queue) = queue[1]
      /\ Head(queue) \in DataFrames
      /\ \A i \in 1 .. Len(queue') : queue'[i] = queue[i + 1]
  BY <1>0
<1>3. \A i \in 1 .. Len(queue') : i + 1 \in 1 .. Len(queue) /\ i + 1 # 1
  BY <1>2
<1>4. /\ frame'[t] = queue[1] /\ Full(queue[1])
      /\ \A u \in Tasks : u # t => frame'[u] = frame[u]
      /\ frame[t].memory \in Chunks \cup {None}
  BY <1>0, <1>2 DEF StateOK, PlacesOK, DataFrames
<1>5. StateOK'
  BY <1>0, <1>1, <1>2, <1>4 DEF StateOK
<1>6. PlacesOK'
  BY <1>0, <1>2, <1>3, <1>4 DEF PlacesOK, Full
<1>7. Exclusive'
  <2>0. /\ \A u \in Tasks : frame[u].memory # queue[1].memory
        /\ queue[1].memory \notin free
        /\ \A i \in 1 .. Len(queue') : queue'[i].memory # queue[1].memory
    BY <1>2, <1>3 DEF Exclusive
  <2>1. \A u \in Tasks : frame'[u].memory \notin free'
    <3>. SUFFICES ASSUME NEW u \in Tasks PROVE frame'[u].memory \notin free'
      OBVIOUS
    <3>1. CASE u = t
      BY <1>0, <1>1, <1>4, <2>0, <3>1
    <3>2. CASE u # t
      BY <1>0, <1>1, <1>4, <3>2 DEF Exclusive
    <3>. QED  BY <3>1, <3>2
  <2>2. \A i \in 1 .. Len(queue') : queue'[i].memory \notin free'
    BY <1>0, <1>1, <1>2, <1>3 DEF Exclusive
  <2>3. \A u, v \in Tasks :
          frame'[u].memory = frame'[v].memory /\ frame'[u].memory # None => u = v
    BY <1>0, <1>4, <2>0 DEF Exclusive
  <2>4. \A i, j \in 1 .. Len(queue') : queue'[i].memory = queue'[j].memory => i = j
    <3>. SUFFICES ASSUME NEW i \in 1 .. Len(queue'), NEW j \in 1 .. Len(queue'),
                         queue'[i].memory = queue'[j].memory
                  PROVE  i = j
      OBVIOUS
    <3>1. i + 1 = j + 1
      BY <1>2, <1>3 DEF Exclusive
    <3>. QED  BY <3>1
  <2>5. \A u \in Tasks : \A i \in 1 .. Len(queue') : frame'[u].memory # queue'[i].memory
    BY <1>2, <1>3, <1>4, <2>0 DEF Exclusive
  <2>. QED  BY <2>1, <2>2, <2>3, <2>4, <2>5 DEF Exclusive
<1>8. NotLost' /\ NoneYet'
  <2>1. ASSUME NEW c \in Chunks, Owned(c) PROVE c \in free' \/ Owned(c)'
    <3>1. CASE \E u \in Tasks : frame[u].memory = c
      BY <1>0, <1>1, <1>4, <3>1, Constants DEF Owned
    <3>2. CASE \E i \in 1 .. Len(queue) : queue[i].memory = c
      <4>1. PICK i \in 1 .. Len(queue) : queue[i].memory = c
        BY <3>2
      <4>2. CASE i = 1
        BY <1>0, <1>4, <4>1, <4>2 DEF Owned
      <4>3. CASE i # 1
        <5>1. i - 1 \in 1 .. Len(queue') /\ queue'[i - 1] = queue[i]
          BY <1>2, <4>3
        <5>. QED  BY <4>1, <5>1 DEF Owned
      <4>. QED  BY <4>2, <4>3
    <3>. QED  BY <2>1, <3>1, <3>2 DEF Owned
  <2>2. initialised
    BY <1>2, <1>4 DEF NoneYet, Owned, Full
  <2>. QED  BY <1>0, <1>1, <2>1, <2>2 DEF NotLost, NoneYet
<1>9. BytesOK'
  BY <1>0, <1>2, <1>3, <1>4 DEF BytesOK, Intact
<1>. QED  BY <1>5, <1>6, <1>7, <1>8, <1>9

LEMMA DestroyQueueStep ==
  ASSUME IInv, DestroyQueue
  PROVE  IInv'
<1>. USE DEF IInv
<1>0. /\ queue' = <<>> /\ Len(queue') = 0 /\ over' = TRUE
      /\ UNCHANGED <<pc, currentConfigIndex, failures, frame, initialised, bytes>>
  BY DEF DestroyQueue
<1>1. free' = free \cup {queue[i].memory : i \in 1 .. Len(queue)}
  <2>1. /\ \A f \in InQueue : f.memoryPool /\ f.memory # None
        /\ InQueue = {queue[i] : i \in 1 .. Len(queue)}
    BY Constants DEF InQueue, StateOK, PlacesOK, Full
  <2>2. free' = free \cup ({f.memory : f \in {g \in InQueue : g.memoryPool}} \ {None})
    BY DEF DestroyQueue, Destroy
  <2>. QED  BY <2>1, <2>2
<1>2. StateOK'
  BY <1>0, <1>1 DEF StateOK, PlacesOK, Full
<1>3. PlacesOK' /\ BytesOK'
  BY <1>0 DEF PlacesOK, BytesOK, Intact
<1>4. Exclusive'
  BY <1>0, <1>1 DEF Exclusive
<1>5. NotLost' /\ NoneYet'
  BY <1>0, <1>1 DEF NotLost, NoneYet, Owned, PlacesOK, Full
<1>. QED  BY <1>2, <1>3, <1>4, <1>5

-----------------------------------------------------------------------------
LEMMA NextIInv == IInv /\ [Next]_vars => IInv'
<1>. SUFFICES ASSUME IInv, [Next]_vars PROVE IInv'
  OBVIOUS
<1>1. CASE UNCHANGED vars
  BY <1>1 DEF vars, IInv, StateOK, PlacesOK, Exclusive, NotLost, NoneYet, Owned, BytesOK, Intact
<1>2. ASSUME NEW r \in Readers, Reader(r) PROVE IInv'
  BY <1>2, FetchStep, InitialiseStep, MallocStep, DeniedStep, FillStep, ReaderFailsStep,
     PushStep DEF Reader
<1>3. ASSUME NEW t \in Calculators, PopFrame(t) \/ CalculatorEnds(t) PROVE IInv'
  BY <1>3, PopStep, CalculatorEndsStep
<1>4. CASE DestroyQueue
  BY <1>4, DestroyQueueStep
<1>. QED  BY <1>1, <1>2, <1>3, <1>4 DEF Next

LEMMA InvariantHolds == Spec => []IInv
<1>. QED  BY InitIInv, NextIInv, PTL DEF Spec

-----------------------------------------------------------------------------
(* A set without two elements has at most one. *)
LEMMA AtMostOne ==
  ASSUME NEW S, \A x, y \in S : x = y
  PROVE  Cardinality(S) = IF S = {} THEN 0 ELSE 1
<1>1. CASE S = {}
  BY <1>1, FS_EmptySet
<1>2. CASE S # {}
  <2>1. PICK x : S = {x}
    BY <1>2
  <2>. QED  BY <1>2, <2>1, FS_Singleton
<1>. QED  BY <1>1, <1>2

LEMMA OwnersCounted == IInv => ChunksAccounted
<1>. SUFFICES ASSUME IInv, initialised, NEW c \in Chunks
              PROVE  Owners(c) = IF c \in free THEN 0 ELSE 1
  BY DEF ChunksAccounted
<1>. DEFINE Hands == {t \in Tasks : frame[t].memory = c}
            Places == {i \in DOMAIN queue : queue[i].memory = c}
<1>0. DOMAIN queue = 1 .. Len(queue) /\ c # None
  BY Constants DEF IInv, StateOK
<1>1. /\ Cardinality(Hands) = IF Hands = {} THEN 0 ELSE 1
      /\ Cardinality(Places) = IF Places = {} THEN 0 ELSE 1
  <2>1. (\A t, u \in Hands : t = u) /\ (\A i, j \in Places : i = j)
    BY <1>0 DEF IInv, Exclusive
  <2>. HIDE DEF Hands, Places
  <2>. QED  BY <2>1, AtMostOne
<1>2. /\ Hands = {} \/ Places = {}
      /\ c \in free => Hands = {} /\ Places = {}
      /\ c \notin free => Hands # {} \/ Places # {}
  BY <1>0 DEF IInv, Exclusive, NotLost, Owned
<1>3. Owners(c) = Cardinality(Hands) + Cardinality(Places)
  BY DEF Owners
<1>. HIDE DEF Hands, Places
<1>. QED  BY <1>1, <1>2, <1>3

(* Once the pool exists each chunk is free or belongs to exactly one      *)
(* frame, whatever moves, swaps and failures there are, for any number of *)
(* readers, calculators and chunks.                                       *)
THEOREM ChunksAreAccounted == Spec => []ChunksAccounted
<1>. QED  BY InvariantHolds, OwnersCounted, PTL

LEMMA IntactFromInvariant == IInv => FramesIntact
<1>. SUFFICES ASSUME IInv,
                     NEW f \in InQueue \cup {frame[t] : t \in {u \in Tasks : pc[u] \in {"push", "take"}}},
                     f.index # None
              PROVE  Intact(f)
  BY DEF FramesIntact, Intact
<1>1. CASE f \in InQueue
  <2>1. PICK i \in 1 .. Len(queue) : f = queue[i]
    BY <1>1 DEF InQueue, IInv, StateOK
  <2>. QED  BY <2>1 DEF IInv, BytesOK
<1>2. CASE f \in {frame[t] : t \in {u \in Tasks : pc[u] \in {"push", "take"}}}
  <2>1. PICK t \in Tasks : f = frame[t] /\ pc[t] \in {"push", "take"}
    BY <1>2
  <2>2. Full(frame[t])
    BY <2>1, Constants DEF IInv, PlacesOK
  <2>. QED  BY <2>1, <2>2 DEF IInv, BytesOK
<1>. QED  BY <1>1, <1>2

(* A frame keeps exactly the bytes that were read, with zeroes behind the *)
(* end of the file, for any sizes and any reuse of the chunks.            *)
THEOREM FramesStayIntact == Spec => []FramesIntact
<1>. QED  BY InvariantHolds, IntactFromInvariant, PTL

-----------------------------------------------------------------------------
(* Who has a handle to the pool: frames in hands, those in the queue, and  *)
(* the configurations not taken, as long as a reader shares them.          *)

Pooled == {t \in Tasks : frame[t].memoryPool}
Rest(n) == {i \in Frames : i >= n}
Left == IF \A r \in Readers : Ended(r) THEN 0 ELSE Cardinality(Rest(currentConfigIndex))

HandlesOK == /\ useCount = Cardinality(Pooled) + Len(queue) + Left
             /\ useCount <= Cardinality(Frames)

OverOK == over => queue = <<>> /\ \A t \in Tasks : Ended(t)

HInv == IInv /\ HandlesOK /\ OverOK

LEMMA FrameNumbers ==
  /\ IsFiniteSet(Frames) /\ Cardinality(Frames) \in Nat /\ Frames \subseteq Nat
  /\ \A n \in Nat \ Frames : Rest(n) = {} /\ Rest(n + 1) = {}
<1>. DEFINE m == dataFramesInFile(FileSize, BlockSize, OptimalDataFrameSize)
<1>1. m \in Nat
  <2>1. CASE FileSize = 0
    BY <2>1 DEF dataFramesInFile
  <2>2. CASE FileSize # 0
    <3>1. PICK n, k : Cut(FileSize, BlockSize, OptimalDataFrameSize, n, k, m)
      BY <2>2, MemoryAssumption DEF Cut
    <3>. QED  BY <2>2, <3>1, CutTypes, MemoryAssumption
  <2>. QED  BY <2>1, <2>2
<1>2. Frames = 0 .. m - 1
  BY DEF Frames
<1>. HIDE DEF m
<1>3. IsFiniteSet(Frames) /\ Cardinality(Frames) \in Nat
  BY <1>1, <1>2, FS_Interval, FS_CardinalityType
<1>4. \A n \in Nat \ Frames : Rest(n) = {} /\ Rest(n + 1) = {}
  BY <1>1, <1>2 DEF Rest
<1>. QED  BY <1>1, <1>2, <1>3, <1>4

LEMMA RestCounts ==
  /\ \A n \in Nat : IsFiniteSet(Rest(n)) /\ Cardinality(Rest(n)) \in Nat
  /\ \A n \in Frames : Cardinality(Rest(n)) = Cardinality(Rest(n + 1)) + 1
<1>1. \A n \in Nat : IsFiniteSet(Rest(n)) /\ Cardinality(Rest(n)) \in Nat
  BY FrameNumbers, FS_Subset, FS_CardinalityType DEF Rest
<1>2. ASSUME NEW n \in Frames
      PROVE  Cardinality(Rest(n)) = Cardinality(Rest(n + 1)) + 1
  <2>0. n \in Nat /\ \A i \in Frames : (i >= n <=> i >= n + 1 \/ i = n)
    BY FrameNumbers
  <2>1. n + 1 \in Nat /\ ~(n >= n + 1)
    BY <2>0
  <2>2. n \notin Rest(n + 1)
    BY <2>1 DEF Rest
  <2>3. ASSUME NEW i PROVE i \in Rest(n) <=> i \in Rest(n + 1) \cup {n}
    BY <2>0 DEF Rest
  <2>4. Rest(n) = Rest(n + 1) \cup {n}
    <3>. HIDE DEF Rest
    <3>. QED  BY <2>3
  <2>. QED  BY <1>1, <2>1, <2>2, <2>4, FS_AddElement
<1>. QED  BY <1>1, <1>2

LEMMA PooledCounts ==
  ASSUME NEW S \in SUBSET Tasks
  PROVE  /\ IsFiniteSet(S) /\ Cardinality(S) \in Nat
         /\ \A t \in Tasks : t \notin S => Cardinality(S \cup {t}) = Cardinality(S) + 1
         /\ \A t \in Tasks : t \in S => Cardinality(S \ {t}) = Cardinality(S) - 1
<1>1. IsFiniteSet(S) /\ Cardinality(S) \in Nat
  BY MemoryAssumption, FS_Subset, FS_CardinalityType DEF Tasks
<1>. QED  BY <1>1, FS_AddElement, FS_RemoveElement

(* Steps that touch no handle. *)
LEMMA SameHandles ==
  ASSUME HInv, UNCHANGED <<queue, useCount>>,
         \A t \in Tasks : frame'[t].memoryPool = frame[t].memoryPool,
         \A r \in Readers : Ended(r)' <=> Ended(r),
         currentConfigIndex' = currentConfigIndex
  PROVE  HandlesOK'
<1>1. Pooled' = Pooled
  BY DEF Pooled
<1>2. Left' = Left
  BY DEF Left, Rest
<1>. QED  BY <1>1, <1>2 DEF HInv, HandlesOK

(* The handle of one task comes or goes. *)
LEMMA PooledChange ==
  ASSUME IInv, NEW t \in Tasks,
         \A u \in Tasks : u # t => frame'[u] = frame[u]
  PROVE  /\ Cardinality(Pooled) \in Nat
         /\ Cardinality(Pooled') = Cardinality(Pooled)
                                    + (IF frame'[t].memoryPool THEN 1 ELSE 0)
                                    - (IF frame[t].memoryPool THEN 1 ELSE 0)
<1>. DEFINE S == {u \in Tasks \ {t} : frame[u].memoryPool}
<1>1. /\ Pooled = IF frame[t].memoryPool THEN S \cup {t} ELSE S
      /\ Pooled' = IF frame'[t].memoryPool THEN S \cup {t} ELSE S
      /\ S \in SUBSET Tasks /\ t \notin S
  BY DEF Pooled
<1>. HIDE DEF S
<1>2. /\ Cardinality(S) \in Nat /\ Cardinality(S \cup {t}) = Cardinality(S) + 1
  BY <1>1, PooledCounts
<1>3. CASE frame[t].memoryPool
  BY <1>1, <1>2, <1>3
<1>4. CASE ~frame[t].memoryPool
  BY <1>1, <1>2, <1>4
<1>. QED  BY <1>3, <1>4

LEMMA LeftType == IInv => Left \in Nat /\ Cardinality(Pooled) \in Nat /\ Len(queue) \in Nat
<1>1. Pooled \in SUBSET Tasks
  BY DEF Pooled
<1>. QED  BY <1>1, RestCounts, PooledCounts DEF IInv, StateOK, Left

LEMMA FetchHandles ==
  ASSUME HInv, NEW r \in Readers, FetchConfig(r) \/ NoMoreConfigs(r)
  PROVE  HandlesOK'
<1>. USE DEF HInv
<1>0. r \in Tasks /\ frame[r] = Empty /\ ~frame[r].memoryPool /\ ~Ended(r) /\ currentConfigIndex \in Nat
  BY Constants DEF FetchConfig, NoMoreConfigs, IInv, PlacesOK, StateOK, Ended
<1>1. CASE FetchConfig(r)
  <2>1. /\ frame'[r].memoryPool /\ ~Ended(r)'
        /\ \A u \in Tasks : u # r => frame'[u] = frame[u]
        /\ UNCHANGED <<queue, useCount>> /\ currentConfigIndex \in Frames
        /\ currentConfigIndex' = currentConfigIndex + 1
    BY <1>0, <1>1 DEF FetchConfig, Goto, IInv, StateOK, Ended
  <2>2. Left = Cardinality(Rest(currentConfigIndex)) /\ Left' = Cardinality(Rest(currentConfigIndex + 1))
    BY <1>0, <2>1 DEF Left, Rest
  <2>3. Left = Left' + 1 /\ Left' \in Nat
    BY <1>0, <2>1, <2>2, RestCounts
  <2>4. Cardinality(Pooled') = Cardinality(Pooled) + 1 /\ Cardinality(Pooled) \in Nat
    BY <1>0, <2>1, PooledChange
  <2>. QED  BY <2>1, <2>3, <2>4, LeftType DEF HandlesOK
<1>2. CASE NoMoreConfigs(r)
  <2>1. /\ UNCHANGED <<frame, queue, useCount>> /\ currentConfigIndex \notin Frames
        /\ currentConfigIndex' = currentConfigIndex + 1
    BY <1>2 DEF NoMoreConfigs
  <2>2. Rest(currentConfigIndex) = {} /\ Rest(currentConfigIndex + 1) = {}
    BY <1>0, <2>1, FrameNumbers
  <2>3. Left = 0 /\ Left' = 0
    BY <2>1, <2>2, FS_EmptySet DEF Left, Rest
  <2>4. Pooled' = Pooled
    BY <2>1 DEF Pooled
  <2>. QED  BY <2>1, <2>3, <2>4 DEF HandlesOK
<1>. QED  BY <1>1, <1>2

LEMMA ReaderFailsHandles ==
  ASSUME HInv, NEW r \in Readers, ReaderFails(r)
  PROVE  HandlesOK'
<1>. USE DEF HInv
<1>0. /\ r \in Tasks /\ frame[r].memoryPool /\ ~Ended(r) /\ UNCHANGED <<currentConfigIndex, queue>>
      /\ useCount' = useCount - 1 - Unconsumed(r)
      /\ pc' = [pc EXCEPT ![r] = "failed"] /\ frame' = [frame EXCEPT ![r] = Empty]
  BY Constants DEF ReaderFails, IInv, PlacesOK, Full, Ended, Goto
<1>1. /\ ~frame'[r].memoryPool /\ Ended(r)'
      /\ \A u \in Tasks : u # r => frame'[u] = frame[u] /\ (Ended(u)' <=> Ended(u))
  BY <1>0, Constants DEF IInv, StateOK, Ended
<1>2. /\ Cardinality(Pooled') = Cardinality(Pooled) - 1
      /\ Cardinality(Pooled) \in Nat
  BY <1>0, <1>1, PooledChange
<1>3. Left = Left' + Unconsumed(r) /\ Left' \in Nat /\ Unconsumed(r) \in Nat
  <2>1. /\ Left = Cardinality(Rest(currentConfigIndex))
        /\ Rest(currentConfigIndex)' = Rest(currentConfigIndex)
        /\ Cardinality(Rest(currentConfigIndex)) \in Nat
    BY <1>0, RestCounts DEF Left, Rest, IInv, StateOK
  <2>2. CASE \A other \in Readers \ {r} : Ended(other)
    <3>1. Left' = 0
      BY <1>1, <2>2, Constants DEF Left
    <3>. QED  BY <2>1, <2>2, <3>1 DEF Unconsumed, Rest
  <2>3. CASE ~ \A other \in Readers \ {r} : Ended(other)
    <3>1. Left' = Cardinality(Rest(currentConfigIndex))
      BY <1>1, <2>1, <2>3, Constants DEF Left
    <3>. QED  BY <2>1, <2>3, <3>1 DEF Unconsumed
  <2>. QED  BY <2>2, <2>3
<1>4. /\ useCount = Cardinality(Pooled) + Len(queue) + Left
      /\ useCount <= Cardinality(Frames) /\ Len(queue) \in Nat
  BY LeftType DEF HandlesOK
<1>5. useCount' = Cardinality(Pooled') + Len(queue) + Left' /\ useCount' <= Cardinality(Frames)
  <2>. DEFINE size == Cardinality(Frames)
              pooled == Cardinality(Pooled)
              length == Len(queue)
              dropped == Unconsumed(r)
  <2>1. /\ useCount' = useCount - 1 - dropped /\ Cardinality(Pooled') = pooled - 1
        /\ useCount = pooled + length + Left /\ useCount <= size /\ Left = Left' + dropped
        /\ {pooled, length, dropped, Left', size} \subseteq Nat
    BY <1>0, <1>2, <1>3, <1>4, FrameNumbers
  <2>. HIDE DEF size, pooled, length, dropped
  <2>2. useCount' = (pooled - 1) + length + Left' /\ useCount' <= size
    BY <2>1
  <2>. QED  BY <2>1, <2>2 DEF size, length
<1>. QED  BY <1>0, <1>5 DEF HandlesOK

LEMMA PushHandles ==
  ASSUME HInv, NEW r \in Readers, PushFrame(r)
  PROVE  HandlesOK'
<1>. USE DEF HInv
<1>0. /\ r \in Tasks /\ frame[r].memoryPool /\ ~Ended(r) /\ UNCHANGED <<currentConfigIndex, useCount>>
      /\ queue' = Append(queue, frame[r])
      /\ pc' = [pc EXCEPT ![r] = "fetch"] /\ frame' = [frame EXCEPT ![r] = Empty]
  BY Constants DEF PushFrame, IInv, PlacesOK, Full, Ended, Goto
<1>1. /\ ~frame'[r].memoryPool /\ ~Ended(r)'
      /\ \A u \in Tasks : u # r => frame'[u] = frame[u]
      /\ Len(queue') = Len(queue) + 1
  BY <1>0, Constants DEF IInv, StateOK, Ended
<1>2. Left' = Left
  BY <1>0, <1>1 DEF Left, Rest
<1>3. Cardinality(Pooled') = Cardinality(Pooled) - 1 /\ Cardinality(Pooled) \in Nat
  BY <1>0, <1>1, PooledChange
<1>. QED  BY <1>0, <1>1, <1>2, <1>3, LeftType DEF HandlesOK

(* How many handles go with one frame. *)
LEMMA DestroyCounts ==
  ASSUME NEW f, Destroy({f})
  PROVE  useCount' = useCount - (IF f.memoryPool THEN 1 ELSE 0)
<1>1. CASE f.memoryPool
  <2>1. {g \in {f} : g.memoryPool} = {f}
    BY <1>1
  <2>. QED  BY <1>1, <2>1, FS_Singleton DEF Destroy
<1>2. CASE ~f.memoryPool
  <2>1. {g \in {f} : g.memoryPool} = {}
    BY <1>2
  <2>. QED  BY <1>2, <2>1, FS_EmptySet DEF Destroy
<1>. QED  BY <1>1, <1>2

LEMMA CalculatorHandles ==
  ASSUME HInv, NEW t \in Calculators, PopFrame(t) \/ CalculatorEnds(t)
  PROVE  HandlesOK'
<1>. USE DEF HInv
<1>0. /\ t \in Tasks /\ t \notin Readers /\ currentConfigIndex' = currentConfigIndex
      /\ \A r \in Readers : r # t
      /\ useCount' = useCount - (IF frame[t].memoryPool THEN 1 ELSE 0)
  BY Constants, DestroyCounts DEF PopFrame, CalculatorEnds
<1>1. CASE PopFrame(t)
  <2>1. /\ frame'[t] = Head(queue) /\ \A u \in Tasks : u # t => frame'[u] = frame[u]
        /\ queue # <<>> /\ queue' = Tail(queue) /\ pc' = pc
    BY <1>0, <1>1 DEF PopFrame, IInv, StateOK
  <2>2. /\ Len(queue) \in Nat /\ Len(queue') = Len(queue) - 1
        /\ Head(queue) = queue[1] /\ 1 \in 1 .. Len(queue)
    BY <2>1 DEF IInv, StateOK
  <2>3. frame'[t].memoryPool
    BY <2>1, <2>2 DEF IInv, PlacesOK, Full
  <2>4. Left' = Left
    BY <1>0, <2>1 DEF Left, Rest, Ended
  <2>5. /\ Cardinality(Pooled) \in Nat
        /\ Cardinality(Pooled') = Cardinality(Pooled) + 1 - (IF frame[t].memoryPool THEN 1 ELSE 0)
    BY <1>0, <2>1, <2>3, PooledChange
  <2>. QED  BY <1>0, <2>2, <2>4, <2>5, LeftType, FrameNumbers DEF HandlesOK
<1>2. CASE CalculatorEnds(t)
  <2>1. /\ frame'[t] = Empty /\ \A u \in Tasks : u # t => frame'[u] = frame[u] /\ pc'[u] = pc[u]
        /\ queue' = queue
    BY <1>0, <1>2 DEF CalculatorEnds, Goto, IInv, StateOK
  <2>2. Left' = Left
    BY <1>0, <2>1, Constants DEF Left, Rest, Ended
  <2>3. /\ Cardinality(Pooled) \in Nat
        /\ Cardinality(Pooled') = Cardinality(Pooled) - (IF frame[t].memoryPool THEN 1 ELSE 0)
    BY <1>0, <2>1, PooledChange, Constants
  <2>. QED  BY <1>0, <2>1, <2>2, <2>3, LeftType, FrameNumbers DEF HandlesOK
<1>. QED  BY <1>1, <1>2

(* The frames of the queue are as many as its places. *)
LEMMA QueueCounts ==
  ASSUME IInv
  PROVE  Cardinality(InQueue) = Len(queue) /\ \A f \in InQueue : f.memoryPool
<1>. DEFINE n == Len(queue)
            at == [i \in 1 .. n |-> queue[i]]
<1>1. n \in Nat /\ InQueue = {queue[i] : i \in 1 .. n}
  BY DEF IInv, StateOK, InQueue
<1>2. \A i, j \in 1 .. n : queue[i] = queue[j] => i = j
  BY DEF IInv, Exclusive
<1>3. at \in Bijection(1 .. n, InQueue)
  BY <1>1, <1>2 DEF Bijection, Injection, Surjection, IsInjective
<1>. HIDE DEF n, at
<1>4. IsFiniteSet(1 .. n) /\ Cardinality(1 .. n) = n
  <2>1. Cardinality(1 .. n) = IF 1 > n THEN 0 ELSE n - 1 + 1
    BY <1>1, FS_Interval
  <2>. QED  BY <1>1, <2>1, FS_Interval
<1>5. Cardinality(InQueue) = n
  BY <1>3, <1>4, FS_Bijection DEF ExistsBijection
<1>6. \A f \in InQueue : f.memoryPool
  BY <1>1 DEF n, IInv, PlacesOK, Full
<1>. QED  BY <1>5, <1>6 DEF n

LEMMA DestroyQueueHandles ==
  ASSUME HInv, DestroyQueue
  PROVE  HandlesOK'
<1>. USE DEF HInv
<1>1. /\ queue' = <<>> /\ Len(queue') = 0 /\ UNCHANGED <<pc, frame, currentConfigIndex>>
      /\ \A t \in Tasks : Ended(t)
      /\ useCount' = useCount - Cardinality({f \in InQueue : f.memoryPool})
  BY DEF DestroyQueue, Destroy
<1>2. {f \in InQueue : f.memoryPool} = InQueue /\ Cardinality(InQueue) = Len(queue)
  BY QueueCounts
<1>3. Left = 0 /\ Left' = 0
  BY <1>1, Constants DEF Left, Ended
<1>4. Pooled = {} /\ Pooled' = {}
  BY <1>1, Constants DEF Pooled, Ended, IInv, PlacesOK
<1>5. Cardinality(Pooled) = 0 /\ Cardinality(Pooled)' = 0
  BY <1>4, FS_EmptySet
<1>6. useCount = Len(queue) /\ Len(queue) \in Nat
  BY <1>3, <1>5, LeftType DEF HandlesOK
<1>7. useCount' = useCount - Len(queue)
  BY <1>1, <1>2
<1>8. useCount' = 0
  BY <1>6, <1>7
<1>. QED  BY <1>1, <1>3, <1>5, <1>8, FrameNumbers DEF HandlesOK

LEMMA ReaderHandles ==
  ASSUME HInv, NEW r \in Readers, Reader(r)
  PROVE  HandlesOK'
<1>0. r \in Tasks
  BY Constants
<1>1. CASE InitialisePool(r) \/ MallocDenied(r)
  BY <1>1, SameHandles DEF InitialisePool, MallocDenied, Ended
<1>2. CASE Malloc(r) \/ Fill(r)
  <2>1. \A t \in Tasks : frame'[t].memoryPool = frame[t].memoryPool
    <3>1. CASE Fill(r)
      BY <3>1 DEF Fill
    <3>2. CASE Malloc(r)
      <4>1. PICK c \in free : frame' = [frame EXCEPT ![r].memory = c]
        BY <3>2 DEF Malloc
      <4>2. frame[r] \in DataFrames /\ frame \in [Tasks -> DataFrames]
        BY <1>0 DEF HInv, IInv, StateOK
      <4>3. [frame[r] EXCEPT !.memory = c].memoryPool = frame[r].memoryPool
        BY <4>2 DEF DataFrames
      <4>. QED  BY <1>0, <4>1, <4>2, <4>3
    <3>. QED  BY <1>2, <3>1, <3>2
  <2>2. \A t \in Tasks : Ended(t)' <=> Ended(t)
    BY <1>0, <1>2 DEF Malloc, Fill, Goto, Ended, HInv, IInv, StateOK
  <2>. QED  BY <1>2, <2>1, <2>2, Constants, SameHandles DEF Malloc, Fill
<1>. QED  BY <1>1, <1>2, FetchHandles, ReaderFailsHandles, PushHandles DEF Reader

LEMMA NextHInv == HInv /\ [Next]_vars => HInv'
<1>. SUFFICES ASSUME HInv, [Next]_vars PROVE HInv'
  OBVIOUS
<1>1. IInv'
  BY NextIInv DEF HInv
<1>2. HandlesOK'
  <2>1. CASE UNCHANGED vars
    BY <2>1, SameHandles DEF vars, Ended
  <2>. QED  BY <2>1, ReaderHandles, CalculatorHandles, DestroyQueueHandles DEF Next
<1>3. OverOK'
  <2>1. ASSUME NEW r \in Readers, Reader(r) PROVE OverOK'
    <3>1. ~Ended(r) /\ over' = over /\ r \in Tasks
      BY <2>1, Constants DEF Reader, FetchConfig, NoMoreConfigs, InitialisePool, Malloc,
         MallocDenied, Fill, ReaderFails, PushFrame, Ended
    <3>. QED  BY <3>1 DEF HInv, OverOK
  <2>2. ASSUME NEW t \in Calculators, PopFrame(t) \/ CalculatorEnds(t) PROVE OverOK'
    <3>1. ~Ended(t) /\ over' = over /\ t \in Tasks
      BY <2>2, Constants DEF PopFrame, CalculatorEnds, Ended
    <3>. QED  BY <3>1 DEF HInv, OverOK
  <2>3. CASE DestroyQueue
    BY <2>3 DEF DestroyQueue, OverOK, Ended
  <2>4. CASE UNCHANGED vars
    BY <2>4 DEF vars, HInv, OverOK, Ended
  <2>. QED  BY <2>1, <2>2, <2>3, <2>4 DEF Next
<1>. QED  BY <1>1, <1>2, <1>3 DEF HInv

LEMMA InitHInv == Init => HInv
<1>. SUFFICES ASSUME Init PROVE HInv
  OBVIOUS
<1>1. Pooled = {} /\ Len(queue) = 0 /\ currentConfigIndex = 0 /\ ~over
  BY Constants DEF Init, Pooled
<1>2. Rest(0) = Frames
  <2>1. \A i \in Frames : i >= 0
    BY FrameNumbers
  <2>. QED  BY <2>1 DEF Rest
<1>3. Left = Cardinality(Frames)
  BY <1>1, <1>2, Constants, MemoryAssumption DEF Init, Left, Ended
<1>4. useCount = Cardinality(Frames)
  BY DEF Init
<1>5. HandlesOK
  BY <1>1, <1>3, <1>4, FS_EmptySet, FrameNumbers DEF HandlesOK
<1>. QED  BY <1>1, <1>5, InitIInv DEF HInv, OverOK

LEMMA HandlesHold == Spec => []HInv
<1>. QED  BY InitHInv, NextHInv, PTL DEF Spec

(* The types of the state, for any sizes: in particular there are never   *)
(* more handles to the pool than there were configurations.               *)
THEOREM TypeCorrect == Spec => []TypeOK
<1>1. HInv => TypeOK
  <2>. SUFFICES ASSUME HInv PROVE TypeOK
    OBVIOUS
  <2>1. useCount \in 0 .. Cardinality(Frames)
    BY LeftType, FrameNumbers DEF HInv, HandlesOK
  <2>. QED  BY <2>1 DEF HInv, IInv, StateOK, TypeOK
<1>. QED  BY <1>1, HandlesHold, PTL

LEMMA NoHandlesNoOwners == HInv => PoolOutlivesChunks
<1>. SUFFICES ASSUME HInv, useCount = 0
              PROVE  /\ \A c \in Chunks : Owners(c) = 0
                     /\ \A r \in Readers : pc[r] = "fetch" => currentConfigIndex \notin Frames
  BY DEF PoolOutlivesChunks
<1>1. Cardinality(Pooled) = 0 /\ Len(queue) = 0 /\ Left = 0
  BY LeftType DEF HInv, HandlesOK
<1>2. Pooled = {} /\ queue = <<>>
  <2>1. Pooled \in SUBSET Tasks
    BY DEF Pooled
  <2>2. IsFiniteSet(Pooled)
    BY <2>1, PooledCounts
  <2>. QED  BY <1>1, <2>2, FS_EmptySet DEF HInv, IInv, StateOK
<1>3. ASSUME NEW c \in Chunks PROVE Owners(c) = 0
  <2>1. \A t \in Tasks : frame[t].memory # c
    BY <1>2, Constants DEF Pooled, HInv, IInv, PlacesOK, Full, StateOK
  <2>2. {t \in Tasks : frame[t].memory = c} = {} /\ {i \in DOMAIN queue : queue[i].memory = c} = {}
    BY <1>2, <2>1
  <2>3. Owners(c) = Cardinality({}) + Cardinality({})
    BY <2>2 DEF Owners
  <2>. QED  BY <2>3, FS_EmptySet
<1>4. ASSUME NEW r \in Readers, pc[r] = "fetch" PROVE currentConfigIndex \notin Frames
  <2>1. Cardinality(Rest(currentConfigIndex)) = 0
    BY <1>1, <1>4 DEF Left, Ended
  <2>2. currentConfigIndex \in Frames => currentConfigIndex \in Rest(currentConfigIndex)
    BY FrameNumbers DEF Rest
  <2>. QED  BY <2>1, <2>2, RestCounts, FS_EmptySet DEF HInv, IInv, StateOK
<1>. QED  BY <1>3, <1>4

(* The pool is not destroyed while a frame lies in it or a reader may     *)
(* still ask it for a chunk, for any number of readers that fail.         *)
THEOREM PoolLivesLongEnough == Spec => []PoolOutlivesChunks
<1>. QED  BY HandlesHold, NoHandlesNoOwners, PTL

(* At the end of a run, however it went, no handle is left. *)
THEOREM PoolIsReleased == Spec => []NothingLeaks
<1>1. HInv => NothingLeaks
  <2>. SUFFICES ASSUME HInv, over PROVE useCount = 0
    BY DEF NothingLeaks
  <2>1. queue = <<>> /\ Len(queue) = 0 /\ \A t \in Tasks : Ended(t)
    BY DEF HInv, OverOK
  <2>2. Left = 0 /\ Pooled = {}
    BY <2>1, Constants DEF Left, Pooled, Ended, HInv, IInv, PlacesOK
  <2>. QED  BY <2>1, <2>2, FS_EmptySet DEF HInv, HandlesOK
<1>. QED  BY <1>1, HandlesHold, PTL
==============================================================================
