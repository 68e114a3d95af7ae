---------------------------- MODULE FrameMemory ----------------------------
(***************************************************************************)
(* The memory behind the frames of the input: readers take chunks from one *)
(* LazyMemoryPool, frames move through the input queue into the hands of   *)
(* calculators, and go back to the pool when a calculator takes its next   *)
(* frame.  Which handles (shared_ptr) keep the pool alive is counted.      *)
(*                                                                         *)
(* The pool's mutex makes each malloc and free one step, the queue's mutex *)
(* each push and pop.  Chunks are all the memory the system has to give.   *)
(* The frames of CRCs come from operator new (Crc8Wrapper's pool is null)  *)
(* and are left out, except that they may be denied.                       *)
(***************************************************************************)
EXTENDS Sizing, Sequences, FiniteSets

CONSTANTS FileSize, BlockSize, OptimalDataFrameSize, MaxQueueSize,
          Readers, Calculators,
          Chunks,
          Attempts,   \* AcceptableQuantityOfAlloacationsFailing
          None        \* no frame, no chunk of the pool

ASSUME MemoryAssumption ==
  /\ FileSize \in Nat /\ {BlockSize, OptimalDataFrameSize} \subseteq Nat \ {0}
  /\ {MaxQueueSize, Attempts} \subseteq Nat \ {0}
  /\ Readers # {} /\ Readers \cap Calculators = {}
  /\ IsFiniteSet(Readers \cup Calculators)
  /\ None \notin Nat \cup Chunks

Tasks == Readers \cup Calculators
Frames == 0 .. dataFramesInFile(FileSize, BlockSize, OptimalDataFrameSize) - 1

(* Every configuration asks for chunks of the same size (line 17). *)
ChunkBytes ==
  0 .. BlockSize * dataBlocksInFrame(FileSize, BlockSize, OptimalDataFrameSize) - 1
BytesRead(i) == 0 .. readed(i, FileSize, BlockSize, OptimalDataFrameSize) - 1

(* A byte of a chunk is zero, old garbage, or a byte of a frame. *)
Zero == <<"zero", 0>>
Garbage == <<"garbage", 0>>
ByteOf(i) == <<"frame", i>>

VARIABLES
  pc,                  \* where a task is
  currentConfigIndex,  \* the next configuration to take
  failures,            \* how often a reader has been denied a chunk in a row
  frame,               \* the DataFrame in a task's hands
  queue,               \* the DataFrames in the input queue
  initialised,         \* poolInitialisationFlag_
  free,                \* the chunks the pool can give
  bytes,               \* bytes[c]: what chunk c holds
  useCount,            \* handles to the pool; it is destroyed when there are none
  over                 \* the queue has been destroyed

vars == <<pc, currentConfigIndex, failures, frame, queue, initialised, free,
          bytes, useCount, over>>

(* A DataFrame: the index of its configuration, and its ZeroFilledMemory.  *)
DataFrames == [index : Frames \cup {None},
               memory : Chunks \cup {None}, memoryPool : BOOLEAN]

(* DataFrame(): no blocks, no handle.  A frame moved from is alike.        *)
Empty == [index |-> None, memory |-> None, memoryPool |-> FALSE]

Init ==
  /\ pc = [t \in Tasks |-> IF t \in Readers THEN "fetch" ELSE "take"]
  /\ currentConfigIndex = 0 /\ failures = [r \in Readers |-> 0]
  /\ frame = [t \in Tasks |-> Empty] /\ queue = <<>>
  /\ initialised = FALSE /\ free = {}
  /\ bytes = [c \in Chunks |-> [b \in ChunkBytes |-> Garbage]]
  /\ useCount = Cardinality(Frames)      \* one in each configuration
  /\ over = FALSE

Goto(t, where) == pc' = [pc EXCEPT ![t] = where]
Ended(t) == pc[t] \in {"done", "failed"}
InQueue == {queue[i] : i \in DOMAIN queue}

(* A slip: memory that came from no pool is given to the pool. *)
DestroyAlwaysToPool(frames) ==
  /\ free' = free \cup {f.memory : f \in frames}
  /\ useCount' = useCount - Cardinality({f \in frames : f.memoryPool})

(* ~ZeroFilledMemory: the chunk goes back first, then the handle goes.     *)
Destroy(frames) ==
  /\ free' = free \cup ({f.memory : f \in {g \in frames : g.memoryPool}} \ {None})
  /\ useCount' = useCount - Cardinality({f \in frames : f.memoryPool})

-----------------------------------------------------------------------------
(* Readers. *)

(* The configuration is moved out of the vector, its handle with it. *)
FetchConfig(r) ==
  /\ pc[r] = "fetch" /\ currentConfigIndex \in Frames
  /\ currentConfigIndex' = currentConfigIndex + 1
  /\ frame' = [frame EXCEPT ![r] = [index |-> currentConfigIndex,
                                    memory |-> None, memoryPool |-> TRUE]]
  /\ Goto(r, "allocate")
  /\ UNCHANGED <<failures, queue, initialised, free, bytes, useCount, over>>

NoMoreConfigs(r) ==
  /\ pc[r] = "fetch" /\ currentConfigIndex \notin Frames
  /\ currentConfigIndex' = currentConfigIndex + 1
  /\ Goto(r, "done")
  /\ UNCHANGED <<failures, frame, queue, initialised, free, bytes, useCount, over>>

(* A slip: two readers may both find the pool missing. *)
InitialisePoolTwice(r) ==
  /\ pc[r] = "allocate" /\ failures[r] = 0
  /\ initialised' = TRUE /\ free' = Chunks
  /\ UNCHANGED <<pc, currentConfigIndex, failures, frame, queue, bytes, useCount, over>>

(* std::call_once *)
InitialisePool(r) ==
  /\ pc[r] = "allocate" /\ ~initialised
  /\ initialised' = TRUE /\ free' = Chunks
  /\ UNCHANGED <<pc, currentConfigIndex, failures, frame, queue, bytes, useCount, over>>

Malloc(r) ==
  /\ pc[r] = "allocate" /\ initialised /\ failures[r] < Attempts
  /\ \E c \in free : /\ free' = free \ {c}
                     /\ frame' = [frame EXCEPT ![r].memory = c]
  /\ failures' = [failures EXCEPT ![r] = 0]
  /\ Goto(r, "fill")
  /\ UNCHANGED <<currentConfigIndex, queue, initialised, bytes, useCount, over>>

(* nullptr: the loop lets others at the mutex and tries again. *)
MallocDenied(r) ==
  /\ pc[r] = "allocate" /\ initialised /\ free = {}
  /\ failures[r] < Attempts
  /\ failures' = [failures EXCEPT ![r] = @ + 1]
  /\ UNCHANGED <<pc, currentConfigIndex, frame, queue, initialised, free, bytes, useCount, over>>

(* A slip: the first reader that fails drops the configurations. *)
UnconsumedDroppedByFirst(r) == Cardinality({i \in Frames : i >= currentConfigIndex})

(* The tasks share the vector of configurations; the last one to go frees  *)
(* it, with the handles still in it.                                       *)
Unconsumed(r) == IF \A other \in Readers \ {r} : Ended(other)
                 THEN Cardinality({i \in Frames : i >= currentConfigIndex}) ELSE 0

(* A slip: the chunk is not cleared. *)
ZeroFillSkipped(old) == old

(* memset *)
ZeroFill(old) == [b \in ChunkBytes |-> Zero]

(* The constructor clears the chunk, then the file is read into it.        *)
Fill(r) ==
  /\ pc[r] = "fill"
  /\ LET cleared == ZeroFill(bytes[frame[r].memory])
         i == frame[r].index
     IN  bytes' = [bytes EXCEPT ![frame[r].memory] =
                     [b \in ChunkBytes |-> IF b \in BytesRead(i) THEN ByteOf(i) ELSE cleared[b]]]
  /\ Goto(r, "push")
  /\ UNCHANGED <<currentConfigIndex, failures, frame, queue, initialised, free, useCount, over>>

(* bad_alloc after too many attempts, or the read throws: the frame goes,  *)
(* and with the task its share of the configurations.                      *)
ReaderFails(r) ==
  /\ \/ pc[r] = "allocate" /\ failures[r] = Attempts
     \/ pc[r] = "fill"
  /\ free' = free \cup ({frame[r].memory} \ {None})
  /\ useCount' = useCount - 1 - Unconsumed(r)
  /\ frame' = [frame EXCEPT ![r] = Empty]
  /\ failures' = [failures EXCEPT ![r] = 0]
  /\ Goto(r, "failed")
  /\ UNCHANGED <<currentConfigIndex, queue, initialised, bytes, over>>

PushFrame(r) ==
  /\ pc[r] = "push" /\ Len(queue) < MaxQueueSize
  /\ queue' = Append(queue, frame[r])
  /\ frame' = [frame EXCEPT ![r] = Empty]
  /\ Goto(r, "fetch")
  /\ UNCHANGED <<currentConfigIndex, failures, initialised, free, bytes, useCount, over>>

-----------------------------------------------------------------------------
(* Calculators. *)

(* A slip: what the frame assigned to had is forgotten. *)
PopFrameForgetting(t) ==
  /\ pc[t] = "take" /\ queue # <<>>
  /\ frame' = [frame EXCEPT ![t] = Head(queue)]
  /\ queue' = Tail(queue)
  /\ UNCHANGED <<pc, currentConfigIndex, failures, initialised, free, bytes, useCount, over>>

(* The move assignment swaps; pop destroys what the task had before. *)
PopFrame(t) ==
  /\ pc[t] = "take" /\ queue # <<>>
  /\ frame' = [frame EXCEPT ![t] = Head(queue)]
  /\ queue' = Tail(queue)
  /\ Destroy({frame[t]})
  /\ UNCHANGED <<pc, currentConfigIndex, failures, initialised, bytes, over>>

(* The task ends, with the last frame still in its hands: because all has  *)
(* been read and the queue is empty, or because it has no memory for CRCs. *)
CalculatorEnds(t) ==
  /\ pc[t] = "take"
  /\ \/ (\A r \in Readers : pc[r] = "done") /\ queue = <<>> /\ Goto(t, "done")
     \/ frame[t].index # None /\ Goto(t, "failed")
  /\ Destroy({frame[t]})
  /\ frame' = [frame EXCEPT ![t] = Empty]
  /\ UNCHANGED <<currentConfigIndex, failures, queue, initialised, bytes, over>>

(* The queue is destroyed with what failed calculators left in it.  (That  *)
(* this may come before tasks have ended is shown with Pipeline.)          *)
DestroyQueue ==
  /\ ~over /\ \A t \in Tasks : Ended(t)
  /\ over' = TRUE /\ queue' = <<>>
  /\ Destroy(InQueue)
  /\ UNCHANGED <<pc, currentConfigIndex, failures, frame, initialised, bytes>>

Reader(r) == \/ FetchConfig(r) \/ NoMoreConfigs(r)
             \/ InitialisePool(r) \/ Malloc(r) \/ MallocDenied(r)
             \/ Fill(r) \/ ReaderFails(r) \/ PushFrame(r)

Next == \/ \E r \in Readers : Reader(r)
        \/ \E t \in Calculators : PopFrame(t) \/ CalculatorEnds(t)
        \/ DestroyQueue

Spec == Init /\ [][Next]_vars

-----------------------------------------------------------------------------
TypeOK ==
  /\ pc \in [Tasks -> {"fetch", "allocate", "fill", "push", "take", "done", "failed"}]
  /\ currentConfigIndex \in Nat /\ failures \in [Readers -> 0 .. Attempts]
  /\ frame \in [Tasks -> DataFrames] /\ queue \in Seq(DataFrames)
  /\ initialised \in BOOLEAN /\ over \in BOOLEAN
  /\ free \subseteq Chunks
  /\ bytes \in [Chunks -> [ChunkBytes -> {Zero, Garbage} \cup {ByteOf(i) : i \in Frames}]]
  /\ useCount \in 0 .. Cardinality(Frames)

(* How many frames, in hands and in the queue, lie in chunk c. *)
Owners(c) == Cardinality({t \in Tasks : frame[t].memory = c})
               + Cardinality({i \in DOMAIN queue : queue[i].memory = c})

(* Once the pool exists each chunk is free or belongs to exactly one       *)
(* frame: no chunk is lost, freed twice or given out twice, whichever way  *)
(* frames are moved, swapped and destroyed (zerofilledmemory.cpp lines     *)
(* 13-29, 57-65; concurentqueue.h lines 24-25).                            *)
ChunksAccounted ==
  initialised => \A c \in Chunks : Owners(c) = IF c \in free THEN 0 ELSE 1

(* A frame that was read keeps exactly what was read, and zeroes behind    *)
(* the end of the file, as the README promises, although its chunk has     *)
(* been used before (zerofilledmemory.cpp line 8).                         *)
FramesIntact ==
  \A f \in InQueue \cup {frame[t] : t \in {u \in Tasks : pc[u] \in {"push", "take"}}} :
    f.index # None =>
      \A b \in ChunkBytes :
        bytes[f.memory][b] = IF b \in BytesRead(f.index) THEN ByteOf(f.index) ELSE Zero

(* The pool is not destroyed while a frame lies in it or a reader may      *)
(* still ask it for a chunk, even when other readers have failed.          *)
PoolOutlivesChunks ==
  useCount = 0 =>
    /\ \A c \in Chunks : Owners(c) = 0
    /\ \A r \in Readers : pc[r] = "fetch" => currentConfigIndex \notin Frames

(* At the end of a run, however it went, the pool is gone. *)
NothingLeaks == over => useCount = 0
=============================================================================
