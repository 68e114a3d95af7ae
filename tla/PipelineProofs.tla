--------------------------- MODULE PipelineProofs ---------------------------
(***************************************************************************)
(* Success is never reported for an incomplete signature: whatever the     *)
(* sizes of the file, of the blocks and of the queues, whatever the number *)
(* of threads, and whichever of the modelled failures happen.              *)
(*                                                                         *)
(* SuccessMeansSigned is not inductive.  The invariant IInv says where     *)
(* each frame is as long as nothing has been restored (NoLoss), and what   *)
(* the main thread's flags and each task's position tell about the stages  *)
(* before it, so that at the end only the file is left as a place.         *)
(***************************************************************************)
EXTENDS Pipeline, SizingProofs

(* The run has not turned to cleaning up. *)
Intact == main \in {"fileSize", "post", "join"} \/ success

ReaderPCs == {"idle", "posted", "open", "fetch", "push", "done", "failed"}
CalculatorPCs == {"idle", "posted", "check", "wait", "waitHold", "drain",
                  "drainHold", "done", "failed"}
WriterPCs == CalculatorPCs \cup {"open"}
Unopened == {"idle", "posted", "open"}
Writing == {"check", "wait", "waitHold", "drain", "drainHold"}

(* Tasks of a kind stay in the code of that kind, with a frame in hand     *)
(* where the code has one.                                                 *)
KindOK ==
  /\ \A t \in Readers : pc[t] \in ReaderPCs
  /\ \A t \in Calculators : pc[t] \in CalculatorPCs
  /\ pc[Writer] \in WriterPCs
  /\ \A t \in Tasks : pc[t] \in {"push", "waitHold", "drainHold"} => held[t] \in Frames

(* A task is posted once and started once. *)
PoolOK ==
  /\ \A i \in 1 .. Len(poolQueue) : pc[poolQueue[i]] = "posted"
  /\ \A i, j \in 1 .. Len(poolQueue) : poolQueue[i] = poolQueue[j] => i = j
  /\ main \in {"fileSize", "post"} =>
       /\ next \in 1 .. TaskCnt
       /\ \A i \in next .. TaskCnt : pc[PostedTask(i)] = "idle"
       /\ ~readingFinished /\ ~calculationFinished

(* What the main thread has waited for is done. *)
JoinOK ==
  /\ main = "join" => \A i \in 1 .. next - 1 : pc[JoinedTask(i)] = "done"
  /\ readingFinished => next > ReadCnt /\ \A t \in Readers : pc[t] = "done"
  /\ calculationFinished => /\ next > ReadCnt + CalcCnt /\ readingFinished
                            /\ \A t \in Calculators : pc[t] = "done"
  /\ success => /\ calculationFinished /\ pc[Writer] = "done"
                /\ main \in {"destroy", "joinPool", "exited"}

(* A task that is done has left nothing behind. *)
DrainOK ==
  /\ \A t \in Readers : pc[t] = "done" => currentConfigIndex \notin Frames
  /\ \A t \in Calculators : pc[t] \in {"drain", "drainHold"} => readingFinished
  /\ \A t \in Calculators : pc[t] = "done" => readingFinished /\ inputQueue = <<>>
  /\ pc[Writer] \in {"drain", "drainHold"} => calculationFinished
  /\ pc[Writer] = "done" => /\ calculationFinished
                            /\ outputQueue = <<>> /\ pending = None

(* The writer writes to the file of that name. *)
StreamOK ==
  Intact => /\ pc[Writer] \in Writing => stream = "linked" /\ exists
            /\ pc[Writer] = "done" => exists

Elems(queue) == {queue[i] : i \in 1 .. Len(queue)}

(* File content c has the CRCs of frame f. *)
Has(c, f) == \A b \in BlocksOf(f) : /\ OriginalSize + b \in DOMAIN c
                                   /\ c[OriginalSize + b] = CrcOf(b)

(* Where a frame can be. *)
Somewhere(f) ==
  \/ currentConfigIndex <= f
  \/ \E t \in Readers : pc[t] = "push" /\ held[t] = f
  \/ f \in Elems(inputQueue)
  \/ \E t \in Calculators : Holds(t) /\ held[t] = f
  \/ f \in Elems(outputQueue)
  \/ Holds(Writer) /\ held[Writer] = f
  \/ pending = f
  \/ pc[Writer] \notin Unopened /\ Has(content, f)

NoLoss == Intact => \/ \E t \in Tasks : pc[t] = "failed"
                    \/ \A f \in Frames : Somewhere(f)

IInv == TypeOK /\ KindOK /\ PoolOK /\ JoinOK /\ DrainOK /\ StreamOK /\ NoLoss

-----------------------------------------------------------------------------
(* Facts about the constants. *)

LEMMA Counts ==
  /\ ReadCnt \in Nat \ {0} /\ CalcCnt \in Nat \ {0}
  /\ TaskCnt \in Nat /\ TaskCnt = ReadCnt + 1 + CalcCnt
BY TaskCountsPositive, InputAssumption DEF ReadCnt, CalcCnt, TaskCnt

LEMMA FrameNumbers ==
  /\ Frames \subseteq Nat
  /\ \A n \in Nat \ Frames : n + 1 \notin Frames
  /\ \A n \in Nat \ Frames : \A f \in Frames : ~ (n <= f)
<1>. DEFINE m == dataFramesInFile(FileSize, BlockSize, OptimalDataFrameSize)
<1>1. m \in Nat
  <2>1. CASE FileSize = 0
    BY <2>1 DEF dataFramesInFile
  <2>2. CASE FileSize # 0
    <3>1. PICK n, k : Cut(FileSize, BlockSize, OptimalDataFrameSize, n, k, m)
      BY <2>2, InputAssumption DEF Cut
    <3>. QED  BY <3>1, CutTypes
  <2>. QED  BY <2>1, <2>2
<1>2. Frames = 0 .. m - 1
  BY DEF Frames
<1>. QED  BY <1>1, <1>2

(* Every block is in some frame. *)
LEMMA BlocksInFrames == \A b \in Blocks : b \in Nat /\ \E f \in Frames : b \in BlocksOf(f)
<1>1. CASE FileSize = 0
  <2>1. dataBlocksInFile(FileSize, BlockSize) = 0
    <3>1. /\ ceilDevision(0, BlockSize) \in Nat
          /\ (ceilDevision(0, BlockSize) - 1) * BlockSize < 0
      BY InputAssumption, CeilBounds
    <3>2. ceilDevision(0, BlockSize) = 0
      <4>. DEFINE q == ceilDevision(0, BlockSize)
      <4>. HIDE DEF q
      <4>1. q \in Nat /\ (q - 1) * BlockSize < 0
        BY <3>1 DEF q
      <4>2. q >= 1 => 0 * BlockSize <= (q - 1) * BlockSize
        BY <4>1, InputAssumption, MulMonotone
      <4>3. 0 * BlockSize = 0 /\ (q - 1) * BlockSize \in Int
        BY <4>1, InputAssumption
      <4>4. q = 0
        BY <4>1, <4>2, <4>3
      <4>. QED  BY <4>4 DEF q
    <3>. QED  BY <1>1, <3>2 DEF dataBlocksInFile
  <2>. QED  BY <2>1 DEF Blocks
<1>2. CASE FileSize # 0
  <2>1. \A b \in Blocks : \E f \in Frames : b \in BlocksOf(f)
    BY <1>2, InputAssumption, BlocksPartitionedAlways DEF Blocks, Frames, BlocksOf
  <2>. QED  BY <2>1 DEF Blocks
<1>. QED  BY <1>1, <1>2

LEMMA BlocksAreIntegers == \A f : \A b \in BlocksOf(f) : b \in Int
BY DEF BlocksOf, blocksOfFrame

(* The three kinds of tasks. *)
LEMMA Kinds ==
  /\ Writer \in Tasks /\ Readers \subseteq Tasks /\ Calculators \subseteq Tasks
  /\ Writer \notin Readers /\ Writer \notin Calculators
  /\ \A t \in Readers : t \notin Calculators
  /\ \A t \in Tasks : t \in Readers \/ t = Writer \/ t \in Calculators
  /\ <<"reader", 1>> \in Readers /\ <<"calculator", 1>> \in Calculators
BY Counts DEF Tasks, Readers, Writer, Calculators

(* The order of posting has no task twice; the order of waiting has all. *)
LEMMA Orders ==
  /\ \A i \in 1 .. TaskCnt : PostedTask(i) \in Tasks /\ JoinedTask(i) \in Tasks
  /\ \A i, j \in 1 .. TaskCnt : PostedTask(i) = PostedTask(j) => i = j
  /\ \A t \in Readers : \E i \in 1 .. ReadCnt : t = JoinedTask(i)
  /\ \A t \in Calculators : \E i \in 1 .. ReadCnt + CalcCnt : t = JoinedTask(i)
  /\ JoinedTask(TaskCnt) = Writer
<1>. USE Counts
<1>1. \A i \in 1 .. TaskCnt : PostedTask(i) \in Tasks
  BY DEF PostedTask, Tasks, Readers, Writer, Calculators
<1>2. \A i \in 1 .. TaskCnt : JoinedTask(i) \in Tasks
  BY DEF JoinedTask, Tasks, Readers, Writer, Calculators
<1>3. \A i, j \in 1 .. TaskCnt : PostedTask(i) = PostedTask(j) => i = j
  BY DEF PostedTask, Writer
<1>4. ASSUME NEW t \in Readers PROVE \E i \in 1 .. ReadCnt : t = JoinedTask(i)
  <2>1. PICK i \in 1 .. ReadCnt : t = <<"reader", i>>
    BY DEF Readers
  <2>2. t = JoinedTask(i)
    BY <2>1 DEF JoinedTask
  <2>. QED  BY <2>2
<1>5. ASSUME NEW t \in Calculators
      PROVE  \E i \in 1 .. ReadCnt + CalcCnt : t = JoinedTask(i)
  <2>1. PICK i \in 1 .. CalcCnt : t = <<"calculator", i>>
    BY DEF Calculators
  <2>2. ReadCnt + i \in 1 .. ReadCnt + CalcCnt /\ t = JoinedTask(ReadCnt + i)
    BY <2>1 DEF JoinedTask
  <2>. QED  BY <2>2
<1>6. JoinedTask(TaskCnt) = Writer
  BY DEF JoinedTask
<1>. QED  BY <1>1, <1>2, <1>3, <1>4, <1>5, <1>6

(* The elements of a queue after a push and before a pop. *)
LEMMA ElemsAppend ==
  ASSUME NEW S, NEW q \in Seq(S), NEW x \in S
  PROVE  Elems(Append(q, x)) = Elems(q) \cup {x}
<1>1. Len(Append(q, x)) = Len(q) + 1 /\ Len(q) \in Nat
  OBVIOUS
<1>2. \A i \in 1 .. Len(q) : Append(q, x)[i] = q[i]
  OBVIOUS
<1>3. Append(q, x)[Len(q) + 1] = x
  OBVIOUS
<1>. QED  BY <1>1, <1>2, <1>3 DEF Elems

LEMMA ElemsTail ==
  ASSUME NEW S, NEW q \in Seq(S), q # <<>>
  PROVE  /\ Elems(q) = {Head(q)} \cup Elems(Tail(q))
         /\ Head(q) \in S /\ Tail(q) \in Seq(S)
<1>1. /\ Len(Tail(q)) = Len(q) - 1 /\ Len(q) \in Nat \ {0}
      /\ Head(q) = q[1] /\ Head(q) \in S /\ Tail(q) \in Seq(S)
  OBVIOUS
<1>2. \A i \in 1 .. Len(Tail(q)) : Tail(q)[i] = q[i + 1]
  OBVIOUS
<1>3. Elems(q) \subseteq {Head(q)} \cup Elems(Tail(q))
  <2>. SUFFICES ASSUME NEW i \in 1 .. Len(q), i # 1 PROVE q[i] \in Elems(Tail(q))
    BY <1>1 DEF Elems
  <2>1. i - 1 \in 1 .. Len(Tail(q)) /\ Tail(q)[i - 1] = q[i]
    BY <1>1, <1>2
  <2>. QED  BY <2>1 DEF Elems
<1>4. {Head(q)} \cup Elems(Tail(q)) \subseteq Elems(q)
  <2>1. Head(q) \in Elems(q)
    BY <1>1 DEF Elems
  <2>2. ASSUME NEW i \in 1 .. Len(Tail(q)) PROVE Tail(q)[i] \in Elems(q)
    <3>1. i + 1 \in 1 .. Len(q) /\ Tail(q)[i] = q[i + 1]
      BY <1>1, <1>2
    <3>. QED  BY <3>1 DEF Elems
  <2>. QED  BY <2>1, <2>2 DEF Elems
<1>. QED  BY <1>1, <1>3, <1>4

-----------------------------------------------------------------------------
(* Steps of tasks. *)

(* Running task t goes to w, the main thread and the pool standing still; *)
(* only t's hands may change.                                             *)
Step(t, w) ==
  /\ t \in Tasks /\ Running(t) /\ w \in TaskPCs \ {"idle", "posted"}
  /\ pc' = [pc EXCEPT ![t] = w]
  /\ held' \in [Tasks -> Frames \cup {None}]
  /\ \A u \in Tasks : u # t => held'[u] = held[u]
  /\ UNCHANGED <<mainVars, poolVars>>

LEMMA StepFrame ==
  ASSUME TypeOK, NEW t, NEW w, Step(t, w)
  PROVE  /\ pc' \in [Tasks -> TaskPCs] /\ pc'[t] = w
         /\ \A u \in Tasks : u # t => pc'[u] = pc[u] /\ held'[u] = held[u]
         /\ pc[t] \notin {"idle", "posted", "done", "failed"}
         /\ t \in Tasks /\ w \in TaskPCs
         /\ held' \in [Tasks -> Frames \cup {None}]
         /\ UNCHANGED <<main, next, success, readingFinished, calculationFinished,
                        poolQueue, stopped>>
         /\ Intact' <=> Intact
BY DEF TypeOK, Step, Running, mainVars, control, poolVars, Intact

(* Posted tasks and finished tasks are not running ones. *)
LEMMA StepKeeps ==
  ASSUME IInv, NEW t, NEW w, Step(t, w)
  PROVE  PoolOK' /\ JoinOK'
<1>. USE DEF IInv
<1>1. /\ pc[t] \notin {"idle", "posted", "done", "failed"}
      /\ \A u \in Tasks : u # t => pc'[u] = pc[u]
      /\ UNCHANGED <<main, next, success, readingFinished, calculationFinished, poolQueue>>
  BY StepFrame
<1>2. PoolOK'
  <2>1. \A i \in 1 .. Len(poolQueue) : poolQueue[i] \in Tasks
    BY DEF TypeOK
  <2>2. \A i \in 1 .. Len(poolQueue') : pc'[poolQueue'[i]] = "posted"
    BY <1>1, <2>1 DEF PoolOK
  <2>3. ASSUME main' \in {"fileSize", "post"}, NEW i \in next' .. TaskCnt
        PROVE  pc'[PostedTask(i)] = "idle"
    <3>1. next \in 1 .. TaskCnt /\ pc[PostedTask(i)] = "idle" /\ i \in 1 .. TaskCnt
      BY <1>1, <2>3, Counts DEF PoolOK
    <3>2. PostedTask(i) \in Tasks
      BY <3>1, Orders
    <3>. QED  BY <1>1, <3>1, <3>2
  <2>. QED  BY <1>1, <2>2, <2>3 DEF PoolOK
<1>3. JoinOK'
  <2>1. ASSUME main' = "join", NEW i \in 1 .. next' - 1
        PROVE  pc'[JoinedTask(i)] = "done"
    <3>1. i \in 1 .. TaskCnt /\ pc[JoinedTask(i)] = "done"
      BY <1>1, <2>1, Counts DEF JoinOK, TypeOK
    <3>2. JoinedTask(i) \in Tasks
      BY <3>1, Orders
    <3>. QED  BY <1>1, <3>1, <3>2
  <2>2. \A u \in Tasks : pc[u] = "done" => pc'[u] = "done"
    BY <1>1
  <2>. QED  BY <1>1, <2>1, <2>2, Kinds DEF JoinOK
<1>. QED  BY <1>2, <1>3

(* While a reader runs, no stage after it is over. *)
LEMMA ReaderKeeps ==
  ASSUME IInv, NEW t \in Readers, NEW w, Step(t, w), w \in ReaderPCs,
         currentConfigIndex' \in {currentConfigIndex, currentConfigIndex + 1},
         w = "done" => currentConfigIndex \notin Frames,
         w = "push" => held'[t] \in Frames,
         UNCHANGED <<outputQueue, files>>
  PROVE  KindOK' /\ PoolOK' /\ JoinOK' /\ DrainOK' /\ StreamOK'
<1>. USE DEF IInv
<1>1. /\ pc[t] \notin {"idle", "posted", "done", "failed"} /\ pc'[t] = w
      /\ \A u \in Tasks : u # t => pc'[u] = pc[u] /\ held'[u] = held[u]
      /\ UNCHANGED <<main, next, success, readingFinished, calculationFinished>>
      /\ UNCHANGED <<exists, content, stream, pending>>
      /\ Intact' <=> Intact
  BY StepFrame DEF files
<1>2. ~readingFinished /\ ~calculationFinished
  BY <1>1 DEF JoinOK
<1>3. KindOK'
  BY <1>1, Kinds DEF KindOK, ReaderPCs
<1>4. DrainOK'
  <2>1. currentConfigIndex \notin Frames => currentConfigIndex' \notin Frames
    BY FrameNumbers DEF TypeOK
  <2>. QED  BY <1>1, <1>2, <2>1, Kinds DEF DrainOK
<1>5. StreamOK'
  BY <1>1, Kinds DEF StreamOK
<1>. QED  BY <1>3, <1>4, <1>5, StepKeeps

(* While a calculator runs, the writer is not done. *)
LEMMA CalculatorKeeps ==
  ASSUME IInv, NEW t \in Calculators, NEW w, Step(t, w), w \in CalculatorPCs,
         w \in {"drain", "drainHold"} => readingFinished,
         w = "done" => readingFinished /\ inputQueue = <<>>,
         w \in {"waitHold", "drainHold"} => held'[t] \in Frames,
         inputQueue = <<>> => inputQueue' = <<>>,
         UNCHANGED <<currentConfigIndex, files>>
  PROVE  KindOK' /\ PoolOK' /\ JoinOK' /\ DrainOK' /\ StreamOK'
<1>. USE DEF IInv
<1>1. /\ pc[t] \notin {"idle", "posted", "done", "failed"} /\ pc'[t] = w
      /\ \A u \in Tasks : u # t => pc'[u] = pc[u] /\ held'[u] = held[u]
      /\ UNCHANGED <<main, next, success, readingFinished, calculationFinished>>
      /\ UNCHANGED <<exists, content, stream, pending>>
      /\ Intact' <=> Intact
  BY StepFrame DEF files
<1>2. ~calculationFinished
  BY <1>1 DEF JoinOK
<1>3. KindOK'
  BY <1>1, Kinds DEF KindOK, CalculatorPCs
<1>4. DrainOK'
  BY <1>1, <1>2, Kinds DEF DrainOK
<1>5. StreamOK'
  BY <1>1, Kinds DEF StreamOK
<1>. QED  BY <1>3, <1>4, <1>5, StepKeeps

LEMMA WriterKeeps ==
  ASSUME IInv, NEW w, Step(Writer, w), w \in WriterPCs,
         w \in {"drain", "drainHold"} => calculationFinished,
         w = "done" => calculationFinished /\ outputQueue' = <<>> /\ pending' = None,
         w \in {"waitHold", "drainHold"} => held'[Writer] \in Frames,
         Intact /\ w \in Writing => stream' = "linked" /\ exists',
         Intact /\ w = "done" => exists',
         UNCHANGED <<currentConfigIndex, inputQueue>>
  PROVE  KindOK' /\ PoolOK' /\ JoinOK' /\ DrainOK' /\ StreamOK'
<1>. USE DEF IInv
<1>1. /\ pc[Writer] \notin {"idle", "posted", "done", "failed"} /\ pc'[Writer] = w
      /\ \A u \in Tasks : u # Writer => pc'[u] = pc[u] /\ held'[u] = held[u]
      /\ UNCHANGED <<main, next, success, readingFinished, calculationFinished>>
      /\ Intact' <=> Intact
  BY StepFrame
<1>3. KindOK'
  BY <1>1, Kinds DEF KindOK, WriterPCs, CalculatorPCs
<1>4. DrainOK'
  BY <1>1, Kinds DEF DrainOK
<1>5. StreamOK'
  BY <1>1 DEF StreamOK
<1>. QED  BY <1>3, <1>4, <1>5, StepKeeps

(* A step that keeps every frame somewhere, or fails, loses nothing. *)
LEMMA StepNoLoss ==
  ASSUME IInv, NEW t, NEW w, Step(t, w),
         \/ w = "failed"
         \/ Intact => \A f \in Frames : Somewhere(f) => Somewhere(f)'
  PROVE  NoLoss'
<1>1. /\ pc[t] # "failed" /\ pc'[t] = w /\ t \in Tasks
      /\ \A u \in Tasks : u # t => pc'[u] = pc[u]
      /\ Intact' <=> Intact
  BY StepFrame DEF IInv
<1>. QED  BY <1>1 DEF IInv, NoLoss

-----------------------------------------------------------------------------
(* Each action of a reader. *)
LEMMA ReaderStep ==
  ASSUME IInv, NEW t \in Readers, Reader(t)
  PROVE  IInv'
<1>. USE DEF IInv, Goto
<1>0. /\ t \in Tasks /\ pc \in [Tasks -> TaskPCs] /\ held \in [Tasks -> Frames \cup {None}]
      /\ UNCHANGED <<mainVars, poolVars>>
  BY Kinds DEF TypeOK, Reader
<1>1. ASSUME OpenInput(t) PROVE IInv'
  <2>1. PICK w \in {"fetch", "failed"} : pc' = [pc EXCEPT ![t] = w]
    BY <1>1 DEF OpenInput
  <2>2. Step(t, w)
    BY <1>0, <1>1, <2>1 DEF OpenInput, Step, Running, TaskPCs
  <2>3. KindOK' /\ PoolOK' /\ JoinOK' /\ DrainOK' /\ StreamOK'
    BY <1>1, <2>2, ReaderKeeps DEF OpenInput, ReaderPCs, queues
  <2>4. NoLoss'
    <3>1. \A f \in Frames : Somewhere(f) => Somewhere(f)'
      BY <1>1, <2>2, StepFrame, Kinds
         DEF OpenInput, queues, files, Somewhere, Holds, Has
    <3>. QED  BY <2>2, <3>1, StepNoLoss
  <2>5. TypeOK'
    BY <1>1, <2>2, StepFrame DEF OpenInput, queues, files, TypeOK
  <2>. QED  BY <2>3, <2>4, <2>5
<1>2. ASSUME FetchFrame(t) PROVE IInv'
  <2>0. /\ pc[t] = "fetch" /\ currentConfigIndex' = currentConfigIndex + 1
        /\ UNCHANGED <<inputQueue, outputQueue, exists, content, stream, pending>>
        /\ currentConfigIndex \in Nat
    BY <1>2 DEF FetchFrame, queues, files, TypeOK
  <2>1. CASE /\ currentConfigIndex \in Frames
             /\ held' = [held EXCEPT ![t] = currentConfigIndex]
             /\ pc' = [pc EXCEPT ![t] = "push"]
    <3>1. Step(t, "push") /\ held'[t] = currentConfigIndex
      BY <1>0, <2>0, <2>1 DEF Step, Running, TaskPCs
    <3>2. KindOK' /\ PoolOK' /\ JoinOK' /\ DrainOK' /\ StreamOK'
      BY <2>0, <2>1, <3>1, ReaderKeeps DEF ReaderPCs, files
    <3>3. ASSUME NEW f \in Frames, Somewhere(f) PROVE Somewhere(f)'
      <4>1. CASE f = currentConfigIndex
        BY <3>1, <4>1, StepFrame DEF Somewhere
      <4>2. CASE f # currentConfigIndex
        <5>1. currentConfigIndex <= f => currentConfigIndex' <= f
          BY <2>0, <4>2, FrameNumbers
        <5>. QED  BY <2>0, <3>1, <3>3, <5>1, StepFrame, Kinds
                  DEF Somewhere, Holds, Has
      <4>. QED  BY <4>1, <4>2
    <3>4. TypeOK'
      BY <2>0, <3>1, StepFrame DEF TypeOK
    <3>. QED  BY <3>1, <3>2, <3>3, <3>4, StepNoLoss
  <2>2. CASE pc' = [pc EXCEPT ![t] = "failed"] /\ held' = held
    <3>1. Step(t, "failed")
      BY <1>0, <2>0, <2>2 DEF Step, Running, TaskPCs
    <3>2. KindOK' /\ PoolOK' /\ JoinOK' /\ DrainOK' /\ StreamOK'
      BY <2>0, <3>1, ReaderKeeps DEF ReaderPCs, files
    <3>3. TypeOK'
      BY <2>0, <3>1, StepFrame DEF TypeOK
    <3>. QED  BY <3>1, <3>2, <3>3, StepNoLoss
  <2>3. CASE /\ currentConfigIndex \notin Frames
             /\ pc' = [pc EXCEPT ![t] = "done"] /\ held' = held
    <3>1. Step(t, "done")
      BY <1>0, <2>0, <2>3 DEF Step, Running, TaskPCs
    <3>2. KindOK' /\ PoolOK' /\ JoinOK' /\ DrainOK' /\ StreamOK'
      BY <2>0, <2>3, <3>1, ReaderKeeps DEF ReaderPCs, files
    <3>3. ASSUME NEW f \in Frames, Somewhere(f) PROVE Somewhere(f)'
      <4>1. ~ (currentConfigIndex <= f)
        BY <2>0, <2>3, FrameNumbers
      <4>. QED  BY <2>0, <3>1, <3>3, <4>1, StepFrame, Kinds
                DEF Somewhere, Holds, Has
    <3>4. TypeOK'
      BY <2>0, <3>1, StepFrame DEF TypeOK
    <3>. QED  BY <3>1, <3>2, <3>3, <3>4, StepNoLoss
  <2>. QED  BY <1>2, <2>1, <2>2, <2>3 DEF FetchFrame
<1>3. ASSUME PushFrame(t) PROVE IInv'
  <2>0. /\ pc[t] = "push" /\ held[t] \in Frames
        /\ inputQueue' = Append(inputQueue, held[t])
        /\ held' = [held EXCEPT ![t] = None] /\ pc' = [pc EXCEPT ![t] = "fetch"]
        /\ UNCHANGED <<currentConfigIndex, outputQueue, exists, content, stream, pending>>
        /\ inputQueue \in Seq(Frames)
    BY <1>0, <1>3 DEF PushFrame, files, TypeOK, KindOK
  <2>1. Step(t, "fetch")
    BY <1>0, <2>0 DEF Step, Running, TaskPCs
  <2>2. KindOK' /\ PoolOK' /\ JoinOK' /\ DrainOK' /\ StreamOK'
    BY <2>0, <2>1, ReaderKeeps DEF ReaderPCs, files
  <2>3. Elems(inputQueue') = Elems(inputQueue) \cup {held[t]}
    BY <2>0, ElemsAppend
  <2>4. ASSUME NEW f \in Frames, Somewhere(f) PROVE Somewhere(f)'
    <3>1. CASE f = held[t]
      <4>1. f \in Elems(inputQueue')
        BY <2>3, <3>1
      <4>. QED  BY <4>1 DEF Somewhere, Elems
    <3>2. CASE f # held[t]
      <4>1. f \in Elems(inputQueue) => f \in Elems(inputQueue)'
        BY <2>3 DEF Elems
      <4>2. f \in Elems(outputQueue) => f \in Elems(outputQueue)'
        BY <2>0 DEF Elems
      <4>. QED  BY <2>0, <2>1, <2>4, <3>2, <4>1, <4>2, StepFrame, Kinds
                DEF Somewhere, Holds, Has
    <3>. QED  BY <3>1, <3>2
  <2>5. TypeOK'
    <3>1. inputQueue' \in Seq(Frames)
      BY <2>0
    <3>. QED  BY <2>0, <2>1, <3>1, StepFrame DEF TypeOK
  <2>. QED  BY <2>1, <2>2, <2>4, <2>5, StepNoLoss
<1>. QED  BY <1>1, <1>2, <1>3 DEF Reader

(* Each action of a calculator. *)
LEMMA CalculatorStep ==
  ASSUME IInv, NEW t \in Calculators, Calculator(t)
  PROVE  IInv'
<1>. USE DEF IInv, Goto
<1>0. /\ t \in Tasks /\ t # Writer /\ t \notin Readers
      /\ pc \in [Tasks -> TaskPCs] /\ held \in [Tasks -> Frames \cup {None}]
      /\ UNCHANGED <<mainVars, poolVars>>
      /\ inputQueue \in Seq(Frames) /\ outputQueue \in Seq(Frames)
  BY Kinds DEF TypeOK, Calculator
(* A step that only moves the task: a check or an empty queue. *)
<1>1. ASSUME NEW w \in CalculatorPCs \ {"idle", "posted", "waitHold", "drainHold"},
             pc' = [pc EXCEPT ![t] = w],
             pc[t] \in {"check", "wait", "drain"},
             w = "drain" => readingFinished,
             w = "done" => readingFinished /\ inputQueue = <<>>,
             UNCHANGED <<held, currentConfigIndex, queues, files>>
      PROVE  IInv'
  <2>1. Step(t, w)
    BY <1>0, <1>1 DEF Step, Running, Holds, TaskPCs, CalculatorPCs
  <2>2. KindOK' /\ PoolOK' /\ JoinOK' /\ DrainOK' /\ StreamOK'
    BY <1>1, <2>1, CalculatorKeeps DEF queues
  <2>3. w = "failed" \/ \A f \in Frames : Somewhere(f) => Somewhere(f)'
    BY <1>0, <1>1, <2>1, StepFrame, Kinds
       DEF queues, files, Somewhere, Holds, Has
  <2>4. TypeOK'
    BY <1>1, <2>1, StepFrame DEF queues, files, TypeOK
  <2>. QED  BY <2>1, <2>2, <2>3, <2>4, StepNoLoss
<1>2. ASSUME CheckProducer(t, readingFinished) PROVE IInv'
  <2>1. PICK w \in {"drain", "wait"} :
          pc' = [pc EXCEPT ![t] = w] /\ (w = "drain" => readingFinished)
    BY <1>2 DEF CheckProducer
  <2>2. /\ pc[t] \in {"check", "wait", "drain"}
        /\ UNCHANGED <<held, currentConfigIndex, queues, files>>
    BY <1>2 DEF CheckProducer
  <2>. QED  BY <1>1, <2>1, <2>2 DEF CalculatorPCs
<1>3. ASSUME TimeOut(t, inputQueue) PROVE IInv'
  <2>1. /\ pc[t] \in {"check", "wait", "drain"} /\ pc' = [pc EXCEPT ![t] = "check"]
        /\ UNCHANGED <<held, currentConfigIndex, queues, files>>
    BY <1>3 DEF TimeOut
  <2>2. "check" \in CalculatorPCs \ {"idle", "posted", "waitHold", "drainHold"}
    BY DEF CalculatorPCs
  <2>. QED  BY <1>1, <2>1, <2>2
<1>4. ASSUME CalculationFails(t) PROVE IInv'
  <2>0. /\ pc[t] \in {"wait", "drain"} /\ pc' = [pc EXCEPT ![t] = "failed"]
        /\ inputQueue # <<>> /\ inputQueue' = Tail(inputQueue)
        /\ UNCHANGED <<held, currentConfigIndex, outputQueue, exists, content, stream, pending>>
    BY <1>4 DEF CalculationFails, files
  <2>1. Step(t, "failed")
    BY <1>0, <2>0 DEF Step, Running, TaskPCs
  <2>2. KindOK' /\ PoolOK' /\ JoinOK' /\ DrainOK' /\ StreamOK'
    BY <2>0, <2>1, CalculatorKeeps DEF CalculatorPCs, files
  <2>3. inputQueue' \in Seq(Frames)
    BY <1>0, <2>0, ElemsTail
  <2>4. TypeOK'
    BY <2>0, <2>1, <2>3, StepFrame DEF TypeOK
  <2>. QED  BY <2>1, <2>2, <2>4, StepNoLoss
<1>5. ASSUME InputDrained(t) PROVE IInv'
  <2>1. readingFinished
    BY <1>5 DEF InputDrained, DrainOK
  <2>. QED  BY <1>1, <1>5, <2>1 DEF InputDrained, CalculatorPCs
<1>6. ASSUME TakeInput(t) PROVE IInv'
  <2>0. PICK w \in {"waitHold", "drainHold"} :
          /\ pc[t] = (IF w = "waitHold" THEN "wait" ELSE "drain")
          /\ pc' = [pc EXCEPT ![t] = w]
          /\ held' = [held EXCEPT ![t] = Head(inputQueue)]
          /\ inputQueue # <<>> /\ inputQueue' = Tail(inputQueue)
          /\ UNCHANGED <<currentConfigIndex, outputQueue, exists, content, stream, pending>>
    BY <1>6 DEF TakeInput, TakeFrame, files
  <2>1. /\ Elems(inputQueue) = {Head(inputQueue)} \cup Elems(inputQueue')
        /\ Head(inputQueue) \in Frames /\ inputQueue' \in Seq(Frames)
    BY <1>0, <2>0, ElemsTail
  <2>2. Step(t, w) /\ held'[t] = Head(inputQueue)
    BY <1>0, <2>0, <2>1 DEF Step, Running, TaskPCs
  <2>3. w = "drainHold" => readingFinished
    BY <2>0 DEF DrainOK
  <2>4. KindOK' /\ PoolOK' /\ JoinOK' /\ DrainOK' /\ StreamOK'
    BY <2>0, <2>1, <2>2, <2>3, CalculatorKeeps DEF CalculatorPCs, files
  <2>5. ASSUME NEW f \in Frames, Somewhere(f) PROVE Somewhere(f)'
    <3>1. CASE f = Head(inputQueue)
      <4>1. Holds(t)' /\ held'[t] = f
        BY <2>2, <3>1, StepFrame DEF Holds
      <4>. QED  BY <4>1 DEF Somewhere
    <3>2. CASE f # Head(inputQueue)
      <4>1. f \in Elems(inputQueue) => f \in Elems(inputQueue)'
        BY <2>1, <3>2 DEF Elems
      <4>2. f \in Elems(outputQueue) => f \in Elems(outputQueue)'
        BY <2>0 DEF Elems
      <4>3. ~Holds(t)
        BY <2>0 DEF Holds
      <4>. QED  BY <1>0, <2>0, <2>2, <2>5, <4>1, <4>2, <4>3, StepFrame, Kinds
                DEF Somewhere, Holds, Has
    <3>. QED  BY <3>1, <3>2
  <2>6. TypeOK'
    BY <2>0, <2>1, <2>2, StepFrame DEF TypeOK
  <2>. QED  BY <2>2, <2>4, <2>5, <2>6, StepNoLoss
<1>7. ASSUME CalculateAndPush(t) PROVE IInv'
  <2>0. PICK w \in {"wait", "drain"} :
          /\ pc[t] = (IF w = "wait" THEN "waitHold" ELSE "drainHold")
          /\ pc' = [pc EXCEPT ![t] = w]
          /\ held' = [held EXCEPT ![t] = None]
          /\ outputQueue' = Append(outputQueue, held[t])
          /\ UNCHANGED <<currentConfigIndex, inputQueue, exists, content, stream, pending>>
    BY <1>7 DEF CalculateAndPush, FrameDone, Holds, files
  <2>1. held[t] \in Frames
    BY <1>0, <2>0 DEF KindOK
  <2>2. Elems(outputQueue') = Elems(outputQueue) \cup {held[t]} /\ outputQueue' \in Seq(Frames)
    BY <1>0, <2>0, <2>1, ElemsAppend
  <2>3. Step(t, w)
    BY <1>0, <2>0 DEF Step, Running, TaskPCs
  <2>4. w = "drain" => readingFinished
    BY <2>0 DEF DrainOK
  <2>5. KindOK' /\ PoolOK' /\ JoinOK' /\ DrainOK' /\ StreamOK'
    BY <2>0, <2>3, <2>4, CalculatorKeeps DEF CalculatorPCs, files
  <2>6. ASSUME NEW f \in Frames, Somewhere(f) PROVE Somewhere(f)'
    <3>1. CASE f = held[t]
      <4>1. f \in Elems(outputQueue')
        BY <2>2, <3>1
      <4>. QED  BY <4>1 DEF Somewhere, Elems
    <3>2. CASE f # held[t]
      <4>1. f \in Elems(outputQueue) => f \in Elems(outputQueue)'
        BY <2>2 DEF Elems
      <4>2. f \in Elems(inputQueue) => f \in Elems(inputQueue)'
        BY <2>0 DEF Elems
      <4>. QED  BY <1>0, <2>0, <2>3, <2>6, <3>2, <4>1, <4>2, StepFrame, Kinds
                DEF Somewhere, Holds, Has
    <3>. QED  BY <3>1, <3>2
  <2>7. TypeOK'
    BY <2>0, <2>2, <2>3, StepFrame DEF TypeOK
  <2>. QED  BY <2>3, <2>5, <2>6, <2>7, StepNoLoss
<1>. QED  BY <1>2, <1>3, <1>4, <1>5, <1>6, <1>7 DEF Calculator

-----------------------------------------------------------------------------
(* Writing a frame puts it on disk and disturbs no other frame. *)
LEMMA PutWrites ==
  ASSUME NEW c, NEW g, NEW f, stream = "linked", (f = g /\ g # None) \/ Has(c, f)
  PROVE  Has(Put(c, g), f)
<1>1. CASE g = None
  BY <1>1 DEF Put
<1>2. CASE g # None
  <2>1. Put(c, g) = [p \in DOMAIN c \cup Positions(g) |->
                       IF p \in Positions(g) THEN CrcOf(p - OriginalSize) ELSE c[p]]
    BY <1>2 DEF Put
  <2>2. \A b \in BlocksOf(f) : b \in Int /\ (OriginalSize + b) - OriginalSize = b
    BY BlocksAreIntegers, InputAssumption
  <2>3. f = g => \A b \in BlocksOf(f) : OriginalSize + b \in Positions(g)
    BY DEF Positions
  <2>. QED  BY <2>1, <2>2, <2>3 DEF Has
<1>. QED  BY <1>1, <1>2

(* The process ends while a task runs: then success was not reported. *)
LEMMA EndStep ==
  ASSUME IInv, NEW t \in Tasks, Running(t), main' \in {"aborted", "undefined"},
         UNCHANGED <<control, poolVars, taskVars, queues, files>>
  PROVE  IInv'
<1>. USE DEF IInv
<1>1. /\ UNCHANGED <<next, success, readingFinished, calculationFinished, poolQueue,
                     stopped, pc, held, currentConfigIndex, inputQueue, outputQueue>>
      /\ UNCHANGED <<exists, content, stream, pending>>
  BY DEF control, poolVars, taskVars, queues, files
<1>2. ~success
  BY Kinds DEF Running, JoinOK
<1>3. ~Intact'
  BY <1>1, <1>2 DEF Intact
<1>4. TypeOK' /\ KindOK'
  BY <1>1 DEF TypeOK, KindOK, Ends
<1>5. PoolOK' /\ JoinOK'
  BY <1>1, <1>2 DEF PoolOK, JoinOK
<1>6. DrainOK'
  BY <1>1 DEF DrainOK
<1>. QED  BY <1>3, <1>4, <1>5, <1>6 DEF StreamOK, NoLoss

(* Each action of the writer. *)
LEMMA WriterStep ==
  ASSUME IInv, WriterTask
  PROVE  IInv'
<1>. USE DEF IInv, Goto
<1>0. /\ Writer \in Tasks /\ Writer \notin Readers /\ Writer \notin Calculators
      /\ pc \in [Tasks -> TaskPCs] /\ held \in [Tasks -> Frames \cup {None}]
      /\ UNCHANGED poolVars
      /\ outputQueue \in Seq(Frames)
  BY Kinds DEF TypeOK, WriterTask
<1>1. ASSUME OpenOutput, UNCHANGED mainVars PROVE IInv'
  <2>0. PICK w \in {"check", "failed"} :
          /\ pc[Writer] = "open" /\ pc' = [pc EXCEPT ![Writer] = w]
          /\ w = "check" => stream' = "linked" /\ exists' = TRUE
          /\ w = "failed" => UNCHANGED <<stream, exists>>
          /\ UNCHANGED <<held, currentConfigIndex, inputQueue, outputQueue, pending>>
    BY <1>1 DEF OpenOutput, queues
  <2>1. Step(Writer, w)
    BY <1>0, <1>1, <2>0 DEF Step, Running, TaskPCs
  <2>2. KindOK' /\ PoolOK' /\ JoinOK' /\ DrainOK' /\ StreamOK'
    BY <2>0, <2>1, WriterKeeps DEF WriterPCs, CalculatorPCs, Writing
  <2>3. \A f \in Frames : Somewhere(f) => Somewhere(f)'
    BY <1>0, <2>0, <2>1, StepFrame, Kinds DEF Somewhere, Holds, Unopened
  <2>4. TypeOK'
    BY <2>0, <2>1, StepFrame DEF TypeOK
  <2>. QED  BY <2>1, <2>2, <2>3, <2>4, StepNoLoss
<1>2. ASSUME NEW w \in {"check", "wait", "drain"},
             pc' = [pc EXCEPT ![Writer] = w],
             pc[Writer] \in {"check", "wait"},
             w = "drain" => calculationFinished,
             UNCHANGED <<mainVars, held, currentConfigIndex, queues, files>>
      PROVE  IInv'
  <2>0. UNCHANGED <<inputQueue, outputQueue, exists, content, stream, pending>>
    BY <1>2 DEF queues, files
  <2>1. Step(Writer, w)
    BY <1>0, <1>2 DEF Step, Running, TaskPCs
  <2>2. KindOK' /\ PoolOK' /\ JoinOK' /\ DrainOK' /\ StreamOK'
    BY <1>2, <2>0, <2>1, WriterKeeps DEF WriterPCs, CalculatorPCs, Writing, StreamOK
  <2>3. \A f \in Frames : Somewhere(f) => Somewhere(f)'
    BY <1>0, <1>2, <2>0, <2>1, StepFrame, Kinds DEF Somewhere, Holds, Unopened
  <2>4. TypeOK'
    BY <1>2, <2>0, <2>1, StepFrame DEF TypeOK
  <2>. QED  BY <2>1, <2>2, <2>3, <2>4, StepNoLoss
<1>3. ASSUME CheckProducer(Writer, calculationFinished), UNCHANGED mainVars PROVE IInv'
  <2>1. PICK w \in {"drain", "wait"} :
          pc' = [pc EXCEPT ![Writer] = w] /\ (w = "drain" => calculationFinished)
    BY <1>3 DEF CheckProducer
  <2>2. /\ pc[Writer] \in {"check", "wait"}
        /\ UNCHANGED <<mainVars, held, currentConfigIndex, queues, files>>
    BY <1>3 DEF CheckProducer
  <2>. QED  BY <1>2, <2>1, <2>2
<1>4. ASSUME TimeOut(Writer, outputQueue), UNCHANGED mainVars PROVE IInv'
  <2>1. /\ pc[Writer] \in {"check", "wait"} /\ pc' = [pc EXCEPT ![Writer] = "check"]
        /\ UNCHANGED <<mainVars, held, currentConfigIndex, queues, files>>
    BY <1>4 DEF TimeOut
  <2>. QED  BY <1>2, <2>1
<1>5. ASSUME TakeOutput, UNCHANGED mainVars PROVE IInv'
  <2>0. PICK w \in {"waitHold", "drainHold"} :
          /\ pc[Writer] = (IF w = "waitHold" THEN "wait" ELSE "drain")
          /\ pc' = [pc EXCEPT ![Writer] = w]
          /\ held' = [held EXCEPT ![Writer] = Head(outputQueue)]
          /\ outputQueue # <<>> /\ outputQueue' = Tail(outputQueue)
          /\ UNCHANGED <<currentConfigIndex, inputQueue, exists, content, stream, pending>>
    BY <1>5 DEF TakeOutput, TakeFrame, files
  <2>1. /\ Elems(outputQueue) = {Head(outputQueue)} \cup Elems(outputQueue')
        /\ Head(outputQueue) \in Frames /\ outputQueue' \in Seq(Frames)
    BY <1>0, <2>0, ElemsTail
  <2>2. Step(Writer, w) /\ held'[Writer] = Head(outputQueue)
    BY <1>0, <1>5, <2>0, <2>1 DEF Step, Running, TaskPCs
  <2>3. w = "drainHold" => calculationFinished
    BY <2>0 DEF DrainOK
  <2>4. Intact /\ w \in Writing => stream' = "linked" /\ exists'
    BY <2>0 DEF StreamOK, Writing
  <2>5. KindOK' /\ PoolOK' /\ JoinOK' /\ DrainOK' /\ StreamOK'
    BY <2>0, <2>1, <2>2, <2>3, <2>4, WriterKeeps DEF WriterPCs, CalculatorPCs
  <2>6. ASSUME NEW f \in Frames, Somewhere(f) PROVE Somewhere(f)'
    <3>1. CASE f = Head(outputQueue)
      <4>1. Holds(Writer)' /\ held'[Writer] = f
        BY <2>2, <3>1, StepFrame DEF Holds
      <4>. QED  BY <4>1 DEF Somewhere
    <3>2. CASE f # Head(outputQueue)
      <4>1. f \in Elems(outputQueue) => f \in Elems(outputQueue)'
        BY <2>1, <3>2 DEF Elems
      <4>2. f \in Elems(inputQueue) => f \in Elems(inputQueue)'
        BY <2>0 DEF Elems
      <4>3. ~Holds(Writer) /\ pc'[Writer] \notin Unopened
        BY <2>0, <2>2, StepFrame DEF Holds, Unopened
      <4>. QED  BY <1>0, <2>0, <2>2, <2>6, <4>1, <4>2, <4>3, StepFrame, Kinds
                DEF Somewhere, Holds
    <3>. QED  BY <3>1, <3>2
  <2>7. TypeOK'
    BY <2>0, <2>1, <2>2, StepFrame DEF TypeOK
  <2>. QED  BY <2>2, <2>5, <2>6, <2>7, StepNoLoss
<1>6. ASSUME WriteFrame, UNCHANGED mainVars PROVE IInv'
  <2>. DEFINE flushed == Put(content, pending)
  <2>0. PICK w \in {"wait", "drain"} :
          /\ pc[Writer] = (IF w = "wait" THEN "waitHold" ELSE "drainHold")
          /\ pc' = [pc EXCEPT ![Writer] = w]
          /\ held' = [held EXCEPT ![Writer] = None]
          /\ \/ content' = flushed /\ pending' = held[Writer]
             \/ content' = Put(flushed, held[Writer]) /\ pending' = None
          /\ UNCHANGED <<currentConfigIndex, inputQueue, outputQueue, exists, stream>>
    BY <1>6 DEF WriteFrame, FrameDone, Holds, queues
  <2>. HIDE DEF flushed
  <2>1. held[Writer] \in Frames
    BY <1>0, <2>0 DEF KindOK
  <2>2. Step(Writer, w)
    BY <1>0, <1>6, <2>0 DEF Step, Running, TaskPCs
  <2>3. w = "drain" => calculationFinished
    BY <2>0 DEF DrainOK
  <2>4. Intact => stream = "linked" /\ stream' = "linked" /\ exists'
    BY <2>0 DEF StreamOK, Writing
  <2>5. KindOK' /\ PoolOK' /\ JoinOK' /\ DrainOK' /\ StreamOK'
    BY <2>0, <2>2, <2>3, <2>4, WriterKeeps DEF WriterPCs, CalculatorPCs
  <2>6. ASSUME Intact, NEW f \in Frames, Somewhere(f) PROVE Somewhere(f)'
    <3>0. f # None /\ stream = "linked" /\ pc'[Writer] \notin Unopened
      BY <2>0, <2>2, <2>4, <2>6, StepFrame, FrameNumbers, NoneAssumption DEF Unopened
    <3>1. CASE f = held[Writer]
      <4>1. Has(Put(flushed, held[Writer]), f)
        BY <3>0, <3>1, PutWrites
      <4>2. pending' = f \/ Has(content', f)
        BY <2>0, <3>1, <4>1
      <4>. QED  BY <3>0, <4>2 DEF Somewhere, Has
    <3>2. CASE f # held[Writer] /\ (pending = f \/ Has(content, f))
      <4>1. Has(flushed, f)
        BY <3>0, <3>2, PutWrites DEF flushed
      <4>2. Has(Put(flushed, held[Writer]), f)
        BY <3>0, <4>1, PutWrites
      <4>3. Has(content', f)
        BY <2>0, <4>1, <4>2
      <4>. QED  BY <3>0, <4>3 DEF Somewhere, Has
    <3>3. CASE f # held[Writer] /\ pending # f /\ ~Has(content, f)
      BY <1>0, <2>0, <2>2, <2>6, <3>3, StepFrame, Kinds DEF Somewhere, Holds, Elems
    <3>. QED  BY <3>1, <3>2, <3>3
  <2>7. TypeOK'
    BY <2>0, <2>1, <2>2, StepFrame DEF TypeOK
  <2>. QED  BY <2>2, <2>5, <2>6, <2>7, StepNoLoss
<1>7. ASSUME CloseOutput, UNCHANGED mainVars PROVE IInv'
  <2>0. /\ pc[Writer] = "drain" /\ outputQueue = <<>>
        /\ pc' = [pc EXCEPT ![Writer] = "done"]
        /\ content' = Put(content, pending)
        /\ stream' = "closed" /\ pending' = None
        /\ UNCHANGED <<held, currentConfigIndex, inputQueue, outputQueue, exists>>
    BY <1>7 DEF CloseOutput, queues
  <2>1. Step(Writer, "done")
    BY <1>0, <1>7, <2>0 DEF Step, Running, TaskPCs
  <2>2. calculationFinished /\ (Intact => stream = "linked" /\ exists')
    BY <2>0 DEF DrainOK, StreamOK, Writing
  <2>3. KindOK' /\ PoolOK' /\ JoinOK' /\ DrainOK' /\ StreamOK'
    BY <2>0, <2>1, <2>2, WriterKeeps DEF WriterPCs, CalculatorPCs, Writing
  <2>4. ASSUME Intact, NEW f \in Frames, Somewhere(f) PROVE Somewhere(f)'
    <3>a. pc'[Writer] = "done"
      BY <2>1, StepFrame
    <3>0. f # None /\ stream = "linked" /\ pc'[Writer] \notin Unopened
      BY <2>2, <2>4, <3>a, FrameNumbers, NoneAssumption DEF Unopened
    <3>1. CASE pending = f \/ Has(content, f)
      <4>1. Has(content', f)
        BY <2>0, <3>0, <3>1, PutWrites
      <4>. QED  BY <3>0, <4>1 DEF Somewhere, Has
    <3>2. CASE pending # f /\ ~Has(content, f)
      BY <1>0, <2>0, <2>1, <2>4, <3>2, StepFrame, Kinds DEF Somewhere, Holds, Elems
    <3>. QED  BY <3>1, <3>2
  <2>5. TypeOK'
    BY <2>0, <2>1, StepFrame DEF TypeOK
  <2>. QED  BY <2>1, <2>3, <2>4, <2>5, StepNoLoss
<1>8. ASSUME WriteFails PROVE IInv'
  <2>1. CASE /\ pc' = [pc EXCEPT ![Writer] = "failed"]
             /\ stream' = "closed" /\ pending' = None
             /\ UNCHANGED <<main, control, held, currentConfigIndex, queues, exists>>
             /\ Holds(Writer)
    <3>1. Step(Writer, "failed")
      BY <1>0, <2>1 DEF Step, Running, TaskPCs, Holds, mainVars
    <3>2. KindOK' /\ PoolOK' /\ JoinOK' /\ DrainOK' /\ StreamOK'
      BY <2>1, <3>1, WriterKeeps DEF WriterPCs, CalculatorPCs, Writing, queues
    <3>3. TypeOK'
      BY <2>1, <3>1, StepFrame DEF TypeOK, queues
    <3>. QED  BY <3>1, <3>2, <3>3, StepNoLoss
  <2>2. CASE /\ main' = "aborted" /\ Holds(Writer)
             /\ UNCHANGED <<control, taskVars, queues, files>>
    BY <1>0, <2>2, EndStep DEF Running, Holds
  <2>. QED  BY <1>8, <2>1, <2>2 DEF WriteFails, taskVars, files
<1>9. ASSUME CloseFails PROVE IInv'
  BY <1>0, <1>9, EndStep DEF CloseFails, Running
<1>. QED  BY <1>1, <1>3, <1>4, <1>5, <1>6, <1>7, <1>8, <1>9 DEF WriterTask

-----------------------------------------------------------------------------
(* Steps of the main thread and of the pool. *)

(* A step of the main thread that leaves the tasks and the queues alone and *)
(* does not wait; once it turns to cleaning up, NoLoss promises nothing.    *)
LEMMA MainKeeps ==
  ASSUME IInv,
         UNCHANGED <<control, poolQueue, taskVars, queues, pending>>,
         stopped' \in BOOLEAN, exists' \in BOOLEAN, stream' \in {"closed", "linked", "unlinked"},
         main' \in MainPCs \cup Ends, main' \notin {"fileSize", "join"},
         main' = "post" => main = "fileSize",
         success => main' \in {"destroy", "joinPool", "exited"},
         Intact' => Intact /\ UNCHANGED <<exists, content, stream>>
  PROVE  IInv'
<1>. USE DEF IInv
<1>1. UNCHANGED <<next, success, readingFinished, calculationFinished, poolQueue, pc,
                  held, currentConfigIndex, inputQueue, outputQueue, pending>>
  BY DEF control, taskVars, queues
<1>2. TypeOK' /\ KindOK'
  BY <1>1 DEF TypeOK, KindOK
<1>3. PoolOK'
  BY <1>1 DEF PoolOK
<1>4. JoinOK'
  BY <1>1 DEF JoinOK
<1>5. DrainOK'
  BY <1>1 DEF DrainOK
<1>6. StreamOK'
  BY <1>1 DEF StreamOK
<1>7. NoLoss'
  <2>. SUFFICES ASSUME Intact' PROVE NoLoss'
    BY DEF NoLoss
  <2>1. Intact /\ UNCHANGED <<exists, content, stream>>
    OBVIOUS
  <2>2. \A f \in Frames : Somewhere(f) => Somewhere(f)'
    BY <1>1, <2>1 DEF Somewhere, Holds, Elems, Has
  <2>. QED  BY <1>1, <2>1, <2>2 DEF NoLoss
<1>. QED  BY <1>2, <1>3, <1>4, <1>5, <1>6, <1>7

(* A task that was idle or posted moves on, but not yet to any work. *)
LEMMA NotYetWorking ==
  ASSUME IInv, NEW t \in Tasks, pc[t] \in {"idle", "posted"}, Intact' => Intact,
         NEW w \in {"posted", "open", "check"}, pc' = [pc EXCEPT ![t] = w],
         t = Writer => w # "check",
         UNCHANGED <<held, currentConfigIndex, queues, files>>
  PROVE  NoLoss'
<1>1. /\ pc'[t] = w /\ \A u \in Tasks : u # t => pc'[u] = pc[u]
      /\ UNCHANGED <<inputQueue, outputQueue, content, pending>>
  BY DEF IInv, TypeOK, queues, files
<1>2. \A f \in Frames : Somewhere(f) => Somewhere(f)'
  BY <1>1, Kinds DEF Somewhere, Holds, Elems, Has, Unopened
<1>. QED  BY <1>1, <1>2 DEF IInv, NoLoss

LEMMA StartTaskStep ==
  ASSUME IInv, StartTask
  PROVE  IInv'
<1>. DEFINE t == Head(poolQueue)
            w == IF t \in Calculators THEN "check" ELSE "open"
<1>. USE DEF IInv
<1>0. /\ UNCHANGED <<main, next, success, readingFinished, calculationFinished, stopped>>
      /\ UNCHANGED <<held, currentConfigIndex, inputQueue, outputQueue>>
      /\ UNCHANGED <<exists, content, stream, pending>>
      /\ pc' = [pc EXCEPT ![t] = w] /\ pc \in [Tasks -> TaskPCs]
      /\ poolQueue' = Tail(poolQueue)
  BY DEF StartTask, mainVars, control, queues, files, TypeOK
<1>1. /\ t \in Tasks /\ t = poolQueue[1] /\ poolQueue' \in Seq(Tasks)
      /\ Len(poolQueue) \in Nat \ {0} /\ Len(poolQueue') = Len(poolQueue) - 1
      /\ \A i \in 1 .. Len(poolQueue') : poolQueue'[i] = poolQueue[i + 1]
  <2>1. poolQueue \in Seq(Tasks) /\ poolQueue # <<>>
    BY DEF StartTask, TypeOK
  <2>. QED  BY <1>0, <2>1
<1>2. pc[t] = "posted"
  BY <1>1 DEF PoolOK
<1>. HIDE DEF t
<1>3. /\ pc'[t] = w /\ \A u \in Tasks : u # t => pc'[u] = pc[u]
      /\ Intact' <=> Intact
  BY <1>0, <1>1 DEF Intact
<1>4. TypeOK'
  BY <1>0, <1>1 DEF TypeOK, TaskPCs
<1>5. KindOK'
  BY <1>0, <1>3, Kinds DEF KindOK, ReaderPCs, CalculatorPCs, WriterPCs
<1>6. PoolOK'
  <2>1. \A i \in 1 .. Len(poolQueue') :
          /\ i + 1 \in 1 .. Len(poolQueue) /\ poolQueue[i + 1] \in Tasks
          /\ poolQueue'[i] = poolQueue[i + 1] /\ poolQueue[i + 1] # poolQueue[1]
    BY <1>1 DEF PoolOK, TypeOK
  <2>2. \A i \in 1 .. Len(poolQueue') : pc'[poolQueue'[i]] = "posted"
    BY <1>1, <1>3, <2>1 DEF PoolOK
  <2>3. ASSUME NEW i \in 1 .. Len(poolQueue'), NEW j \in 1 .. Len(poolQueue'),
               poolQueue'[i] = poolQueue'[j]
        PROVE  i = j
    <3>1. i + 1 = j + 1
      BY <2>1, <2>3 DEF PoolOK
    <3>. QED  BY <3>1
  <2>4. ASSUME main' \in {"fileSize", "post"}, NEW i \in next' .. TaskCnt
        PROVE  pc'[PostedTask(i)] = "idle"
    <3>1. next \in 1 .. TaskCnt /\ pc[PostedTask(i)] = "idle" /\ i \in 1 .. TaskCnt
      BY <1>0, <2>4, Counts DEF PoolOK
    <3>2. PostedTask(i) \in Tasks
      BY <3>1, Orders
    <3>. QED  BY <1>2, <1>3, <3>1, <3>2
  <2>. QED  BY <1>0, <2>2, <2>3, <2>4 DEF PoolOK
<1>7. JoinOK'
  <2>1. ASSUME main' = "join", NEW i \in 1 .. next' - 1
        PROVE  pc'[JoinedTask(i)] = "done"
    <3>1. i \in 1 .. TaskCnt /\ pc[JoinedTask(i)] = "done"
      BY <1>0, <2>1, Counts DEF JoinOK, TypeOK
    <3>2. JoinedTask(i) \in Tasks
      BY <3>1, Orders
    <3>. QED  BY <1>2, <1>3, <3>1, <3>2
  <2>2. \A u \in Tasks : pc[u] = "done" => pc'[u] = "done"
    BY <1>2, <1>3
  <2>. QED  BY <1>0, <2>1, <2>2, Kinds DEF JoinOK
<1>8. DrainOK'
  BY <1>0, <1>3, Kinds DEF DrainOK
<1>9. StreamOK'
  BY <1>0, <1>3, Kinds DEF StreamOK, Writing
<1>10. NoLoss'
  <2>1. w \in {"check", "open"} /\ (t = Writer => w # "check")
    BY Kinds
  <2>. HIDE DEF w
  <2>2. UNCHANGED <<held, currentConfigIndex, queues, files>>
    BY <1>0 DEF queues, files
  <2>. QED  BY <1>0, <1>1, <1>2, <1>3, <2>1, <2>2, NotYetWorking
<1>. QED  BY <1>4, <1>5, <1>6, <1>7, <1>8, <1>9, <1>10

LEMMA PostTaskStep ==
  ASSUME IInv, PostTask
  PROVE  IInv'
<1>. DEFINE t == PostedTask(next)
<1>. USE DEF IInv
<1>0. /\ main = "post" /\ next \in 1 .. TaskCnt /\ ~readingFinished /\ ~calculationFinished
      /\ UNCHANGED <<success, readingFinished, calculationFinished, stopped>>
      /\ UNCHANGED <<held, currentConfigIndex, inputQueue, outputQueue>>
      /\ UNCHANGED <<exists, content, stream, pending>>
      /\ pc' = [pc EXCEPT ![t] = "posted"] /\ pc \in [Tasks -> TaskPCs]
      /\ poolQueue' = Append(poolQueue, t) /\ poolQueue \in Seq(Tasks)
      /\ \/ next < TaskCnt /\ next' = next + 1 /\ main' = main
         \/ next = TaskCnt /\ next' = 1 /\ main' = "join"
  BY DEF PostTask, Goto, queues, files, TypeOK, PoolOK
<1>1. t \in Tasks /\ pc[t] = "idle" /\ ~success
  BY <1>0, Orders, Counts DEF PoolOK, JoinOK
<1>2. /\ Len(poolQueue) \in Nat /\ Len(poolQueue') = Len(poolQueue) + 1
      /\ \A i \in 1 .. Len(poolQueue) : poolQueue'[i] = poolQueue[i] /\ poolQueue[i] \in Tasks
      /\ poolQueue'[Len(poolQueue) + 1] = t /\ poolQueue' \in Seq(Tasks)
  BY <1>0, <1>1
<1>3. /\ pc'[t] = "posted" /\ \A u \in Tasks : u # t => pc'[u] = pc[u]
      /\ Intact
  BY <1>0, <1>1 DEF Intact
<1>4. TypeOK'
  <2>1. next' \in 1 .. TaskCnt + 1 /\ main' \in MainPCs \cup Ends
    BY <1>0, Counts DEF MainPCs
  <2>2. pc' \in [Tasks -> TaskPCs]
    BY <1>0 DEF TaskPCs
  <2>. QED  BY <1>0, <1>2, <2>1, <2>2 DEF TypeOK
<1>5. KindOK'
  BY <1>0, <1>3, Kinds DEF KindOK, ReaderPCs, CalculatorPCs, WriterPCs
<1>6. PoolOK'
  <2>1. \A i \in 1 .. Len(poolQueue) : poolQueue[i] # t /\ pc'[poolQueue[i]] = "posted"
    BY <1>1, <1>2, <1>3 DEF PoolOK
  <2>2. \A i \in 1 .. Len(poolQueue') : i \in 1 .. Len(poolQueue) \/ i = Len(poolQueue) + 1
    BY <1>2
  <2>3. \A i \in 1 .. Len(poolQueue') : pc'[poolQueue'[i]] = "posted"
    BY <1>2, <1>3, <2>1, <2>2
  <2>4. \A i, j \in 1 .. Len(poolQueue') : poolQueue'[i] = poolQueue'[j] => i = j
    BY <1>2, <2>1, <2>2 DEF PoolOK
  <2>5. ASSUME main' \in {"fileSize", "post"}
        PROVE  /\ next' \in 1 .. TaskCnt
               /\ \A i \in next' .. TaskCnt : pc'[PostedTask(i)] = "idle"
    <3>1. next < TaskCnt /\ next' = next + 1
      BY <1>0, <2>5
    <3>2. ASSUME NEW i \in next' .. TaskCnt PROVE pc'[PostedTask(i)] = "idle"
      <4>1. i \in next .. TaskCnt /\ i \in 1 .. TaskCnt /\ i # next
        BY <1>0, <3>1, Counts
      <4>2. pc[PostedTask(i)] = "idle" /\ PostedTask(i) \in Tasks /\ PostedTask(i) # t
        BY <1>0, <4>1, Orders DEF PoolOK
      <4>. QED  BY <1>3, <4>2
    <3>. QED  BY <1>0, <3>1, <3>2, Counts
  <2>. QED  BY <1>0, <2>3, <2>4, <2>5 DEF PoolOK
<1>7. JoinOK'
  BY <1>0, <1>1 DEF JoinOK
<1>8. DrainOK'
  BY <1>0, <1>3, Kinds DEF DrainOK
<1>9. StreamOK'
  BY <1>0, <1>3, Kinds DEF StreamOK, Writing
<1>10. NoLoss'
  BY <1>0, <1>1, <1>3, NotYetWorking DEF queues, files
<1>. QED  BY <1>4, <1>5, <1>6, <1>7, <1>8, <1>9, <1>10

LEMMA JoinTaskStep ==
  ASSUME IInv, JoinTask
  PROVE  IInv'
<1>. USE DEF IInv
<1>0. /\ main = "join" /\ next \in 1 .. TaskCnt /\ pc[JoinedTask(next)] = "done"
      /\ next' = next + 1
      /\ readingFinished' = (next >= ReadCnt)
      /\ calculationFinished' = (next >= ReadCnt + CalcCnt)
      /\ success' = (next = TaskCnt)
      /\ main' = IF next = TaskCnt THEN "destroy" ELSE "join"
      /\ UNCHANGED <<poolQueue, stopped, pc, held, currentConfigIndex>>
      /\ UNCHANGED <<inputQueue, outputQueue, exists, content, stream, pending>>
  BY Counts DEF JoinTask, TypeOK, poolVars, taskVars, queues, files
<1>1. \A i \in 1 .. next : pc[JoinedTask(i)] = "done"
  BY <1>0, Counts DEF JoinOK
<1>a. /\ readingFinished' <=> next >= ReadCnt
      /\ calculationFinished' <=> next >= ReadCnt + CalcCnt
      /\ success' <=> next = TaskCnt
  BY <1>0
<1>2. Intact /\ (readingFinished => readingFinished')
      /\ (calculationFinished => calculationFinished')
  <2>1. readingFinished => next > ReadCnt
    BY DEF JoinOK
  <2>2. calculationFinished => next > ReadCnt + CalcCnt
    BY DEF JoinOK
  <2>3. Intact
    BY <1>0 DEF Intact
  <2>. QED  BY <1>0, <1>a, <2>1, <2>2, <2>3, Counts
<1>3. TypeOK'
  <2>1. next' \in 1 .. TaskCnt + 1 /\ main' \in MainPCs
    BY <1>0, Counts DEF MainPCs
  <2>2. /\ success' \in BOOLEAN /\ readingFinished' \in BOOLEAN
        /\ calculationFinished' \in BOOLEAN
    BY <1>0
  <2>. QED  BY <1>0, <2>1, <2>2 DEF TypeOK
<1>4. KindOK' /\ PoolOK'
  BY <1>0 DEF KindOK, PoolOK
<1>5. JoinOK'
  <2>1. \A i \in 1 .. next' - 1 : pc'[JoinedTask(i)] = "done"
    BY <1>0, <1>1
  <2>2. ASSUME readingFinished'
        PROVE  next' > ReadCnt /\ \A t \in Readers : pc'[t] = "done"
    <3>1. next >= ReadCnt
      BY <1>a, <2>2
    <3>. QED  BY <1>0, <1>1, <3>1, Orders, Counts
  <2>3. ASSUME calculationFinished'
        PROVE  /\ next' > ReadCnt + CalcCnt /\ readingFinished'
               /\ \A t \in Calculators : pc'[t] = "done"
    <3>1. next >= ReadCnt + CalcCnt
      BY <1>a, <2>3
    <3>2. next >= ReadCnt /\ next' > ReadCnt + CalcCnt
      BY <1>0, <3>1, Counts
    <3>3. readingFinished'
      BY <1>a, <3>2
    <3>4. \A t \in Calculators : pc[t] = "done"
      BY <1>0, <1>1, <3>1, Orders, Counts
    <3>. QED  BY <1>0, <3>2, <3>3, <3>4
  <2>4. ASSUME success'
        PROVE  calculationFinished' /\ pc'[Writer] = "done" /\ main' = "destroy"
    <3>1. next = TaskCnt
      BY <1>a, <2>4
    <3>2. next >= ReadCnt + CalcCnt /\ pc'[Writer] = "done" /\ main' = "destroy"
      BY <1>0, <3>1, Orders, Counts
    <3>. QED  BY <1>a, <3>2
  <2>. QED  BY <2>1, <2>2, <2>3, <2>4 DEF JoinOK
<1>6. DrainOK'
  BY <1>0, <1>2 DEF DrainOK
<1>7. StreamOK'
  BY <1>0, <1>2 DEF StreamOK
<1>8. \A f \in Frames : Somewhere(f) => Somewhere(f)'
  BY <1>0 DEF Somewhere, Holds, Elems, Has
<1>9. NoLoss'
  BY <1>0, <1>2, <1>8 DEF NoLoss
<1>. QED  BY <1>3, <1>4, <1>5, <1>6, <1>7, <1>9

LEMMA MainStep ==
  ASSUME IInv, Main
  PROVE  IInv'
<1>. USE DEF IInv
<1>0. exists \in BOOLEAN /\ stopped \in BOOLEAN /\ stream \in {"closed", "linked", "unlinked"}
  BY DEF TypeOK
<1>1. main \notin {"destroy", "joinPool"} => ~success \/ main = "exited"
  BY DEF JoinOK
<1>2. CASE GetFileSize
  <2>1. CASE main' = "post"
    BY <1>0, <1>1, <1>2, <2>1, MainKeeps DEF GetFileSize, poolVars, files, Intact, MainPCs
  <2>2. CASE main' = "stop"
    BY <1>0, <1>1, <1>2, <2>2, MainKeeps DEF GetFileSize, poolVars, files, Intact, MainPCs, control
  <2>. QED  BY <1>2, <2>1, <2>2 DEF GetFileSize
<1>3. CASE PostTask
  BY <1>3, PostTaskStep
<1>4. CASE JoinTask
  BY <1>4, JoinTaskStep
<1>5. CASE JoinThrows
  BY <1>0, <1>1, <1>5, MainKeeps DEF JoinThrows, poolVars, files, Intact, MainPCs, control
<1>6. CASE StopPool
  BY <1>0, <1>1, <1>6, MainKeeps DEF StopPool, files, Intact, MainPCs, control
<1>7. CASE RestoreOutput
  <2>1. stream' \in {"closed", "linked", "unlinked"} /\ exists' \in BOOLEAN
    BY <1>0, <1>7 DEF RestoreOutput
  <2>2. /\ UNCHANGED <<control, poolQueue, taskVars, queues, pending>> /\ stopped' \in BOOLEAN
        /\ main' = "destroy" /\ main = "restore"
    BY <1>0, <1>7 DEF RestoreOutput, poolVars
  <2>3. ~Intact'
    BY <1>1, <2>2 DEF Intact, control
  <2>. QED  BY <1>1, <2>1, <2>2, <2>3, MainKeeps DEF MainPCs
<1>8. CASE DestroyMembers
  BY <1>0, <1>8, MainKeeps DEF DestroyMembers, files, Intact, MainPCs, control
<1>9. CASE JoinPool
  BY <1>0, <1>9, MainKeeps DEF JoinPool, poolVars, files, Intact, Ends, control
<1>. QED  BY <1>2, <1>3, <1>4, <1>5, <1>6, <1>7, <1>8, <1>9 DEF Main

-----------------------------------------------------------------------------
LEMMA InitIInv == Init => IInv
<1>. SUFFICES ASSUME Init PROVE IInv
  OBVIOUS
<1>0. /\ main = "fileSize" /\ next = 1
      /\ success = FALSE /\ readingFinished = FALSE /\ calculationFinished = FALSE
      /\ poolQueue = <<>> /\ currentConfigIndex = 0
      /\ \A t \in Tasks : pc[t] = "idle" /\ held[t] = None
  BY DEF Init
<1>1. TypeOK
  <2>1. pc \in [Tasks -> TaskPCs] /\ held \in [Tasks -> Frames \cup {None}]
    BY DEF Init, TaskPCs
  <2>2. next \in 1 .. TaskCnt + 1 /\ main \in MainPCs
    BY <1>0, Counts DEF MainPCs
  <2>3. poolQueue \in Seq(Tasks) /\ inputQueue \in Seq(Frames) /\ outputQueue \in Seq(Frames)
    BY DEF Init
  <2>. QED  BY <2>1, <2>2, <2>3, InputAssumption DEF Init, TypeOK
<1>2. KindOK
  BY <1>0, Kinds DEF KindOK, ReaderPCs, CalculatorPCs, WriterPCs
<1>3. PoolOK
  <2>1. Len(poolQueue) = 0
    BY <1>0
  <2>2. \A i \in next .. TaskCnt : pc[PostedTask(i)] = "idle"
    BY <1>0, Orders
  <2>. QED  BY <1>0, <2>1, <2>2, Counts DEF PoolOK
<1>4. JoinOK
  BY <1>0 DEF JoinOK
<1>5. DrainOK
  BY <1>0, Kinds DEF DrainOK
<1>6. StreamOK
  BY <1>0, Kinds DEF StreamOK, Writing
<1>7. NoLoss
  BY <1>0, FrameNumbers DEF NoLoss, Somewhere
<1>. QED  BY <1>1, <1>2, <1>3, <1>4, <1>5, <1>6, <1>7 DEF IInv

LEMMA NextIInv == IInv /\ [Next]_vars => IInv'
<1>. SUFFICES ASSUME IInv, [Next]_vars PROVE IInv'
  OBVIOUS
<1>1. CASE UNCHANGED vars
  <2>1. /\ UNCHANGED <<main, next, success, readingFinished, calculationFinished, poolQueue>>
        /\ UNCHANGED <<stopped, pc, held, currentConfigIndex, inputQueue, outputQueue>>
        /\ UNCHANGED <<exists, content, stream, pending>>
    BY <1>1 DEF vars, mainVars, control, poolVars, taskVars, queues, files
  <2>2. TypeOK'
    BY <2>1 DEF IInv, TypeOK
  <2>4. KindOK' /\ PoolOK' /\ JoinOK' /\ DrainOK'
    BY <2>1 DEF IInv, KindOK, PoolOK, JoinOK, DrainOK
  <2>3. StreamOK' /\ NoLoss'
    BY <2>1 DEF IInv, StreamOK, NoLoss, Intact, Somewhere, Holds, Elems, Has
  <2>. QED  BY <2>2, <2>3, <2>4 DEF IInv
<1>2. CASE Main
  BY <1>2, MainStep
<1>3. CASE StartTask
  BY <1>3, StartTaskStep
<1>4. ASSUME NEW t \in Readers, Reader(t) PROVE IInv'
  BY <1>4, ReaderStep
<1>5. ASSUME NEW t \in Calculators, Calculator(t) PROVE IInv'
  BY <1>5, CalculatorStep
<1>6. CASE WriterTask
  BY <1>6, WriterStep
<1>7. ASSUME NEW t \in Tasks, UseDestroyedMember(t) PROVE IInv'
  BY <1>7, EndStep DEF UseDestroyedMember
<1>. QED  BY <1>1, <1>2, <1>3, <1>4, <1>5, <1>6, <1>7 DEF Next, Terminated

(* The invariant holds in every state of every run. *)
LEMMA InvariantHolds == Spec => []IInv
<1>. QED  BY InitIInv, NextIInv, PTL DEF Spec

(* With every stage over and nobody failed, the file is the only place a  *)
(* frame can be in.                                                       *)
LEMMA SignedWhenJoined == IInv => SuccessMeansSigned
<1>. SUFFICES ASSUME IInv, success PROVE exists /\ Signed
  BY DEF SuccessMeansSigned
<1>1. /\ \A t \in Readers : pc[t] = "done"
      /\ \A t \in Calculators : pc[t] = "done"
      /\ pc[Writer] = "done"
  BY DEF IInv, JoinOK
<1>2. /\ currentConfigIndex \in Nat \ Frames
      /\ inputQueue = <<>> /\ outputQueue = <<>> /\ pending = None
  BY <1>1, Kinds DEF IInv, DrainOK, TypeOK
<1>3. exists
  BY <1>1 DEF IInv, StreamOK, Intact
<1>4. ASSUME NEW f \in Frames PROVE Has(content, f)
  <2>1. Somewhere(f)
    BY <1>1, Kinds DEF IInv, NoLoss, Intact
  <2>2. ~(currentConfigIndex <= f) /\ f # None
    BY <1>2, FrameNumbers, NoneAssumption
  <2>3. Elems(inputQueue) = {} /\ Elems(outputQueue) = {}
    BY <1>2 DEF Elems
  <2>. QED  BY <1>1, <1>2, <2>1, <2>2, <2>3 DEF Somewhere, Holds
<1>5. Signed
  BY <1>4, BlocksInFrames DEF Signed, Has
<1>. QED  BY <1>3, <1>5

(* The state keeps its types: in particular a task never pushes a frame it *)
(* does not hold, and the main thread never waits beyond the last task.    *)
THEOREM TypeCorrect == Spec => []TypeOK
<1>1. IInv => TypeOK
  BY DEF IInv
<1>. QED  BY <1>1, InvariantHolds, PTL

(* When success_ is set, the signature is complete in the file, for every *)
(* size of the file, of the blocks and of the queues, every number of     *)
(* threads and every combination of the modelled failures.                *)
THEOREM SuccessIsTrue == Spec => []SuccessMeansSigned
<1>. QED  BY SignedWhenJoined, InvariantHolds, PTL

-----------------------------------------------------------------------------
(* The bytes the output file had before. *)

(* Frames have no blocks before the first one, so CRCs go behind the old   *)
(* bytes.                                                                  *)
LEMMA PositionsBehind == \A f \in Frames : \A p \in Positions(f) : ~(p \in 0 .. OriginalSize - 1)
<1>. SUFFICES ASSUME NEW f \in Frames, NEW b \in BlocksOf(f)
              PROVE  ~(OriginalSize + b \in 0 .. OriginalSize - 1)
  BY DEF Positions
<1>1. FileSize # 0
  BY DEF Frames, dataFramesInFile
<1>2. b \in Blocks /\ b \in Nat
  BY <1>1, InputAssumption, BlocksPartitionedAlways DEF Blocks, Frames, BlocksOf
<1>. QED  BY <1>2, InputAssumption

LEMMA PutKeepsPrefix ==
  ASSUME NEW c, NEW f \in Frames \cup {None}, NEW p \in 0 .. OriginalSize - 1,
         p \in DOMAIN c, c[p] = OldByte
  PROVE  p \in DOMAIN Put(c, f) /\ Put(c, f)[p] = OldByte
<1>1. CASE f = None \/ stream # "linked"
  BY <1>1 DEF Put
<1>2. CASE f \in Frames /\ f # None /\ stream = "linked"
  <2>1. p \notin Positions(f)
    BY <1>2, PositionsBehind
  <2>. QED  BY <1>2, <2>1 DEF Put
<1>. QED  BY <1>1, <1>2

LEMMA PrefixStep ==
  TypeOK /\ OriginalPrefixPreserved /\ [Next]_vars => OriginalPrefixPreserved'
<1>. SUFFICES ASSUME TypeOK, OriginalPrefixPreserved, [Next]_vars, content' # content,
                     NEW p \in 0 .. OriginalSize - 1
              PROVE  p \in DOMAIN content' /\ content'[p] = OldByte
  BY DEF OriginalPrefixPreserved
<1>0. /\ p \in DOMAIN content /\ content[p] = OldByte
      /\ pending \in Frames \cup {None} /\ held[Writer] \in Frames \cup {None}
      /\ OutputExisted
  BY Kinds, InputAssumption DEF OriginalPrefixPreserved, TypeOK
<1>1. OpenOutput \/ WriteFrame \/ WriteFails \/ CloseOutput \/ RestoreOutput
  <2>1. ~Terminated /\ ~UNCHANGED vars /\ ~StartTask
    BY DEF Terminated, vars, files, StartTask
  <2>2. \A t : ~Reader(t) /\ ~Calculator(t) /\ ~UseDestroyedMember(t)
    BY DEF Reader, OpenInput, FetchFrame, PushFrame, Calculator, CheckProducer, TakeInput,
           TakeFrame, TimeOut, CalculateAndPush, CalculationFails, InputDrained,
           UseDestroyedMember, files
  <2>3. Main => RestoreOutput
    BY DEF Main, GetFileSize, PostTask, JoinTask, JoinThrows, StopPool, DestroyMembers,
           JoinPool, files
  <2>4. WriterTask => OpenOutput \/ WriteFrame \/ WriteFails \/ CloseOutput
    BY DEF WriterTask, CheckProducer, TakeOutput, TakeFrame, TimeOut, CloseFails, files
  <2>. QED  BY <2>1, <2>2, <2>3, <2>4 DEF Next
<1>2. p \in DOMAIN Put(content, pending) /\ Put(content, pending)[p] = OldByte
  BY <1>0, PutKeepsPrefix
<1>3. CASE OpenOutput
  BY <1>0, <1>3 DEF OpenOutput
<1>4. CASE WriteFrame
  <2>1. /\ p \in DOMAIN Put(Put(content, pending), held[Writer])
        /\ Put(Put(content, pending), held[Writer])[p] = OldByte
    BY <1>0, <1>2, PutKeepsPrefix
  <2>. QED  BY <1>2, <1>4, <2>1 DEF WriteFrame
<1>5. CASE WriteFails
  BY <1>0, <1>2, <1>5 DEF WriteFails
<1>6. CASE CloseOutput
  BY <1>2, <1>6 DEF CloseOutput
<1>7. CASE RestoreOutput
  BY <1>0, <1>7 DEF RestoreOutput
<1>. QED  BY <1>1, <1>3, <1>4, <1>5, <1>6, <1>7

(* The bytes the output file had before the run are there after it,       *)
(* however the run goes.                                                  *)
THEOREM PrefixIsPreserved == Spec => []OriginalPrefixPreserved
<1>1. Init => OriginalPrefixPreserved
  BY DEF Init, Original, OriginalPrefixPreserved
<1>. QED  BY <1>1, PrefixStep, TypeCorrect, PTL DEF Spec
=============================================================================
