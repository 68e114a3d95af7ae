------------------------- MODULE PipelineFlowProofs -------------------------
(***************************************************************************)
(* How frames flow: none is ever in two places, and a flag that is set     *)
(* means that the stage before it has nothing in its hands, for all sizes, *)
(* numbers of threads and failures.                                        *)
(*                                                                         *)
(* OneCopy counts; the invariant Alone says the same without numbers, and  *)
(* that only frames below the shared index are on their way, which makes   *)
(* the frame fetched next a new one.                                       *)
(*                                                                         *)
(* If only the writer fails, the tasks have nothing left to do when main   *)
(* knows of it: the output is restored for good, no task outlives what it  *)
(* uses, and the pipeline implements SignatureFile.                        *)
(***************************************************************************)
EXTENDS PipelineProofs, FiniteSetTheorems

Distinct(queue) == \A i, j \in 1 .. Len(queue) : queue[i] = queue[j] => i = j

Queued == Elems(inputQueue) \cup Elems(outputQueue)

(* No frame is in two hands, or twice in the queues, or in both, or also   *)
(* in the buffer of the stream.                                            *)
Alone ==
  /\ \A t, u \in Tasks : held[t] = held[u] /\ held[t] # None => t = u
  /\ Distinct(inputQueue) /\ Distinct(outputQueue)
  /\ Elems(inputQueue) \cap Elems(outputQueue) = {}
  /\ \A t \in Tasks : held[t] \notin Queued
  /\ pending # None => pending \notin Queued /\ \A t \in Tasks : held[t] # pending

(* Frames on their way have been fetched. *)
Fetched ==
  /\ \A f \in Queued : f < currentConfigIndex
  /\ \A t \in Tasks : held[t] # None => held[t] < currentConfigIndex
  /\ pending # None => pending < currentConfigIndex

Flow == TypeOK /\ Alone /\ Fetched

(* Only a task at these places may have a frame in its hands. *)
HandsOK ==
  \A t \in Tasks : held[t] # None => pc[t] \in {"push", "waitHold", "drainHold", "failed"}

-----------------------------------------------------------------------------
LEMMA AppendDistinct ==
  ASSUME NEW S, NEW q \in Seq(S), NEW x \in S, Distinct(q), x \notin Elems(q)
  PROVE  Distinct(Append(q, x))
<1>1. Len(Append(q, x)) = Len(q) + 1 /\ Len(q) \in Nat
  OBVIOUS
<1>2. \A i \in 1 .. Len(q) : Append(q, x)[i] = q[i] /\ q[i] # x
  BY DEF Elems
<1>3. Append(q, x)[Len(q) + 1] = x
  OBVIOUS
<1>. QED  BY <1>1, <1>2, <1>3 DEF Distinct

LEMMA TailDistinct ==
  ASSUME NEW S, NEW q \in Seq(S), q # <<>>, Distinct(q)
  PROVE  Distinct(Tail(q)) /\ Head(q) \notin Elems(Tail(q))
<1>1. Len(Tail(q)) = Len(q) - 1 /\ Len(q) \in Nat \ {0} /\ Head(q) = q[1]
  OBVIOUS
<1>2. \A i \in 1 .. Len(Tail(q)) : Tail(q)[i] = q[i + 1] /\ i + 1 \in 1 .. Len(q)
  BY <1>1
<1>3. ASSUME NEW i \in 1 .. Len(Tail(q)), NEW j \in 1 .. Len(Tail(q)), Tail(q)[i] = Tail(q)[j]
      PROVE  i = j
  <2>1. q[i + 1] = q[j + 1] /\ i + 1 \in 1 .. Len(q) /\ j + 1 \in 1 .. Len(q)
    BY <1>2, <1>3
  <2>2. i + 1 = j + 1
    BY <2>1 DEF Distinct
  <2>. QED  BY <2>2
<1>4. ASSUME NEW i \in 1 .. Len(Tail(q)), Tail(q)[i] = Head(q)
      PROVE  FALSE
  <2>1. q[i + 1] = q[1] /\ i + 1 \in 1 .. Len(q) /\ 1 \in 1 .. Len(q)
    BY <1>1, <1>2, <1>4
  <2>2. i + 1 = 1
    BY <2>1 DEF Distinct
  <2>. QED  BY <2>2
<1>. QED  BY <1>3, <1>4 DEF Distinct, Elems

LEMMA ElemsInFrames ==
  ASSUME TypeOK
  PROVE  /\ Elems(inputQueue) \subseteq Frames /\ Elems(outputQueue) \subseteq Frames
         /\ None \notin Queued /\ None \notin Frames
<1>1. Elems(inputQueue) \subseteq Frames /\ Elems(outputQueue) \subseteq Frames
  BY DEF TypeOK, Elems
<1>. QED  BY <1>1, FrameNumbers, NoneAssumption DEF Queued

-----------------------------------------------------------------------------
(* The steps that move a frame. *)

LEMMA FetchFlow ==
  ASSUME Flow, NEW t \in Readers, Reader(t), FetchFrame(t)
  PROVE  Alone' /\ Fetched'
<1>0. /\ UNCHANGED <<inputQueue, outputQueue, pending>> /\ t \in Tasks
      /\ currentConfigIndex' = currentConfigIndex + 1 /\ currentConfigIndex \in Nat
  BY Kinds DEF FetchFrame, queues, files, Flow, TypeOK
<1>1. Queued' = Queued /\ Queued \subseteq Nat
  BY <1>0, ElemsInFrames, FrameNumbers DEF Queued, Elems, Flow
<1>2. /\ \A u \in Tasks : held[u] # None => held[u] \in Nat
      /\ pending # None => pending \in Nat
  BY FrameNumbers DEF Flow, TypeOK
<1>3. CASE held' = held
  <2>1. Alone'
    BY <1>0, <1>1, <1>3 DEF Flow, Alone, Distinct, Elems
  <2>2. Fetched'
    BY <1>0, <1>1, <1>2, <1>3 DEF Flow, Fetched
  <2>. QED  BY <2>1, <2>2
<1>4. CASE currentConfigIndex \in Frames /\ held' = [held EXCEPT ![t] = currentConfigIndex]
  <2>1. /\ held'[t] = currentConfigIndex
        /\ \A u \in Tasks : u # t => held'[u] = held[u]
    BY <1>0, <1>4 DEF Flow, TypeOK
  <2>2. /\ currentConfigIndex \notin Queued
        /\ \A u \in Tasks : held[u] # currentConfigIndex
        /\ pending # currentConfigIndex
        /\ currentConfigIndex # None
    BY <1>0, <1>1, <1>2, NoneAssumption DEF Flow, Fetched
  <2>3. Alone'
    <3>1. /\ Distinct(inputQueue)' /\ Distinct(outputQueue)'
      BY <1>0 DEF Flow, Alone, Distinct
    <3>5. /\ Elems(inputQueue)' = Elems(inputQueue)
          /\ Elems(outputQueue)' = Elems(outputQueue)
      BY <1>0 DEF Elems
    <3>6. Elems(inputQueue)' \cap Elems(outputQueue)' = {}
      BY <3>5 DEF Flow, Alone
    <3>2. \A u, v \in Tasks : held'[u] = held'[v] /\ held'[u] # None => u = v
      BY <2>1, <2>2 DEF Flow, Alone
    <3>3. \A u \in Tasks : held'[u] \notin Queued'
      BY <1>1, <2>1, <2>2 DEF Flow, Alone
    <3>4. pending' # None => pending' \notin Queued' /\ \A u \in Tasks : held'[u] # pending'
      BY <1>0, <1>1, <2>1, <2>2 DEF Flow, Alone
    <3>. QED  BY <3>1, <3>2, <3>3, <3>4, <3>6 DEF Alone
  <2>4. Fetched'
    BY <1>0, <1>1, <1>2, <2>1 DEF Flow, Fetched
  <2>. QED  BY <2>3, <2>4
<1>. QED  BY <1>3, <1>4 DEF FetchFrame

(* From a hand into a queue. *)
LEMMA PushFlow ==
  ASSUME Flow, NEW t \in Tasks, held[t] \in Frames,
         held' = [held EXCEPT ![t] = None],
         \/ inputQueue' = Append(inputQueue, held[t]) /\ outputQueue' = outputQueue
         \/ outputQueue' = Append(outputQueue, held[t]) /\ inputQueue' = inputQueue,
         UNCHANGED <<currentConfigIndex, pending>>
  PROVE  Alone' /\ Fetched'
<1>1. /\ held'[t] = None /\ held[t] # None /\ held[t] \notin Queued
      /\ \A u \in Tasks : u # t => held'[u] = held[u]
  <2>1. held \in [Tasks -> Frames \cup {None}]
    BY DEF Flow, TypeOK
  <2>2. held[t] # None
    BY NoneAssumption, FrameNumbers
  <2>3. held[t] \notin Queued
    BY DEF Flow, Alone
  <2>. QED  BY <2>1, <2>2, <2>3
<1>0. inputQueue \in Seq(Frames) /\ outputQueue \in Seq(Frames)
  BY DEF Flow, TypeOK
<1>2. Distinct(inputQueue') /\ Distinct(outputQueue')
  <2>1. /\ Distinct(inputQueue) /\ Distinct(outputQueue)
        /\ held[t] \notin Elems(inputQueue) /\ held[t] \notin Elems(outputQueue)
    BY <1>1 DEF Flow, Alone, Queued
  <2>2. Distinct(Append(inputQueue, held[t])) /\ Distinct(Append(outputQueue, held[t]))
    BY <1>0, <2>1, AppendDistinct
  <2>. QED  BY <2>1, <2>2
<1>3. \/ /\ Elems(inputQueue') = Elems(inputQueue) \cup {held[t]}
         /\ Elems(outputQueue') = Elems(outputQueue)
      \/ /\ Elems(outputQueue') = Elems(outputQueue) \cup {held[t]}
         /\ Elems(inputQueue') = Elems(inputQueue)
  <2>1. /\ Elems(Append(inputQueue, held[t])) = Elems(inputQueue) \cup {held[t]}
        /\ Elems(Append(outputQueue, held[t])) = Elems(outputQueue) \cup {held[t]}
    BY <1>0, ElemsAppend
  <2>. QED  BY <2>1
<1>4. Queued' = Queued \cup {held[t]} /\ None \notin Queued
  BY <1>3, ElemsInFrames DEF Queued, Elems, Flow
<1>5. Elems(inputQueue)' \cap Elems(outputQueue)' = {}
  BY <1>1, <1>3 DEF Flow, Alone, Queued, Elems
<1>6. \A u \in Tasks : held'[u] \notin Queued'
  BY <1>1, <1>4 DEF Flow, Alone
<1>7. pending' # None => pending' \notin Queued' /\ \A u \in Tasks : held'[u] # pending'
  BY <1>1, <1>4 DEF Flow, Alone
<1>8. Alone'
  BY <1>1, <1>2, <1>5, <1>6, <1>7 DEF Flow, Alone
<1>9. Fetched'
  BY <1>1, <1>4 DEF Flow, Fetched
<1>. QED  BY <1>8, <1>9

(* The head of a queue goes into a hand, or is lost with its task. *)
LEMMA PopFlow ==
  ASSUME Flow, NEW t \in Tasks, NEW x, x \in {Head(inputQueue), Head(outputQueue)},
         \/ /\ inputQueue # <<>> /\ x = Head(inputQueue)
            /\ inputQueue' = Tail(inputQueue) /\ outputQueue' = outputQueue
         \/ /\ outputQueue # <<>> /\ x = Head(outputQueue)
            /\ outputQueue' = Tail(outputQueue) /\ inputQueue' = inputQueue,
         held' = held \/ held' = [held EXCEPT ![t] = x],
         UNCHANGED <<currentConfigIndex, pending>>
  PROVE  Alone' /\ Fetched'
<1>1. /\ inputQueue \in Seq(Frames) /\ outputQueue \in Seq(Frames)
      /\ Distinct(inputQueue) /\ Distinct(outputQueue)
  BY DEF Flow, TypeOK, Alone
<1>2. inputQueue # <<>> =>
        /\ Elems(inputQueue) = {Head(inputQueue)} \cup Elems(Tail(inputQueue))
        /\ Distinct(Tail(inputQueue)) /\ Head(inputQueue) \notin Elems(Tail(inputQueue))
  BY <1>1, ElemsTail, TailDistinct
<1>3. outputQueue # <<>> =>
        /\ Elems(outputQueue) = {Head(outputQueue)} \cup Elems(Tail(outputQueue))
        /\ Distinct(Tail(outputQueue)) /\ Head(outputQueue) \notin Elems(Tail(outputQueue))
  BY <1>1, ElemsTail, TailDistinct
<1>4. Distinct(inputQueue') /\ Distinct(outputQueue')
  BY <1>1, <1>2, <1>3
<1>5. \/ /\ Elems(inputQueue) = {x} \cup Elems(inputQueue') /\ x \notin Elems(inputQueue')
         /\ Elems(outputQueue') = Elems(outputQueue)
      \/ /\ Elems(outputQueue) = {x} \cup Elems(outputQueue') /\ x \notin Elems(outputQueue')
         /\ Elems(inputQueue') = Elems(inputQueue)
  BY <1>2, <1>3
<1>6. /\ Queued = Queued' \cup {x} /\ x \notin Queued'
      /\ Elems(inputQueue)' \cap Elems(outputQueue)' = {}
  BY <1>5 DEF Flow, Alone, Queued, Elems
<1>7. \A u \in Tasks : held'[u] = held[u] \/ (u = t /\ held'[u] = x)
  BY DEF Flow, TypeOK
<1>8. /\ \A u \in Tasks : held[u] # x
      /\ pending # x \/ pending = None
      /\ x # None
  BY <1>6, ElemsInFrames DEF Flow, Alone
<1>9. Alone'
  <2>1. \A u, v \in Tasks : held'[u] = held'[v] /\ held'[u] # None => u = v
    BY <1>7, <1>8 DEF Flow, Alone
  <2>2. \A u \in Tasks : held'[u] \notin Queued'
    BY <1>6, <1>7 DEF Flow, Alone
  <2>3. pending' # None => pending' \notin Queued' /\ \A u \in Tasks : held'[u] # pending'
    BY <1>6, <1>7, <1>8 DEF Flow, Alone
  <2>. QED  BY <1>4, <1>6, <2>1, <2>2, <2>3 DEF Alone
<1>10. Fetched'
  BY <1>6, <1>7 DEF Flow, Fetched
<1>. QED  BY <1>9, <1>10

(* The writer's frame goes into the buffer or the file; what was in the   *)
(* buffer goes into the file, or is lost with it.                         *)
LEMMA WriteFlow ==
  ASSUME Flow,
         UNCHANGED <<currentConfigIndex, inputQueue, outputQueue>>,
         \/ held' = held /\ pending' \in {pending, None}
         \/ /\ held' = [held EXCEPT ![Writer] = None]
            /\ pending' \in {held[Writer], None}
  PROVE  Alone' /\ Fetched'
<1>1. Queued' = Queued /\ None \notin Queued
  BY ElemsInFrames DEF Queued, Elems, Flow
<1>2. \A u \in Tasks : held'[u] = held[u] \/ held'[u] = None
  BY DEF Flow, TypeOK
<1>3. pending' # None => \/ pending' = pending
                         \/ pending' = held[Writer] /\ held'[Writer] = None
  BY Kinds DEF Flow, TypeOK
<1>4. pending' # None => pending' \notin Queued' /\ \A u \in Tasks : held'[u] # pending'
  BY <1>1, <1>2, <1>3, Kinds DEF Flow, Alone
<1>5. Alone'
  <2>1. \A u, v \in Tasks : held'[u] = held'[v] /\ held'[u] # None => u = v
    BY <1>2 DEF Flow, Alone
  <2>2. /\ Distinct(inputQueue)' /\ Distinct(outputQueue)'
        /\ Elems(inputQueue)' \cap Elems(outputQueue)' = {}
    BY DEF Flow, Alone, Distinct, Elems
  <2>3. \A u \in Tasks : held'[u] \notin Queued'
    BY <1>1, <1>2 DEF Flow, Alone
  <2>. QED  BY <1>4, <2>1, <2>2, <2>3 DEF Alone
<1>6. Fetched'
  BY <1>1, <1>2, <1>3, Kinds DEF Flow, Fetched
<1>. QED  BY <1>5, <1>6

-----------------------------------------------------------------------------
LEMMA SameFlow ==
  ASSUME Flow, UNCHANGED <<held, currentConfigIndex, inputQueue, outputQueue, pending>>
  PROVE  Alone' /\ Fetched'
<1>. QED  BY WriteFlow

LEMMA InitFlow == Init => Alone /\ Fetched
<1>. SUFFICES ASSUME Init PROVE Alone /\ Fetched
  OBVIOUS
<1>1. /\ inputQueue = <<>> /\ outputQueue = <<>> /\ pending = None
      /\ \A t \in Tasks : held[t] = None
  BY DEF Init
<1>2. Queued = {} /\ Distinct(inputQueue) /\ Distinct(outputQueue)
  BY <1>1 DEF Queued, Elems, Distinct
<1>. QED  BY <1>1, <1>2 DEF Alone, Fetched, Queued

LEMMA NextFlow == IInv /\ Alone /\ Fetched /\ [Next]_vars => Alone' /\ Fetched'
<1>. SUFFICES ASSUME IInv, Flow, [Next]_vars PROVE Alone' /\ Fetched'
  BY DEF IInv, Flow
<1>1. CASE UNCHANGED vars
  BY <1>1, SameFlow DEF vars, taskVars, queues, files
<1>2. CASE Main \/ StartTask
  BY <1>2, SameFlow DEF Main, GetFileSize, PostTask, JoinTask, JoinThrows, StopPool,
     RestoreOutput, DestroyMembers, JoinPool, StartTask, taskVars, queues, files
<1>3. ASSUME NEW t \in Readers, Reader(t) PROVE Alone' /\ Fetched'
  <2>0. t \in Tasks
    BY Kinds
  <2>1. CASE OpenInput(t)
    BY <2>1, SameFlow DEF OpenInput, queues, files
  <2>2. CASE FetchFrame(t)
    BY <1>3, <2>2, FetchFlow
  <2>3. CASE PushFrame(t)
    <3>1. held[t] \in Frames
      BY <2>0, <2>3 DEF IInv, KindOK, PushFrame
    <3>. QED  BY <2>0, <2>3, <3>1, PushFlow DEF PushFrame, files
  <2>. QED  BY <1>3, <2>1, <2>2, <2>3 DEF Reader
<1>4. ASSUME NEW t \in Calculators, Calculator(t) PROVE Alone' /\ Fetched'
  <2>0. t \in Tasks
    BY Kinds
  <2>1. CASE CheckProducer(t, readingFinished) \/ TimeOut(t, inputQueue) \/ InputDrained(t)
    BY <2>1, SameFlow DEF CheckProducer, TimeOut, InputDrained, queues, files
  <2>2. CASE TakeInput(t)
    BY <2>0, <2>2, PopFlow DEF TakeInput, TakeFrame, files
  <2>3. CASE CalculateAndPush(t)
    <3>1. held[t] \in Frames
      BY <2>0, <2>3 DEF IInv, KindOK, CalculateAndPush, Holds
    <3>. QED  BY <2>0, <2>3, <3>1, PushFlow DEF CalculateAndPush, FrameDone, files
  <2>4. CASE CalculationFails(t)
    BY <2>0, <2>4, PopFlow DEF CalculationFails, files
  <2>. QED  BY <1>4, <2>1, <2>2, <2>3, <2>4 DEF Calculator
<1>5. CASE WriterTask
  <2>1. CASE OpenOutput \/ CheckProducer(Writer, calculationFinished)
             \/ TimeOut(Writer, outputQueue) \/ CloseFails
    BY <2>1, SameFlow DEF OpenOutput, CheckProducer, TimeOut, CloseFails, taskVars, queues, files
  <2>2. CASE TakeOutput
    BY <2>2, Kinds, PopFlow DEF TakeOutput, TakeFrame, files
  <2>3. CASE WriteFrame
    BY <2>3, WriteFlow DEF WriteFrame, FrameDone, queues
  <2>4. CASE WriteFails \/ CloseOutput
    BY <2>4, WriteFlow DEF WriteFails, CloseOutput, queues
  <2>. QED  BY <1>5, <2>1, <2>2, <2>3, <2>4 DEF WriterTask
<1>6. ASSUME NEW t \in Tasks, UseDestroyedMember(t) PROVE Alone' /\ Fetched'
  BY <1>6, SameFlow DEF UseDestroyedMember, taskVars, queues, files
<1>. QED  BY <1>1, <1>2, <1>3, <1>4, <1>5, <1>6 DEF Next, Terminated

-----------------------------------------------------------------------------
(* A set without two elements has at most one. *)
LEMMA AtMostOne ==
  ASSUME NEW S, \A x, y \in S : x = y
  PROVE  Cardinality(S) = IF S = {} THEN 0 ELSE 1
<1>1. CASE S = {}
  BY <1>1, FS_EmptySet
<1>2. CASE S # {}
  <2>1. PICK x : S = {x}
    BY <1>2
  <2>. QED  BY <1>2, <2>1, FS_Singleton
<1>. QED  BY <1>1, <1>2

LEMMA AloneCounts == TypeOK /\ Alone => OneCopy
<1>. SUFFICES ASSUME TypeOK, Alone, NEW f \in Frames
              PROVE  Copies(f) <= 1 /\ (pending = f => Copies(f) = 0)
  BY DEF OneCopy
<1>. DEFINE Hands == {t \in Tasks : held[t] = f}
            Inputs == {i \in DOMAIN inputQueue : inputQueue[i] = f}
            Outputs == {i \in DOMAIN outputQueue : outputQueue[i] = f}
<1>0. /\ f # None /\ DOMAIN inputQueue = 1 .. Len(inputQueue)
      /\ DOMAIN outputQueue = 1 .. Len(outputQueue)
  BY ElemsInFrames DEF TypeOK
<1>1. /\ Cardinality(Hands) = IF Hands = {} THEN 0 ELSE 1
      /\ Cardinality(Inputs) = IF Inputs = {} THEN 0 ELSE 1
      /\ Cardinality(Outputs) = IF Outputs = {} THEN 0 ELSE 1
  <2>1. /\ \A t, u \in Hands : t = u
        /\ \A i, j \in Inputs : i = j
        /\ \A i, j \in Outputs : i = j
    BY <1>0 DEF Alone, Distinct
  <2>. HIDE DEF Hands, Inputs, Outputs
  <2>. QED  BY <2>1, AtMostOne
<1>2. /\ Inputs # {} => f \in Elems(inputQueue)
      /\ Outputs # {} => f \in Elems(outputQueue)
  BY <1>0 DEF Elems
<1>3. /\ Inputs = {} \/ Outputs = {}
      /\ Hands = {} \/ (Inputs = {} /\ Outputs = {})
      /\ pending = f => Hands = {} /\ Inputs = {} /\ Outputs = {}
  BY <1>0, <1>2 DEF Alone, Queued
<1>4. Copies(f) = Cardinality(Hands) + Cardinality(Inputs) + Cardinality(Outputs)
  BY DEF Copies
<1>. HIDE DEF Hands, Inputs, Outputs
<1>. QED  BY <1>1, <1>3, <1>4

(* No frame is read, calculated or written twice, for every number of     *)
(* readers that share the index and of tasks that share the queues.       *)
THEOREM CopiesAreUnique == Spec => []OneCopy
<1>1. Spec => [](Alone /\ Fetched)
  BY InvariantHolds, InitFlow, NextFlow, PTL DEF Spec
<1>. QED  BY <1>1, AloneCounts, TypeCorrect, PTL

-----------------------------------------------------------------------------
(* Hands are empty between frames. *)

LEMMA StepHands ==
  ASSUME TypeOK, HandsOK, NEW t \in Tasks, NEW w,
         pc' = [pc EXCEPT ![t] = w],
         held' = held \/ (\E x : held' = [held EXCEPT ![t] = x]),
         held'[t] # None => w \in {"push", "waitHold", "drainHold", "failed"}
  PROVE  HandsOK'
<1>1. /\ pc'[t] = w /\ \A u \in Tasks : u # t => pc'[u] = pc[u]
      /\ \A u \in Tasks : u # t => held'[u] = held[u]
  BY DEF TypeOK
<1>. QED  BY <1>1 DEF HandsOK

LEMMA NextHands == IInv /\ HandsOK /\ [Next]_vars => HandsOK'
<1>. SUFFICES ASSUME IInv, HandsOK, [Next]_vars PROVE HandsOK'
  OBVIOUS
<1>0. TypeOK /\ held \in [Tasks -> Frames \cup {None}] /\ pc \in [Tasks -> TaskPCs]
  BY DEF IInv, TypeOK
<1>1. CASE UNCHANGED <<pc, held>>
  BY <1>1 DEF HandsOK
<1>2. CASE PostTask
  <2>1. next \in 1 .. TaskCnt /\ pc[PostedTask(next)] = "idle"
    BY <1>2, Counts DEF PostTask, IInv, PoolOK
  <2>2. PostedTask(next) \in Tasks /\ held[PostedTask(next)] = None
    BY <2>1, Orders DEF HandsOK
  <2>. QED  BY <1>0, <1>2, <2>2, StepHands DEF PostTask, Goto
<1>3. CASE StartTask
  <2>1. poolQueue[1] = Head(poolQueue) /\ 1 \in 1 .. Len(poolQueue) /\ poolQueue[1] \in Tasks
    BY <1>0, <1>3 DEF StartTask, TypeOK
  <2>2. pc[Head(poolQueue)] = "posted"
    BY <2>1 DEF IInv, PoolOK
  <2>3. Head(poolQueue) \in Tasks /\ held[Head(poolQueue)] = None
    BY <2>1, <2>2 DEF HandsOK
  <2>. QED  BY <1>0, <1>3, <2>3, StepHands DEF StartTask
<1>4. ASSUME NEW t \in Readers, Reader(t) PROVE HandsOK'
  <2>0. t \in Tasks
    BY Kinds
  <2>1. CASE OpenInput(t)
    BY <1>0, <2>0, <2>1, StepHands DEF OpenInput, Goto, HandsOK
  <2>2. CASE FetchFrame(t)
    <3>1. held[t] = None
      BY <2>0, <2>2 DEF FetchFrame, HandsOK
    <3>2. CASE held' = held
      BY <1>0, <2>0, <2>2, <3>1, <3>2, StepHands DEF FetchFrame, Goto
    <3>3. CASE held' = [held EXCEPT ![t] = currentConfigIndex] /\ Goto(t, "push")
      BY <1>0, <2>0, <3>3, StepHands DEF Goto
    <3>. QED  BY <2>2, <3>2, <3>3 DEF FetchFrame
  <2>3. CASE PushFrame(t)
    <3>1. held'[t] = None
      BY <1>0, <2>0, <2>3 DEF PushFrame
    <3>. QED  BY <1>0, <2>0, <2>3, <3>1, StepHands DEF PushFrame, Goto
  <2>. QED  BY <1>4, <2>1, <2>2, <2>3 DEF Reader
<1>5. ASSUME NEW t \in Tasks,
             \/ \E q : TakeFrame(t, q)
             \/ FrameDone(t)
             \/ \E w : UNCHANGED held /\ Goto(t, w) /\ pc[t] \in {"open", "check", "wait", "drain"}
             \/ UNCHANGED held /\ Goto(t, "failed")
      PROVE  HandsOK'
  <2>1. CASE \E q : TakeFrame(t, q)
    BY <1>0, <2>1, StepHands DEF TakeFrame, Goto
  <2>2. CASE FrameDone(t)
    <3>1. held'[t] = None
      BY <1>0, <2>2 DEF FrameDone
    <3>. QED  BY <1>0, <2>2, <3>1, StepHands DEF FrameDone, Goto
  <2>3. CASE \E w : UNCHANGED held /\ Goto(t, w) /\ pc[t] \in {"open", "check", "wait", "drain"}
    BY <1>0, <2>3, StepHands DEF Goto, HandsOK
  <2>4. CASE UNCHANGED held /\ Goto(t, "failed")
    BY <1>0, <2>4, StepHands DEF Goto
  <2>. QED  BY <1>5, <2>1, <2>2, <2>3, <2>4
<1>6. ASSUME NEW t \in Calculators, Calculator(t) PROVE HandsOK'
  BY <1>5, <1>6, Kinds DEF Calculator, CheckProducer, TakeInput, TimeOut, CalculateAndPush,
     CalculationFails, InputDrained
<1>7. CASE WriterTask
  <2>1. CASE OpenOutput \/ CheckProducer(Writer, calculationFinished) \/ TakeOutput
             \/ TimeOut(Writer, outputQueue) \/ WriteFrame \/ CloseOutput
    BY <1>5, <2>1, Kinds DEF OpenOutput, CheckProducer, TakeOutput, TimeOut, WriteFrame, CloseOutput
  <2>2. CASE WriteFails \/ CloseFails
    BY <1>1, <1>5, <2>2, Kinds DEF WriteFails, CloseFails, taskVars
  <2>. QED  BY <1>7, <2>1, <2>2 DEF WriterTask
<1>8. CASE Main
  BY <1>1, <1>2, <1>8 DEF Main, GetFileSize, JoinTask, JoinThrows, StopPool, RestoreOutput,
     DestroyMembers, JoinPool, taskVars
<1>9. ASSUME NEW t \in Tasks, UseDestroyedMember(t) PROVE HandsOK'
  BY <1>1, <1>9 DEF UseDestroyedMember, taskVars
<1>10. CASE UNCHANGED vars
  BY <1>1, <1>10 DEF vars, taskVars
<1>. QED  BY <1>3, <1>4, <1>6, <1>7, <1>8, <1>9, <1>10 DEF Next, Terminated

LEMMA FlagsFromInvariant == IInv /\ HandsOK => FlagsSound
<1>. SUFFICES ASSUME IInv, HandsOK PROVE FlagsSound
  OBVIOUS
<1>1. ASSUME readingFinished
      PROVE  /\ \A f \in Frames : f < currentConfigIndex
             /\ \A t \in Readers : held[t] = None
  <2>1. \A t \in Readers : pc[t] = "done"
    BY <1>1 DEF IInv, JoinOK
  <2>2. currentConfigIndex \in Nat \ Frames
    BY <2>1, Kinds DEF IInv, DrainOK, TypeOK
  <2>3. \A f \in Frames : f < currentConfigIndex
    BY <2>2, FrameNumbers
  <2>. QED  BY <2>1, <2>3, Kinds DEF HandsOK
<1>2. ASSUME calculationFinished
      PROVE  readingFinished /\ inputQueue = <<>> /\ \A t \in Calculators : held[t] = None
  <2>1. readingFinished /\ \A t \in Calculators : pc[t] = "done"
    BY <1>2 DEF IInv, JoinOK
  <2>. QED  BY <2>1, Kinds DEF IInv, DrainOK, HandsOK
<1>. QED  BY <1>1, <1>2 DEF FlagsSound

(* A flag that is set tells the truth about the stage before it, so the   *)
(* drain loops miss nothing, for every number of readers and calculators. *)
THEOREM FlagsAreSound == Spec => []FlagsSound
<1>1. Init => HandsOK
  BY DEF Init, HandsOK
<1>2. Spec => []HandsOK
  BY <1>1, InvariantHolds, NextHands, PTL DEF Spec
<1>. QED  BY <1>2, InvariantHolds, FlagsFromInvariant, PTL
-----------------------------------------------------------------------------
(* After a failure.  If only the input's size, the writer and its file can *)
(* fail, main turns to cleaning up when no other task has been posted or   *)
(* when all the others are done, so nobody writes behind its back.         *)

OnlyWriterFails == Faults \cap {"readerOpen", "readFail", "calcAlloc"} = {}

(* The run has failed and main knows it. *)
Over == main \in {"stop", "restore", "destroy", "joinPool", "exited"} /\ ~success

Still == \/ poolQueue = <<>> /\ \A t \in Tasks : pc[t] = "idle"
         \/ pc[Writer] = "failed" /\ \A t \in Readers \cup Calculators : pc[t] = "done"

Aftermath ==
  /\ \A t \in Readers \cup Calculators : pc[t] # "failed"
  /\ main = "fileSize" => poolQueue = <<>> /\ \A t \in Tasks : pc[t] = "idle"
  /\ OutputExisted => exists
  /\ pc[Writer] \in Unopened => content = Original
  /\ Over => Still
  /\ Over /\ main \notin {"stop", "restore"} => exists = OutputExisted /\ content = Original

(* Before the tasks are posted and after a failure no task moves. *)
LEMMA NobodyMoves ==
  ASSUME IInv, Aftermath, Over \/ main = "fileSize"
  PROVE  /\ \A t \in Tasks : pc[t] \in {"idle", "done", "failed"}
         /\ poolQueue = <<>>
<1>1. \A t \in Tasks : pc[t] \in {"idle", "done", "failed"}
  BY Kinds DEF Aftermath, Still
<1>2. poolQueue = <<>>
  <2>1. Len(poolQueue) \in Nat /\ \A i \in 1 .. Len(poolQueue) : poolQueue[i] \in Tasks
    BY DEF IInv, TypeOK
  <2>2. \A i \in 1 .. Len(poolQueue) : FALSE
    BY <1>1, <2>1 DEF IInv, PoolOK
  <2>3. Len(poolQueue) = 0
    BY <2>1, <2>2
  <2>. QED  BY <2>3 DEF IInv, TypeOK
<1>. QED  BY <1>1, <1>2

(* A working task that does not fail, if it is not the writer. *)
LEMMA WorkKeepsAftermath ==
  ASSUME IInv, Aftermath, ~Over, main # "fileSize",
         NEW t \in Tasks, NEW w, pc' = [pc EXCEPT ![t] = w],
         t # Writer => w # "failed" /\ UNCHANGED <<exists, content>>,
         t = Writer => w \notin {"idle", "posted"} /\ exists' \in {exists, TRUE},
         t = Writer /\ w = "open" => pc[t] \in Unopened /\ content' = content,
         \/ UNCHANGED <<main, success>>
         \/ main' \in {"aborted", "undefined"}
  PROVE  Aftermath'
<1>1. ~Over' /\ main' # "fileSize"
  BY DEF Over
<1>2. pc'[t] = w /\ \A u \in Tasks : u # t => pc'[u] = pc[u]
  BY DEF IInv, TypeOK
<1>3. \A u \in Readers \cup Calculators : pc'[u] # "failed"
  BY <1>2, Kinds DEF Aftermath
<1>4. OutputExisted => exists'
  BY DEF Aftermath
<1>5. pc'[Writer] \in Unopened => content' = Original
  BY <1>2, Kinds DEF Aftermath, Unopened
<1>. QED  BY <1>1, <1>3, <1>4, <1>5 DEF Aftermath

LEMMA WorkAftermath ==
  ASSUME IInv, Aftermath, OnlyWriterFails,
         \/ StartTask \/ WriterTask
         \/ \E t \in Readers : Reader(t)
         \/ \E t \in Calculators : Calculator(t)
  PROVE  Aftermath'
<1>1. CASE StartTask
  <2>1. ~Over /\ main # "fileSize"
    BY <1>1, NobodyMoves DEF StartTask
  <2>2. poolQueue[1] = Head(poolQueue) /\ 1 \in 1 .. Len(poolQueue) /\ poolQueue[1] \in Tasks
    BY <1>1 DEF StartTask, IInv, TypeOK
  <2>3. pc[Head(poolQueue)] = "posted" /\ Head(poolQueue) \in Tasks
    BY <2>2 DEF IInv, PoolOK
  <2>. QED  BY <1>1, <2>1, <2>3, Kinds, WorkKeepsAftermath
            DEF StartTask, mainVars, control, files, Unopened
<1>2. ASSUME NEW t \in Readers, Reader(t) PROVE Aftermath'
  <2>0. t \in Tasks /\ t # Writer /\ UNCHANGED <<main, success>>
    BY <1>2, Kinds DEF Reader, mainVars, control
  <2>1. pc[t] \in {"open", "fetch", "push"}
    BY <1>2 DEF Reader, OpenInput, FetchFrame, PushFrame
  <2>2. ~Over /\ main # "fileSize"
    BY <2>0, <2>1, NobodyMoves
  <2>3. PICK w : w # "failed" /\ pc' = [pc EXCEPT ![t] = w]
    BY <1>2 DEF Reader, OpenInput, FetchFrame, PushFrame, Goto, OnlyWriterFails
  <2>4. UNCHANGED <<exists, content>>
    BY <1>2 DEF Reader, OpenInput, FetchFrame, PushFrame, files
  <2>. QED  BY <2>0, <2>2, <2>3, <2>4, WorkKeepsAftermath
<1>3. ASSUME NEW t \in Calculators, Calculator(t) PROVE Aftermath'
  <2>0. t \in Tasks /\ t # Writer /\ UNCHANGED <<main, success>>
    BY <1>3, Kinds DEF Calculator, mainVars, control
  <2>1. pc[t] \in {"check", "wait", "drain", "waitHold", "drainHold"}
    BY <1>3 DEF Calculator, CheckProducer, TakeInput, TakeFrame, TimeOut, CalculateAndPush,
           CalculationFails, InputDrained, Holds
  <2>2. ~Over /\ main # "fileSize"
    BY <2>0, <2>1, NobodyMoves
  <2>3. PICK w : w # "failed" /\ pc' = [pc EXCEPT ![t] = w]
    BY <1>3 DEF Calculator, CheckProducer, TakeInput, TakeFrame, TimeOut, CalculateAndPush,
           CalculationFails, InputDrained, Goto, FrameDone, OnlyWriterFails
  <2>4. UNCHANGED <<exists, content>>
    BY <1>3 DEF Calculator, CheckProducer, TakeInput, TakeFrame, TimeOut, CalculateAndPush,
           CalculationFails, InputDrained, files
  <2>. QED  BY <2>0, <2>2, <2>3, <2>4, WorkKeepsAftermath
<1>4. CASE WriterTask
  <2>1. pc[Writer] \in {"open", "check", "wait", "drain", "waitHold", "drainHold"}
    BY <1>4 DEF WriterTask, OpenOutput, CheckProducer, TakeOutput, TakeFrame, TimeOut, WriteFrame,
           CloseOutput, WriteFails, CloseFails, Holds
  <2>2. ~Over /\ main # "fileSize"
    BY <2>1, Kinds, NobodyMoves
  <2>3. CASE CloseFails \/ (WriteFails /\ main' = "aborted")
    <3>0. pc' = pc /\ UNCHANGED <<exists, content>>
      BY <1>4, <2>3 DEF WriterTask, MayRun, Ends, CloseFails, WriteFails, taskVars, files
    <3>1. pc' = [pc EXCEPT ![Writer] = pc[Writer]] /\ UNCHANGED <<exists, content>>
      BY <3>0 DEF IInv, TypeOK
    <3>2. main' = "aborted"
      BY <2>3 DEF CloseFails
    <3>3. pc[Writer] \notin {"idle", "posted"} /\ (pc[Writer] = "open" => pc[Writer] \in Unopened)
      BY <2>1 DEF Unopened
    <3>. QED  BY <2>2, <3>1, <3>2, <3>3, Kinds, WorkKeepsAftermath
  <2>4. CASE ~(CloseFails \/ (WriteFails /\ main' = "aborted"))
    <3>1. PICK w : pc' = [pc EXCEPT ![Writer] = w] /\ w \notin {"idle", "posted", "open"}
      BY <1>4, <2>4 DEF WriterTask, OpenOutput, CheckProducer, TakeOutput, TakeFrame, TimeOut,
         WriteFrame, CloseOutput, WriteFails, FrameDone, Goto
    <3>2. UNCHANGED <<main, success>>
      BY <1>4, <2>4 DEF WriterTask, WriteFails, mainVars, control
    <3>3. exists' \in {exists, TRUE}
      BY <1>4, <2>4 DEF WriterTask, OpenOutput, CheckProducer, TakeOutput, TakeFrame, TimeOut,
         WriteFrame, CloseOutput, WriteFails, files
    <3>. QED  BY <2>2, <3>1, <3>2, <3>3, Kinds, WorkKeepsAftermath
  <2>. QED  BY <2>3, <2>4
<1>. QED  BY <1>1, <1>2, <1>3, <1>4

(* Only the last of the futures can rethrow, and then the other tasks are  *)
(* done: main waits for the readers and the calculators first.             *)
LEMMA JoinThrowsLast ==
  ASSUME IInv, Aftermath, JoinThrows
  PROVE  pc[Writer] = "failed" /\ \A t \in Readers \cup Calculators : pc[t] = "done"
<1>1. main = "join" /\ next \in 1 .. TaskCnt /\ pc[JoinedTask(next)] = "failed"
  BY Counts DEF JoinThrows, IInv, TypeOK
<1>2. JoinedTask(next) = Writer
  BY <1>1, Orders, Kinds DEF Aftermath
<1>3. next = TaskCnt
  BY <1>1, <1>2, Counts DEF JoinedTask, Writer
<1>4. \A i \in 1 .. TaskCnt - 1 : pc[JoinedTask(i)] = "done"
  BY <1>1, <1>3 DEF IInv, JoinOK
<1>5. \A t \in Readers \cup Calculators : \E i \in 1 .. TaskCnt - 1 : t = JoinedTask(i)
  BY Orders, Counts
<1>. QED  BY <1>1, <1>2, <1>4, <1>5

LEMMA MainAftermath ==
  ASSUME IInv, Aftermath, OriginalPrefixPreserved, Main
  PROVE  Aftermath'
<1>1. CASE GetFileSize
  <2>1. /\ UNCHANGED <<pc, poolQueue, exists, content>> /\ main = "fileSize"
        /\ main' \in {"post", "stop"}
    BY <1>1 DEF GetFileSize, taskVars, poolVars, files
  <2>2. Still'
    BY <2>1 DEF Aftermath, Still
  <2>. QED  BY <2>1, <2>2 DEF Aftermath, Over
<1>2. CASE PostTask
  <2>. DEFINE t == PostedTask(next)
  <2>1. next \in 1 .. TaskCnt /\ pc[t] = "idle" /\ t \in Tasks
    BY <1>2, Counts, Orders DEF PostTask, IInv, PoolOK
  <2>2. /\ pc' = [pc EXCEPT ![t] = "posted"] /\ UNCHANGED <<exists, content>>
        /\ main' \in {"post", "join"}
    BY <1>2 DEF PostTask, Goto, files
  <2>. HIDE DEF t
  <2>3. pc'[t] = "posted" /\ \A u \in Tasks : u # t => pc'[u] = pc[u]
    BY <2>1, <2>2 DEF IInv, TypeOK
  <2>4. \A u \in Readers \cup Calculators : pc'[u] # "failed"
    BY <2>3, Kinds DEF Aftermath
  <2>5. pc'[Writer] \in Unopened => content' = Original
    BY <2>1, <2>2, <2>3, Kinds DEF Aftermath, Unopened
  <2>. QED  BY <2>2, <2>4, <2>5 DEF Aftermath, Over
<1>3. CASE JoinTask
  <2>1. UNCHANGED <<pc, poolQueue, exists, content>> /\ ~Over' /\ main' \in {"join", "destroy"}
    BY <1>3 DEF JoinTask, taskVars, poolVars, files, Over
  <2>. QED  BY <2>1 DEF Aftermath
<1>4. CASE JoinThrows
  <2>1. UNCHANGED <<pc, poolQueue, exists, content>> /\ main' = "stop"
    BY <1>4 DEF JoinThrows, taskVars, poolVars, files
  <2>2. Still'
    BY <1>4, <2>1, JoinThrowsLast DEF Still
  <2>. QED  BY <2>1, <2>2 DEF Aftermath
<1>5. CASE StopPool \/ DestroyMembers \/ JoinPool
  <2>1. /\ UNCHANGED <<pc, poolQueue, exists, content, success>>
        /\ Over' => Over
        /\ main' \notin {"stop", "restore"} => main \notin {"stop", "restore"}
        /\ main' # "fileSize"
    BY <1>5 DEF StopPool, DestroyMembers, JoinPool, taskVars, control, poolVars, files, Over
  <2>. QED  BY <2>1 DEF Aftermath, Still
<1>6. CASE RestoreOutput
  <2>1. /\ UNCHANGED <<pc, poolQueue, success>> /\ main = "restore" /\ main' = "destroy"
    BY <1>6 DEF RestoreOutput, taskVars, control, poolVars
  <2>2. ~success
    BY <2>1 DEF IInv, JoinOK
  <2>3. CASE OutputExisted
    <3>1. exists' = exists
          /\ content' = [p \in DOMAIN content \cap (0 .. OriginalSize - 1) |-> content[p]]
      BY <1>6, <2>3 DEF RestoreOutput
    <3>2. content' = Original
      BY <3>1 DEF OriginalPrefixPreserved, Original
    <3>. QED  BY <2>1, <2>2, <2>3, <3>1, <3>2 DEF Aftermath, Over, Still
  <2>4. CASE ~OutputExisted
    <3>1. exists' = FALSE /\ content' = [p \in {} |-> OldByte]
      BY <1>6, <2>4 DEF RestoreOutput
    <3>2. 0 .. OriginalSize - 1 = {}
      BY <2>4, InputAssumption
    <3>3. content' = Original
      BY <3>1, <3>2 DEF Original
    <3>. QED  BY <2>1, <2>2, <2>4, <3>1, <3>3, InputAssumption DEF Aftermath, Over, Still
  <2>. QED  BY <2>3, <2>4
<1>. QED  BY <1>1, <1>2, <1>3, <1>4, <1>5, <1>6 DEF Main

LEMMA NextAftermath ==
  ASSUME OnlyWriterFails
  PROVE  IInv /\ OriginalPrefixPreserved /\ Aftermath /\ [Next]_vars => Aftermath'
<1>. SUFFICES ASSUME IInv, OriginalPrefixPreserved, Aftermath, [Next]_vars PROVE Aftermath'
  OBVIOUS
<1>1. CASE UNCHANGED vars
  BY <1>1 DEF vars, mainVars, control, poolVars, taskVars, files, Aftermath, Over, Still
<1>2. ASSUME NEW t \in Tasks, UseDestroyedMember(t) PROVE Aftermath'
  <2>1. UNCHANGED <<pc, poolQueue, exists, content>> /\ main' = "undefined"
    BY <1>2 DEF UseDestroyedMember, taskVars, poolVars, files
  <2>. QED  BY <2>1 DEF Aftermath, Over
<1>. QED  BY <1>1, <1>2, WorkAftermath, MainAftermath DEF Next, Terminated

LEMMA InitAftermath == Init => Aftermath
<1>. SUFFICES ASSUME Init PROVE Aftermath
  OBVIOUS
<1>1. /\ \A t \in Tasks : pc[t] = "idle"
      /\ main = "fileSize" /\ poolQueue = <<>> /\ content = Original /\ exists = OutputExisted
  BY DEF Init
<1>. QED  BY <1>1, Kinds DEF Aftermath, Over

LEMMA AftermathHolds == OnlyWriterFails => (Spec => []Aftermath)
<1>1. ASSUME OnlyWriterFails PROVE Spec => []Aftermath
  <2>1. IInv /\ OriginalPrefixPreserved /\ Aftermath /\ [Next]_vars => Aftermath'
    BY <1>1, NextAftermath
  <2>. QED  BY <2>1, InvariantHolds, PrefixIsPreserved, InitAftermath, PTL DEF Spec
<1>. QED  BY <1>1

(* After a failure of the size of the input, of opening the output or of   *)
(* writing it, the user finds the output file as it was, for every size    *)
(* and number of threads.  With the other failures this is not so.         *)
THEOREM RestoredAfterFailure == OnlyWriterFails => (Spec => []RestoredAtExit)
<1>1. Aftermath => RestoredAtExit
  BY DEF Aftermath, Over, RestoredAtExit
<1>. QED  BY <1>1, AftermathHolds, PTL

(* No task uses a member of CrcSignatureOfFile that is destroyed. *)
MembersOutliveTasks == main # "undefined"

(* Under the same condition the members, which are destroyed before the    *)
(* pool has waited for the tasks, still outlive the tasks' work            *)
(* (crcsignatureoffile.h, lines 33-48).                                    *)
THEOREM NoUseAfterDestruction == OnlyWriterFails => (Spec => []MembersOutliveTasks)
<1>1. IInv /\ Aftermath /\ MembersOutliveTasks /\ [Next]_vars => MembersOutliveTasks'
  <2>. SUFFICES ASSUME IInv, Aftermath, main # "undefined", [Next]_vars
                PROVE  main' # "undefined"
    BY DEF MembersOutliveTasks
  <2>1. ASSUME NEW t \in Tasks, UseDestroyedMember(t) PROVE FALSE
    <3>1. main = "joinPool" /\ pc[t] \notin {"idle", "posted", "done", "failed"}
      BY <2>1 DEF UseDestroyedMember, Running
    <3>2. CASE success
      <4>1. pc[t] = "done"
        BY <3>2, Kinds DEF IInv, JoinOK
      <4>. QED  BY <3>1, <4>1
    <3>3. CASE ~success
      <4>1. Over
        BY <3>1, <3>3 DEF Over
      <4>. QED  BY <3>1, <4>1, NobodyMoves
    <3>. QED  BY <3>2, <3>3
  <2>2. CASE UNCHANGED main
    BY <2>2
  <2>3. CASE Main
    BY <2>3 DEF Main, GetFileSize, PostTask, JoinTask, JoinThrows, StopPool, RestoreOutput,
       DestroyMembers, JoinPool, control
  <2>4. CASE WriterTask
    BY <2>4 DEF WriterTask, WriteFails, CloseFails, mainVars
  <2>. QED  BY <2>1, <2>2, <2>3, <2>4
            DEF Next, Terminated, vars, StartTask, Reader, Calculator, mainVars
<1>2. Init => MembersOutliveTasks
  BY DEF Init, MembersOutliveTasks
<1>. QED  BY <1>1, <1>2, AftermathHolds, InvariantHolds, PTL DEF Spec
-----------------------------------------------------------------------------
(* The refinement: what the user is promised.                              *)

SignedIn(c) == {b \in Blocks : /\ OriginalSize + b \in DOMAIN c
                               /\ c[OriginalSize + b] = CrcOf(b)}

(* A frame that is still to reach the file. *)
OnItsWay(f) == \/ currentConfigIndex <= f
               \/ f \in Queued
               \/ \E t \in Tasks : held[t] = f
               \/ pending = f

(* Its blocks are not there yet. *)
Fresh == \A f \in Frames : OnItsWay(f) => BlocksOf(f) \cap SignedIn(content) = {}

LEMMA FramesDisjoint ==
  /\ \A f \in Frames : BlocksOf(f) \subseteq Blocks
  /\ \A f, g \in Frames : f # g => BlocksOf(f) \cap BlocksOf(g) = {}
  /\ Blocks \subseteq Int
<1>. SUFFICES ASSUME NEW e \in Frames
              PROVE  /\ \A f \in Frames : BlocksOf(f) \subseteq Blocks
                     /\ \A f, g \in Frames : f # g => BlocksOf(f) \cap BlocksOf(g) = {}
  BY DEF Blocks
<1>1. FileSize # 0
  BY DEF Frames, dataFramesInFile
<1>2. /\ \A f \in Frames : BlocksOf(f) \subseteq Blocks
      /\ \A b \in Blocks : \E f \in Frames :
           b \in BlocksOf(f) /\ \A g \in Frames : b \in BlocksOf(g) => g = f
  BY <1>1, InputAssumption, BlocksPartitionedAlways DEF Blocks, Frames, BlocksOf
<1>. QED  BY <1>2

(* Before the first CRC is written, and after a restoration. *)
LEMMA NothingSigned == SignedIn(Original) = {}
<1>1. \A b \in Blocks : OriginalSize + b \notin 0 .. OriginalSize - 1
  BY InputAssumption DEF Blocks
<1>. QED  BY <1>1 DEF SignedIn, Original

(* A frame that reaches the file signs its blocks, no others. *)
LEMMA PutSigns ==
  ASSUME NEW c, NEW f \in Frames \cup {None}
  PROVE  SignedIn(Put(c, f)) =
           IF stream = "linked" /\ f # None THEN SignedIn(c) \cup BlocksOf(f) ELSE SignedIn(c)
<1>1. CASE ~(stream = "linked" /\ f # None)
  BY <1>1 DEF Put
<1>2. CASE stream = "linked" /\ f # None
  <2>1. Put(c, f) = [p \in DOMAIN c \cup Positions(f) |->
                       IF p \in Positions(f) THEN CrcOf(p - OriginalSize) ELSE c[p]]
    BY <1>2 DEF Put
  <2>2. BlocksOf(f) \subseteq Blocks /\ Blocks \subseteq Int /\ OriginalSize \in Nat
    BY <1>2, FramesDisjoint, InputAssumption
  <2>3. \A b \in Blocks : (OriginalSize + b) - OriginalSize = b
    BY <2>2
  <2>4. ASSUME NEW b \in Blocks PROVE OriginalSize + b \in Positions(f) <=> b \in BlocksOf(f)
    <3>1. ASSUME NEW a \in BlocksOf(f), OriginalSize + b = OriginalSize + a PROVE b = a
      <4>1. a \in Int /\ b \in Int
        BY <2>2
      <4>. QED  BY <2>2, <3>1, <4>1
    <3>. QED  BY <3>1 DEF Positions
  <2>5. \A b \in Blocks : b \in SignedIn(Put(c, f)) <=> b \in SignedIn(c) \/ b \in BlocksOf(f)
    BY <2>1, <2>3, <2>4 DEF SignedIn
  <2>6. SignedIn(Put(c, f)) \subseteq Blocks /\ SignedIn(c) \subseteq Blocks
    BY DEF SignedIn
  <2>. QED  BY <1>2, <2>2, <2>5, <2>6
<1>. QED  BY <1>1, <1>2

-----------------------------------------------------------------------------
(* Which steps change the file. *)
LEMMA FileSteps ==
  ASSUME [Next]_vars
  PROVE  \/ content' = content
         \/ /\ MayRun(Writer) /\ (OpenOutput \/ WriteFrame \/ CloseOutput)
            /\ UNCHANGED <<main, success>>
         \/ MayRun(Writer) /\ WriteFails /\ UNCHANGED <<main, success>>
         \/ RestoreOutput
<1>1. UNCHANGED vars \/ Terminated \/ StartTask => content' = content
  BY DEF Terminated, vars, files, StartTask
<1>2. \A t : Reader(t) \/ Calculator(t) \/ UseDestroyedMember(t) => content' = content
  BY DEF Reader, OpenInput, FetchFrame, PushFrame, Calculator, CheckProducer, TakeInput,
         TakeFrame, TimeOut, CalculateAndPush, CalculationFails, InputDrained,
         UseDestroyedMember, files
<1>3. Main => RestoreOutput \/ content' = content
  BY DEF Main, GetFileSize, PostTask, JoinTask, JoinThrows, StopPool, DestroyMembers,
         JoinPool, files
<1>4. WriterTask => \/ content' = content
                    \/ /\ MayRun(Writer) /\ (OpenOutput \/ WriteFrame \/ CloseOutput)
                       /\ UNCHANGED <<main, success>>
                    \/ MayRun(Writer) /\ WriteFails /\ UNCHANGED <<main, success>>
  BY DEF WriterTask, CheckProducer, TakeOutput, TakeFrame, TimeOut, CloseFails, WriteFails,
         files, mainVars, control
<1>. QED  BY <1>1, <1>2, <1>3, <1>4 DEF Next

(* No frame sets out twice. *)
LEMMA WayStep ==
  ASSUME TypeOK, NEW f \in Frames, OnItsWay(f)',
         currentConfigIndex' \in {currentConfigIndex, currentConfigIndex + 1},
         Queued' \subseteq Queued \cup {held[t] : t \in Tasks},
         \A t \in Tasks : held'[t] \in {held[t], None, currentConfigIndex} \cup Queued,
         pending' \in {pending, None, held[Writer]}
  PROVE  OnItsWay(f)
<1>0. f \in Nat /\ f # None /\ currentConfigIndex \in Nat /\ Writer \in Tasks
  BY FrameNumbers, NoneAssumption, Kinds DEF TypeOK
<1>1. CASE currentConfigIndex' <= f
  BY <1>0, <1>1 DEF OnItsWay
<1>2. CASE f \in Queued'
  BY <1>2 DEF OnItsWay
<1>3. CASE \E t \in Tasks : held'[t] = f
  BY <1>0, <1>3 DEF OnItsWay
<1>4. CASE pending' = f
  BY <1>0, <1>4 DEF OnItsWay
<1>. QED  BY <1>1, <1>2, <1>3, <1>4 DEF OnItsWay

LEMMA NothingComesBack ==
  ASSUME IInv, [Next]_vars, NEW f \in Frames, OnItsWay(f)'
  PROVE  OnItsWay(f)
<1>0. /\ TypeOK /\ currentConfigIndex \in Nat
      /\ inputQueue \in Seq(Frames) /\ outputQueue \in Seq(Frames)
      /\ held \in [Tasks -> Frames \cup {None}]
  BY DEF IInv, TypeOK
<1>1. ASSUME UNCHANGED <<held, currentConfigIndex, inputQueue, outputQueue, pending>>
      PROVE  OnItsWay(f)
  BY <1>1 DEF OnItsWay, Queued, Elems
<1>2. ASSUME NEW t \in Tasks, UNCHANGED <<currentConfigIndex, pending>>,
             held' = [held EXCEPT ![t] = None],
             \/ inputQueue' = Append(inputQueue, held[t]) /\ outputQueue' = outputQueue
             \/ outputQueue' = Append(outputQueue, held[t]) /\ inputQueue' = inputQueue,
             held[t] \in Frames
      PROVE  OnItsWay(f)
  <2>1. /\ Elems(Append(inputQueue, held[t])) = Elems(inputQueue) \cup {held[t]}
        /\ Elems(Append(outputQueue, held[t])) = Elems(outputQueue) \cup {held[t]}
    BY <1>0, <1>2, ElemsAppend
  <2>2. Queued' \subseteq Queued \cup {held[t]}
    <3>1. Elems(inputQueue)' = Elems(inputQueue') /\ Elems(outputQueue)' = Elems(outputQueue')
      BY DEF Elems
    <3>. QED  BY <1>2, <2>1, <3>1 DEF Queued
  <2>3. \A u \in Tasks : held'[u] \in {held[u], None}
    BY <1>0, <1>2
  <2>. QED  BY <1>2, <1>0, <2>2, <2>3, WayStep
<1>3. ASSUME NEW t \in Tasks, NEW x, UNCHANGED <<currentConfigIndex, pending>>,
             \/ /\ inputQueue # <<>> /\ x = Head(inputQueue)
                /\ inputQueue' = Tail(inputQueue) /\ outputQueue' = outputQueue
             \/ /\ outputQueue # <<>> /\ x = Head(outputQueue)
                /\ outputQueue' = Tail(outputQueue) /\ inputQueue' = inputQueue,
             held' = held \/ held' = [held EXCEPT ![t] = x]
      PROVE  OnItsWay(f)
  <2>1. /\ inputQueue # <<>> =>
             Elems(inputQueue) = {Head(inputQueue)} \cup Elems(Tail(inputQueue))
        /\ outputQueue # <<>> =>
             Elems(outputQueue) = {Head(outputQueue)} \cup Elems(Tail(outputQueue))
    BY <1>0, ElemsTail
  <2>2. Queued' \subseteq Queued /\ x \in Queued
    <3>1. Elems(inputQueue)' = Elems(inputQueue') /\ Elems(outputQueue)' = Elems(outputQueue')
      BY DEF Elems
    <3>. QED  BY <1>3, <2>1, <3>1 DEF Queued
  <2>3. \A u \in Tasks : held'[u] \in {held[u], x}
    BY <1>0, <1>3
  <2>. QED  BY <1>3, <1>0, <2>2, <2>3, WayStep
<1>4. ASSUME UNCHANGED <<currentConfigIndex, inputQueue, outputQueue>>,
             \/ held' = held /\ pending' \in {pending, None}
             \/ /\ held' = [held EXCEPT ![Writer] = None]
                /\ pending' \in {held[Writer], None}
      PROVE  OnItsWay(f)
  <2>1. Queued' = Queued
    BY <1>4 DEF Queued, Elems
  <2>2. \A u \in Tasks : held'[u] \in {held[u], None}
    BY <1>0, <1>4
  <2>. QED  BY <1>4, <1>0, <2>1, <2>2, WayStep
<1>5. ASSUME NEW t \in Readers, FetchFrame(t) PROVE OnItsWay(f)
  <2>1. /\ Queued' = Queued /\ pending' = pending
        /\ currentConfigIndex' = currentConfigIndex + 1
    BY <1>5 DEF FetchFrame, queues, files, Queued, Elems
  <2>2. \A u \in Tasks : held'[u] \in {held[u], currentConfigIndex}
    BY <1>0, <1>5 DEF FetchFrame
  <2>. QED  BY <1>0, <2>1, <2>2, WayStep
<1>6. CASE UNCHANGED vars
  BY <1>1, <1>6 DEF vars, taskVars, queues, files
<1>7. CASE Main \/ StartTask
  BY <1>1, <1>7 DEF Main, GetFileSize, PostTask, JoinTask, JoinThrows, StopPool,
     RestoreOutput, DestroyMembers, JoinPool, StartTask, taskVars, queues, files
<1>8. ASSUME NEW t \in Readers, Reader(t) PROVE OnItsWay(f)
  <2>0. t \in Tasks
    BY Kinds
  <2>1. CASE OpenInput(t)
    BY <1>1, <2>1 DEF OpenInput, queues, files
  <2>2. CASE FetchFrame(t)
    BY <1>5, <2>2
  <2>3. CASE PushFrame(t)
    <3>1. held[t] \in Frames
      BY <2>0, <2>3 DEF IInv, KindOK, PushFrame
    <3>. QED  BY <1>2, <2>0, <2>3, <3>1 DEF PushFrame, files
  <2>. QED  BY <1>8, <2>1, <2>2, <2>3 DEF Reader
<1>9. ASSUME NEW t \in Calculators, Calculator(t) PROVE OnItsWay(f)
  <2>0. t \in Tasks
    BY Kinds
  <2>1. CASE CheckProducer(t, readingFinished) \/ TimeOut(t, inputQueue) \/ InputDrained(t)
    BY <1>1, <2>1 DEF CheckProducer, TimeOut, InputDrained, queues, files
  <2>2. CASE TakeInput(t)
    BY <1>3, <2>0, <2>2 DEF TakeInput, TakeFrame, files
  <2>3. CASE CalculateAndPush(t)
    <3>1. held[t] \in Frames
      BY <2>0, <2>3 DEF IInv, KindOK, CalculateAndPush, Holds
    <3>. QED  BY <1>2, <2>0, <2>3, <3>1 DEF CalculateAndPush, FrameDone, files
  <2>4. CASE CalculationFails(t)
    BY <1>3, <2>0, <2>4 DEF CalculationFails, files
  <2>. QED  BY <1>9, <2>1, <2>2, <2>3, <2>4 DEF Calculator
<1>10. CASE WriterTask
  <2>1. CASE OpenOutput \/ CheckProducer(Writer, calculationFinished)
             \/ TimeOut(Writer, outputQueue) \/ CloseFails
    BY <1>1, <2>1 DEF OpenOutput, CheckProducer, TimeOut, CloseFails, taskVars, queues, files
  <2>2. CASE TakeOutput
    BY <1>3, <2>2, Kinds DEF TakeOutput, TakeFrame, files
  <2>3. CASE WriteFrame
    BY <1>4, <2>3 DEF WriteFrame, FrameDone, queues
  <2>4. CASE WriteFails \/ CloseOutput
    BY <1>4, <2>4 DEF WriteFails, CloseOutput, queues
  <2>. QED  BY <1>10, <2>1, <2>2, <2>3, <2>4 DEF WriterTask
<1>11. ASSUME NEW t \in Tasks, UseDestroyedMember(t) PROVE OnItsWay(f)
  BY <1>1, <1>11 DEF UseDestroyedMember, taskVars, queues, files
<1>. QED  BY <1>6, <1>7, <1>8, <1>9, <1>10, <1>11 DEF Next, Terminated

-----------------------------------------------------------------------------
(* The writer's steps sign the blocks of frames that were on their way and *)
(* no longer are.                                                          *)

(* What the writer puts into the file: nothing, the frame in the buffer,   *)
(* or that and the one in its hands.                                       *)
LEMMA WriterSigns ==
  ASSUME Flow, Fresh, Holds(Writer) => held[Writer] \in Frames,
         WriteFrame \/ WriteFails \/ CloseOutput
  PROVE  \E F \in SUBSET Frames :
           /\ SignedBlocks' = SignedBlocks \cup UNION {BlocksOf(f) : f \in F}
           /\ \A f \in F : OnItsWay(f) /\ ~OnItsWay(f)'
<1>. DEFINE first == IF stream = "linked" /\ pending # None THEN {pending} ELSE {}
            second == IF stream = "linked" THEN {held[Writer]} ELSE {}
<1>0. /\ pending \in Frames \cup {None} /\ None \notin Frames
      /\ currentConfigIndex' = currentConfigIndex /\ Queued' = Queued
      /\ \A f \in Frames : f \in Nat /\ f # None
      /\ held \in [Tasks -> Frames \cup {None}] /\ Writer \in Tasks
      /\ currentConfigIndex \in Nat
  BY FrameNumbers, NoneAssumption, Kinds
     DEF Flow, TypeOK, WriteFrame, WriteFails, CloseOutput, queues, Queued, Elems
<1>1. SignedBlocks = SignedIn(content) /\ SignedBlocks' = SignedIn(content')
  BY DEF SignedBlocks, SignedIn
<1>2. SignedIn(Put(content, pending)) = SignedIn(content) \cup UNION {BlocksOf(f) : f \in first}
  BY <1>0, PutSigns
<1>3. pending \in Frames =>
        /\ pending < currentConfigIndex /\ pending \notin Queued
        /\ \A t \in Tasks : held[t] # pending
        /\ OnItsWay(pending)
  BY <1>0 DEF Flow, Alone, Fetched, OnItsWay
<1>4. CASE content' = content
  <2>1. UNION {BlocksOf(f) : f \in {}} = {}
    OBVIOUS
  <2>2. SignedBlocks' = SignedBlocks \cup UNION {BlocksOf(f) : f \in {}}
    BY <1>1, <1>4, <2>1
  <2>. WITNESS {} \in SUBSET Frames
  <2>. QED  BY <2>2
<1>5. CASE /\ content' = Put(content, pending) /\ pending' \in {None, held[Writer]}
           /\ \A t \in Tasks : held'[t] \in {held[t], None}
  <2>1. SignedBlocks' = SignedBlocks \cup UNION {BlocksOf(f) : f \in first}
    BY <1>1, <1>2, <1>5
  <2>2. first \in SUBSET Frames /\ \A f \in first : OnItsWay(f)
    BY <1>0, <1>3
  <2>3. \A f \in first : ~OnItsWay(f)'
    BY <1>0, <1>3, <1>5 DEF OnItsWay
  <2>. HIDE DEF first
  <2>. QED  BY <2>1, <2>2, <2>3
<1>6. CASE /\ content' = Put(Put(content, pending), held[Writer]) /\ pending' = None
           /\ held[Writer] \in Frames
           /\ held' = [held EXCEPT ![Writer] = None]
  <2>1. SignedIn(content') = SignedIn(Put(content, pending)) \cup UNION {BlocksOf(f) : f \in second}
    BY <1>0, <1>6, PutSigns
  <2>2. SignedBlocks' = SignedBlocks \cup UNION {BlocksOf(f) : f \in first \cup second}
    <3>. HIDE DEF first, second
    <3>. QED  BY <1>1, <1>2, <2>1
  <2>3. first \cup second \in SUBSET Frames
    BY <1>0, <1>6
  <2>4. /\ held'[Writer] = None
        /\ \A t \in Tasks : t # Writer => held'[t] = held[t] /\ held[t] # held[Writer]
        /\ held[Writer] \notin Queued /\ held[Writer] < currentConfigIndex
        /\ OnItsWay(held[Writer])
    BY <1>0, <1>6 DEF Flow, Alone, Fetched, OnItsWay
  <2>5. ASSUME NEW f \in Frames, f = held[Writer] \/ f = pending PROVE ~OnItsWay(f)'
    <3>1. f # None /\ f < currentConfigIndex /\ f \notin Queued
      BY <1>0, <1>3, <2>4, <2>5
    <3>2. ~(currentConfigIndex <= f)
      BY <1>0, <3>1
    <3>3. \A t \in Tasks : held'[t] # f
      BY <1>3, <2>4, <2>5, <3>1
    <3>. QED  BY <1>0, <1>6, <3>1, <3>2, <3>3 DEF OnItsWay
  <2>6. ASSUME NEW f \in first \cup second PROVE OnItsWay(f) /\ ~OnItsWay(f)'
    <3>1. f \in Frames /\ (f = held[Writer] \/ f = pending)
      BY <1>0, <1>6
    <3>2. OnItsWay(f)
      BY <1>3, <2>4, <3>1
    <3>. QED  BY <2>5, <3>1, <3>2
  <2>. HIDE DEF first, second
  <2>. QED  BY <2>2, <2>3, <2>6
<1>. QED  BY <1>0, <1>4, <1>5, <1>6 DEF WriteFrame, WriteFails, CloseOutput, FrameDone

LEMMA NextFresh ==
  ASSUME IInv, Flow, Fresh, [Next]_vars
  PROVE  Fresh'
<1>. SUFFICES ASSUME NEW f \in Frames, OnItsWay(f)'
              PROVE  BlocksOf(f) \cap SignedIn(content') = {}
  BY DEF Fresh
<1>1. OnItsWay(f) /\ BlocksOf(f) \cap SignedIn(content) = {}
  BY NothingComesBack DEF Fresh
<1>2. CASE SignedIn(content') \subseteq SignedIn(content)
  BY <1>1, <1>2
<1>3. CASE WriteFrame \/ WriteFails \/ CloseOutput
  <2>1. Holds(Writer) => held[Writer] \in Frames
    BY Kinds DEF Holds, IInv, KindOK
  <2>2. PICK F \in SUBSET Frames :
          /\ SignedBlocks' = SignedBlocks \cup UNION {BlocksOf(g) : g \in F}
          /\ \A g \in F : OnItsWay(g) /\ ~OnItsWay(g)'
    BY <1>3, <2>1, WriterSigns
  <2>3. SignedBlocks = SignedIn(content) /\ SignedBlocks' = SignedIn(content')
    BY DEF SignedBlocks, SignedIn
  <2>4. f \notin F
    BY <2>2
  <2>5. \A g \in F : BlocksOf(f) \cap BlocksOf(g) = {}
    BY <2>4, FramesDisjoint
  <2>. QED  BY <1>1, <2>2, <2>3, <2>5
<1>4. CASE OpenOutput \/ RestoreOutput
  BY <1>2, <1>4 DEF OpenOutput, RestoreOutput, SignedIn
<1>5. CASE content' = content
  BY <1>2, <1>5
<1>. QED  BY <1>3, <1>4, <1>5, FileSteps

LEMMA InitFresh == Init => Fresh
BY NothingSigned DEF Init, Fresh

LEMMA FreshHolds == Spec => [](Flow /\ Fresh)
<1>1. Init => Flow /\ Fresh
  BY InitFlow, InitFresh, InitIInv DEF IInv, Flow
<1>2. IInv /\ IInv' /\ Flow /\ Fresh /\ [Next]_vars => Flow' /\ Fresh'
  BY NextFlow, NextFresh DEF IInv, Flow
<1>. QED  BY <1>1, <1>2, InvariantHolds, PTL DEF Spec

-----------------------------------------------------------------------------
LEMMA OutcomeKept ==
  ASSUME [Next]_vars, ~JoinPool
  PROVE  /\ Outcome' = Outcome
         /\ content' # content => Outcome = "running"
<1>1. CASE UNCHANGED vars \/ Terminated
  BY <1>1 DEF Terminated, vars, mainVars, control, files, Outcome
<1>2. CASE main # "exited" /\ main' # "exited"
  BY <1>2 DEF Outcome
<1>3. CASE StartTask \/ Main
  <2>1. main # "exited" /\ main' # "exited"
    BY <1>3 DEF StartTask, Main, GetFileSize, PostTask, JoinTask, JoinThrows, StopPool,
       RestoreOutput, DestroyMembers, mainVars, Ends
  <2>. QED  BY <1>2, <2>1
<1>4. CASE WriterTask \/ \E t : Reader(t) \/ Calculator(t) \/ UseDestroyedMember(t)
  <2>1. main # "exited" /\ main' # "exited"
    BY <1>4 DEF WriterTask, WriteFails, CloseFails, Reader, Calculator, UseDestroyedMember,
       MayRun, mainVars, Ends
  <2>. QED  BY <1>2, <2>1
<1>. QED  BY <1>1, <1>3, <1>4 DEF Next

(* Every step of the pipeline is a step of the promise, or none. *)
LEMMA StepRefines ==
  ASSUME IInv, Flow, Fresh, Aftermath, [Next]_vars
  PROVE  [Abstract!Next]_(Abstract!vars)
<1>0. /\ SignedBlocks = SignedIn(content) /\ SignedBlocks' = SignedIn(content')
      /\ SignedBlocks \subseteq Blocks
  BY DEF SignedBlocks, SignedIn
<1>1. CASE JoinPool
  <2>1. /\ content' = content /\ main = "joinPool" /\ main' = "exited" /\ success' = success
    BY <1>1 DEF JoinPool, files, control
  <2>2. Outcome = "running" /\ Outcome' = IF success THEN "success" ELSE "failure"
    BY <2>1 DEF Outcome, IInv, TypeOK
  <2>3. CASE success
    <3>1. Signed
      BY <2>3, SignedWhenJoined DEF SuccessMeansSigned
    <3>2. SignedBlocks = Blocks
      BY <3>1 DEF Signed, SignedBlocks
    <3>. QED  BY <1>0, <2>1, <2>2, <2>3, <3>2 DEF Abstract!Next, Abstract!Succeed
  <2>4. CASE ~success
    <3>1. content = Original
      BY <2>1, <2>4 DEF Aftermath, Over
    <3>2. SignedBlocks = {}
      BY <1>0, <3>1, NothingSigned
    <3>. QED  BY <1>0, <2>1, <2>2, <2>4, <3>2 DEF Abstract!Next, Abstract!Fail
  <2>. QED  BY <2>3, <2>4
<1>2. CASE ~JoinPool
  <2>0. Outcome' = Outcome /\ (content' # content => Outcome = "running")
    BY <1>2, OutcomeKept
  <2>1. CASE SignedBlocks' = SignedBlocks
    BY <2>0, <2>1 DEF Abstract!vars
  <2>2. ASSUME SignedBlocks' # SignedBlocks PROVE Outcome = "running"
    BY <1>0, <2>0, <2>2
  <2>3. CASE WriteFrame \/ WriteFails \/ CloseOutput
    <3>1. Holds(Writer) => held[Writer] \in Frames
      BY Kinds DEF Holds, IInv, KindOK
    <3>2. PICK F \in SUBSET Frames :
            /\ SignedBlocks' = SignedBlocks \cup UNION {BlocksOf(g) : g \in F}
            /\ \A g \in F : OnItsWay(g)
      BY <2>3, <3>1, WriterSigns
    <3>. DEFINE S == UNION {BlocksOf(g) : g \in F}
    <3>3. S \in SUBSET Blocks /\ S \cap SignedBlocks = {}
      BY <1>0, <3>2, FramesDisjoint DEF Fresh
    <3>. HIDE DEF S
    <3>4. CASE S = {}
      BY <2>1, <3>2, <3>4 DEF S
    <3>5. CASE S # {}
      <4>1. SignedBlocks' = SignedBlocks \cup S
        BY <3>2 DEF S
      <4>2. Outcome = "running"
        BY <2>2, <3>3, <3>5, <4>1
      <4>3. Abstract!Sign(S)
        BY <2>0, <3>3, <3>5, <4>1, <4>2 DEF Abstract!Sign
      <4>. QED  BY <3>3, <4>3 DEF Abstract!Next
    <3>. QED  BY <3>4, <3>5
  <2>4. CASE OpenOutput
    <3>1. CASE content' = content
      BY <1>0, <2>1, <3>1
    <3>2. CASE content' = [p \in {} |-> OldByte]
      <4>1. SignedBlocks' = {}
        BY <1>0, <3>2 DEF SignedIn
      <4>2. pc[Writer] \in Unopened
        BY <2>4 DEF OpenOutput, Unopened
      <4>3. SignedBlocks = {}
        BY <1>0, <4>2, NothingSigned DEF Aftermath
      <4>. QED  BY <2>1, <4>1, <4>3
    <3>. QED  BY <2>4, <3>1, <3>2 DEF OpenOutput
  <2>5. CASE RestoreOutput
    <3>1. SignedBlocks' = {}
      <4>1. \A b \in Blocks : OriginalSize + b \notin 0 .. OriginalSize - 1
        BY InputAssumption DEF Blocks
      <4>. QED  BY <1>0, <2>5, <4>1 DEF RestoreOutput, SignedIn
    <3>2. CASE SignedBlocks # {}
      BY <2>0, <2>2, <3>1, <3>2 DEF Abstract!Restore, Abstract!Next
    <3>. QED  BY <2>1, <3>1, <3>2
  <2>6. CASE content' = content
    BY <1>0, <2>1, <2>6
  <2>. QED  BY <2>3, <2>4, <2>5, <2>6, FileSteps
<1>. QED  BY <1>1, <1>2

LEMMA InitRefines == Init => Abstract!Init
<1>1. Init => SignedBlocks = {} /\ Outcome = "running"
  BY NothingSigned DEF Init, SignedBlocks, SignedIn, Outcome
<1>. QED  BY <1>1 DEF Abstract!Init

(* If only the size of the input, the writer and its file can fail, the    *)
(* pipeline does nothing that SignatureFile does not allow: each CRC is    *)
(* stored once, success is reported when all are stored and a failure when *)
(* none is left in the file, for every size and number of threads.         *)
THEOREM PromiseIsKept == OnlyWriterFails => (Spec => Abstract!SafetySpec)
<1>1. IInv /\ Flow /\ Fresh /\ Aftermath /\ [Next]_vars => [Abstract!Next]_(Abstract!vars)
  BY StepRefines
<1>. QED  BY <1>1, InitRefines, InvariantHolds, FreshHolds, AftermathHolds, PTL
          DEF Spec, Abstract!SafetySpec
=============================================================================
