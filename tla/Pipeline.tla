------------------------------ MODULE Pipeline ------------------------------
(***************************************************************************)
(* One run of CrcSignatureOfFile::readCalculateAndWrite and of the         *)
(* destructor after it: the main thread, the reader, writer and calculator *)
(* tasks it posts to the pool, the two queues between them, the files, and *)
(* what can fail.                                                          *)
(*                                                                         *)
(* A queue operation is one step, which ParallelQueue justifies (it        *)
(* implements BoundedQueue).  A frame is its number: Sizing says which     *)
(* blocks it carries.  Outside src/ and modelled as the code uses them:    *)
(* the asio pool (first come first served, at most getThreadCnt() tasks at *)
(* a time), std::future, the file streams and the file system (POSIX: a    *)
(* removed file stays writable through an open stream).                    *)
(***************************************************************************)
EXTENDS Sizing, Sequences, FiniteSets

CONSTANTS FileSize, BlockSize, MaxRamSize, OptimalDataFrameSize,
          HardwareConcurrency, IsSSD,
          OutputExisted,   \* was there an output file before the run?
          OriginalSize,    \* its size
          None,            \* no frame
          Faults           \* what may go wrong in this run

FaultKinds == {"missingInput",  \* file_size of the input throws
               "readerOpen",    \* a reader cannot open the input
               "readFail",      \* reading or allocating a frame throws
               "calcAlloc",     \* allocating a frame of CRCs throws
               "writerOpen",    \* the writer cannot open the output
               "writeFail",     \* seekp or write throws
               "closeFail"}     \* close cannot write what is still buffered

ASSUME InputAssumption ==
  /\ FileSize \in Nat /\ BlockSize \in Nat \ {0} /\ MaxRamSize \in Nat
  /\ OptimalDataFrameSize \in Nat \ {0} /\ HardwareConcurrency \in Nat
  /\ IsSSD \in BOOLEAN /\ OutputExisted \in BOOLEAN /\ OriginalSize \in Nat
  /\ ~OutputExisted => OriginalSize = 0
  /\ getMaxQueueSize(BlockSize, MaxRamSize) > 0
ASSUME FaultsAssumption == Faults \subseteq FaultKinds
ASSUME NoneAssumption == None \notin Nat

-----------------------------------------------------------------------------
ThreadCnt == getThreadCnt(HardwareConcurrency)
ReadCnt == readTasksCnt(HardwareConcurrency, IsSSD)
CalcCnt == crcCaclulationTasksCnt(HardwareConcurrency)
TaskCnt == ReadCnt + 1 + CalcCnt
MaxQueueSize == getMaxQueueSize(BlockSize, MaxRamSize)

Frames == 0 .. dataFramesInFile(FileSize, BlockSize, OptimalDataFrameSize) - 1
Blocks == 0 .. dataBlocksInFile(FileSize, BlockSize) - 1
BlocksOf(f) == blocksOfFrame(f, FileSize, BlockSize, OptimalDataFrameSize)

Readers == {"reader"} \X (1 .. ReadCnt)
Writer == <<"writer", 1>>
Calculators == {"calculator"} \X (1 .. CalcCnt)
Tasks == Readers \cup {Writer} \cup Calculators

(* A slip: the writer is posted last. *)
PostedTaskWriterLast(i) == IF i <= ReadCnt THEN <<"reader", i>>
                           ELSE IF i = TaskCnt THEN Writer
                           ELSE <<"calculator", i - ReadCnt>>

(* The i-th task posted (lines 73-91). *)
PostedTask(i) == IF i <= ReadCnt THEN <<"reader", i>>
                 ELSE IF i = ReadCnt + 1 THEN Writer
                 ELSE <<"calculator", i - ReadCnt - 1>>

(* The i-th task waited for (lines 93-115). *)
JoinedTask(i) == IF i <= ReadCnt THEN <<"reader", i>>
                 ELSE IF i = TaskCnt THEN Writer
                 ELSE <<"calculator", i - ReadCnt>>

-----------------------------------------------------------------------------
VARIABLES
  main,                 \* where the main thread is
  next,                 \* the number of the task it posts or waits for
  success,              \* success_
  readingFinished,      \* *isReadingFinished
  calculationFinished,  \* *isCrcCalculationFinished
  poolQueue,            \* tasks posted and not started
  stopped,              \* pool_.stop() has been called
  pc,                   \* pc[t]: where task t is
  held,                 \* held[t]: the frame in task t's hands
  currentConfigIndex,   \* the next frame to read
  inputQueue, outputQueue,
  exists,               \* is there an output file?
  content,              \* its bytes, by position; a hole is no element
  stream,               \* the writer's: "closed", "linked" to the file of
                        \* that name, or "unlinked" since its removal
  pending               \* the frame in the stream's buffer

control == <<next, success, readingFinished, calculationFinished>>
mainVars == <<main, control>>
poolVars == <<poolQueue, stopped>>
taskVars == <<pc, held, currentConfigIndex>>
queues == <<inputQueue, outputQueue>>
files == <<exists, content, stream, pending>>
vars == <<mainVars, poolVars, taskVars, queues, files>>

MainPCs == {"fileSize", "post", "join", "stop", "restore", "destroy", "joinPool"}
Ends == {"exited", "aborted", "undefined"}
TaskPCs == {"idle", "posted", "open", "fetch", "push", "check", "wait",
            "waitHold", "drain", "drainHold", "done", "failed"}

(* A byte of the output file is an old one or the CRC of a block. *)
OldByte == <<"old", 0>>
CrcOf(b) == <<"crc", b>>
Original == [p \in 0 .. OriginalSize - 1 |-> OldByte]

TypeOK ==
  /\ main \in MainPCs \cup Ends
  /\ next \in 1 .. TaskCnt + 1
  /\ success \in BOOLEAN /\ readingFinished \in BOOLEAN
  /\ calculationFinished \in BOOLEAN /\ stopped \in BOOLEAN /\ exists \in BOOLEAN
  /\ poolQueue \in Seq(Tasks)
  /\ pc \in [Tasks -> TaskPCs]
  /\ held \in [Tasks -> Frames \cup {None}]
  /\ currentConfigIndex \in Nat
  /\ inputQueue \in Seq(Frames) /\ outputQueue \in Seq(Frames)
  /\ stream \in {"closed", "linked", "unlinked"}
  /\ pending \in Frames \cup {None}

Init ==
  /\ main = "fileSize" /\ next = 1
  /\ success = FALSE /\ readingFinished = FALSE /\ calculationFinished = FALSE
  /\ poolQueue = <<>> /\ stopped = FALSE
  /\ pc = [t \in Tasks |-> "idle"] /\ held = [t \in Tasks |-> None]
  /\ currentConfigIndex = 0
  /\ inputQueue = <<>> /\ outputQueue = <<>>
  /\ exists = OutputExisted /\ content = Original
  /\ stream = "closed" /\ pending = None

-----------------------------------------------------------------------------
(* The pool (boost::asio::thread_pool). *)

Running(t) == pc[t] \notin {"idle", "posted", "done", "failed"}

(* A free thread takes the oldest posted task. *)
StartTask ==
  /\ main \notin Ends
  /\ poolQueue # <<>> /\ ~stopped
  /\ Cardinality({t \in Tasks : Running(t)}) < ThreadCnt
  /\ LET t == Head(poolQueue)
     IN  pc' = [pc EXCEPT ![t] = IF t \in Calculators THEN "check" ELSE "open"]
  /\ poolQueue' = Tail(poolQueue)
  /\ UNCHANGED <<mainVars, stopped, held, currentConfigIndex, queues, files>>

Goto(t, where) == pc' = [pc EXCEPT ![t] = where]
HasRoom(queue) == Len(queue) < MaxQueueSize

-----------------------------------------------------------------------------
(* Reader tasks (the lambda of readAllAsDataFrames). *)

OpenInput(t) ==
  /\ pc[t] = "open"
  /\ \/ Goto(t, "fetch")
     \/ "readerOpen" \in Faults /\ Goto(t, "failed")
  /\ UNCHANGED <<held, currentConfigIndex, queues, files>>

(* A slip: the shared index is read but not advanced in the same step. *)
FetchFrameRacing(t) ==
  /\ pc[t] = "fetch"
  /\ \/ currentConfigIndex' \in {currentConfigIndex, currentConfigIndex + 1}
        /\ currentConfigIndex \in Frames
        /\ held' = [held EXCEPT ![t] = currentConfigIndex]
        /\ Goto(t, "push")
     \/ /\ currentConfigIndex \notin Frames
        /\ Goto(t, "done")
        /\ UNCHANGED <<held, currentConfigIndex>>
  /\ UNCHANGED <<queues, files>>

(* A slip: one configuration too many is asked for. *)
FetchFrameOffByOne(t) ==
  /\ pc[t] = "fetch"
  /\ currentConfigIndex' = currentConfigIndex + 1
  /\ \/ /\ currentConfigIndex \in Frames \cup {Cardinality(Frames)}
        /\ held' = [held EXCEPT ![t] = currentConfigIndex]
        /\ Goto(t, "push")
     \/ /\ currentConfigIndex > Cardinality(Frames)
        /\ Goto(t, "done")
        /\ UNCHANGED held
  /\ UNCHANGED <<queues, files>>

(* The shared index is advanced atomically, then the frame is read. *)
FetchFrame(t) ==
  /\ pc[t] = "fetch"
  /\ currentConfigIndex' = currentConfigIndex + 1
  /\ \/ /\ currentConfigIndex \in Frames
        /\ held' = [held EXCEPT ![t] = currentConfigIndex]
        /\ Goto(t, "push")
     \/ /\ currentConfigIndex \in Frames /\ "readFail" \in Faults
        /\ Goto(t, "failed")
        /\ UNCHANGED held
     \/ /\ currentConfigIndex \notin Frames
        /\ Goto(t, "done")
        /\ UNCHANGED held
  /\ UNCHANGED <<queues, files>>

PushFrame(t) ==
  /\ pc[t] = "push" /\ HasRoom(inputQueue)
  /\ inputQueue' = Append(inputQueue, held[t])
  /\ held' = [held EXCEPT ![t] = None]
  /\ Goto(t, "fetch")
  /\ UNCHANGED <<currentConfigIndex, outputQueue, files>>

-----------------------------------------------------------------------------
(* What calculators and the writer have in common: poll the queue until    *)
(* the producers have finished, then drain it.                             *)

(* A slip: after the producers have finished, what is queued is left there. *)
CheckProducerNoDrain(t, hasProducerFinished) ==
  /\ pc[t] = "check"
  /\ Goto(t, IF hasProducerFinished THEN "done" ELSE "wait")
  /\ UNCHANGED <<held, currentConfigIndex, queues, files>>

CheckProducer(t, hasProducerFinished) ==
  /\ pc[t] = "check"
  /\ Goto(t, IF hasProducerFinished THEN "drain" ELSE "wait")
  /\ UNCHANGED <<held, currentConfigIndex, queues, files>>

(* waitAndPop or tryPop returns true. *)
TakeFrame(t, src) ==
  /\ pc[t] \in {"wait", "drain"} /\ src # <<>>
  /\ held' = [held EXCEPT ![t] = Head(src)]
  /\ Goto(t, IF pc[t] = "wait" THEN "waitHold" ELSE "drainHold")
  /\ UNCHANGED <<currentConfigIndex, files>>

(* waitAndPop returns false after 100 ms. *)
TimeOut(t, src) ==
  /\ pc[t] = "wait" /\ src = <<>>
  /\ Goto(t, "check")
  /\ UNCHANGED <<held, currentConfigIndex, queues, files>>

Holds(t) == pc[t] \in {"waitHold", "drainHold"}

(* Back to the loop the frame came from. *)
FrameDone(t) ==
  /\ held' = [held EXCEPT ![t] = None]
  /\ Goto(t, IF pc[t] = "waitHold" THEN "wait" ELSE "drain")

(* Calculator tasks (the lambda of calculateForWholeQueue). *)

TakeInput(t) == /\ TakeFrame(t, inputQueue)
                /\ inputQueue' = Tail(inputQueue)
                /\ UNCHANGED outputQueue

CalculateAndPush(t) ==
  /\ Holds(t) /\ HasRoom(outputQueue)
  /\ outputQueue' = Append(outputQueue, held[t])
  /\ FrameDone(t)
  /\ UNCHANGED <<currentConfigIndex, inputQueue, files>>

(* There is no memory for the CRCs of the frame just taken.  (A failure    *)
(* that only its task can see is joined to the step before it.)            *)
CalculationFails(t) ==
  /\ pc[t] \in {"wait", "drain"} /\ inputQueue # <<>>
  /\ "calcAlloc" \in Faults
  /\ inputQueue' = Tail(inputQueue)
  /\ Goto(t, "failed")
  /\ UNCHANGED <<held, currentConfigIndex, outputQueue, files>>

InputDrained(t) ==
  /\ pc[t] = "drain" /\ inputQueue = <<>>
  /\ Goto(t, "done")
  /\ UNCHANGED <<held, currentConfigIndex, queues, files>>

-----------------------------------------------------------------------------
(* The writer task (the lambda of writeAllDataFrames) and its DataFile. *)

(* A slip: writingPosShift is forgotten. *)
PositionsUnshifted(f) == BlocksOf(f)

(* Where the CRCs of a frame go: writingPosShift is the original size. *)
Positions(f) == {OriginalSize + b : b \in BlocksOf(f)}

(* What content c of the file becomes when the CRCs of frame f reach it. *)
Put(c, f) ==
  IF stream # "linked" \/ f = None THEN c
  ELSE [p \in DOMAIN c \cup Positions(f) |->
          IF p \in Positions(f) THEN CrcOf(p - OriginalSize) ELSE c[p]]

(* With an existing file the mode is in|out, otherwise out, which empties  *)
(* or creates the file (getOpenModeForOutputFile).                         *)
OpenOutput ==
  /\ pc[Writer] = "open"
  /\ \/ /\ Goto(Writer, "check")
        /\ stream' = "linked" /\ exists' = TRUE
        /\ content' = IF OutputExisted THEN content ELSE [p \in {} |-> OldByte]
     \/ /\ "writerOpen" \in Faults
        /\ Goto(Writer, "failed")
        /\ UNCHANGED <<stream, exists, content>>
  /\ UNCHANGED <<held, currentConfigIndex, queues, pending>>

TakeOutput == /\ TakeFrame(Writer, outputQueue)
              /\ outputQueue' = Tail(outputQueue)
              /\ UNCHANGED inputQueue

(* A slip: the buffered frame is lost at the next seek. *)
WriteFrameDropping ==
  /\ Holds(Writer)
  /\ content' = content /\ pending' = held[Writer]
  /\ FrameDone(Writer)
  /\ UNCHANGED <<currentConfigIndex, queues, exists, stream>>

(* seekp writes out what the previous frame left in the buffer; then write *)
(* puts the new frame there or, being large, directly into the file.       *)
WriteFrame ==
  /\ Holds(Writer)
  /\ LET flushed == Put(content, pending)
     IN  \/ content' = flushed /\ pending' = held[Writer]
         \/ content' = Put(flushed, held[Writer]) /\ pending' = None
  /\ FrameDone(Writer)
  /\ UNCHANGED <<currentConfigIndex, queues, exists, stream>>

(* seekp or write throws.  The destructor of DataFile closes the stream    *)
(* first: with what is still buffered it succeeds, or throws out of a      *)
(* noexcept function and so ends the program.                              *)
WriteFails ==
  /\ Holds(Writer) /\ "writeFail" \in Faults
  /\ \/ /\ content' \in {content, Put(content, pending)}
        /\ Goto(Writer, "failed")
        /\ stream' = "closed" /\ pending' = None
        /\ UNCHANGED main
     \/ /\ "closeFail" \in Faults /\ pending # None
        /\ main' = "aborted"
        /\ UNCHANGED <<pc, content, stream, pending>>
  /\ UNCHANGED <<control, held, currentConfigIndex, queues, exists>>

(* The queue is drained: ~DataFile writes out the buffer and closes. *)
CloseOutput ==
  /\ pc[Writer] = "drain" /\ outputQueue = <<>>
  /\ Goto(Writer, "done")
  /\ content' = Put(content, pending)
  /\ stream' = "closed" /\ pending' = None
  /\ UNCHANGED <<held, currentConfigIndex, queues, exists>>

CloseFails ==
  /\ pc[Writer] = "drain" /\ outputQueue = <<>>
  /\ "closeFail" \in Faults /\ pending # None
  /\ main' = "aborted"
  /\ UNCHANGED <<control, taskVars, queues, files>>

-----------------------------------------------------------------------------
(* The members of CrcSignatureOfFile are destroyed in reverse order of     *)
(* their declaration, so before pool_, whose destructor waits for the      *)
(* tasks.  A task still running then touches a destroyed queue or path:    *)
(* undefined behaviour.                                                    *)
TouchesMembers(t) ==
  \/ pc[t] \in {"open", "push", "wait", "drain"}
  \/ Holds(t) /\ t \in Calculators

UseDestroyedMember(t) ==
  /\ main = "joinPool" /\ Running(t) /\ TouchesMembers(t)
  /\ main' = "undefined"
  /\ UNCHANGED <<control, poolVars, taskVars, queues, files>>

MayRun(t) == main \notin Ends /\ ~(main = "joinPool" /\ TouchesMembers(t))

Reader(t) == /\ MayRun(t)
             /\ OpenInput(t) \/ FetchFrame(t) \/ PushFrame(t)
             /\ UNCHANGED <<mainVars, poolVars>>

Calculator(t) ==
  /\ MayRun(t)
  /\ \/ CheckProducer(t, readingFinished)
     \/ TakeInput(t)
     \/ TimeOut(t, inputQueue)
     \/ CalculateAndPush(t)
     \/ CalculationFails(t)
     \/ InputDrained(t)
  /\ UNCHANGED <<mainVars, poolVars>>

WriterTask ==
  /\ MayRun(Writer)
  /\ \/ /\ \/ OpenOutput
           \/ CheckProducer(Writer, calculationFinished)
           \/ TakeOutput
           \/ TimeOut(Writer, outputQueue)
           \/ WriteFrame
           \/ CloseOutput
        /\ UNCHANGED mainVars
     \/ WriteFails
     \/ CloseFails
  /\ UNCHANGED poolVars

-----------------------------------------------------------------------------
(* The main thread. *)

(* readAllAsDataFrames asks for the size of the input before it posts. *)
GetFileSize ==
  /\ main = "fileSize"
  /\ \/ main' = "post"
     \/ "missingInput" \in Faults /\ main' = "stop"
  /\ UNCHANGED <<control, poolVars, taskVars, queues, files>>

PostTask ==
  /\ main = "post"
  /\ poolQueue' = Append(poolQueue, PostedTask(next))
  /\ Goto(PostedTask(next), "posted")
  /\ \/ next < TaskCnt /\ next' = next + 1 /\ UNCHANGED main
     \/ next = TaskCnt /\ next' = 1 /\ main' = "join"
  /\ UNCHANGED <<success, readingFinished, calculationFinished, stopped,
                 held, currentConfigIndex, queues, files>>

(* A slip: the flag is stored when the first reader is done, not the last. *)
JoinTaskEarlyFlag ==
  /\ main = "join" /\ next <= TaskCnt /\ pc[JoinedTask(next)] = "done"
  /\ next' = next + 1
  /\ readingFinished' = TRUE
  /\ calculationFinished' = (next >= ReadCnt + 1)
  /\ success' = (next = TaskCnt)
  /\ main' = IF next = TaskCnt THEN "destroy" ELSE "join"
  /\ UNCHANGED <<poolVars, taskVars, queues, files>>

(* future.get() returns; after the last future of a stage the flag of that *)
(* stage is stored.                                                        *)
JoinTask ==
  /\ main = "join" /\ next <= TaskCnt /\ pc[JoinedTask(next)] = "done"
  /\ next' = next + 1
  /\ readingFinished' = (next >= ReadCnt)
  /\ calculationFinished' = (next >= ReadCnt + CalcCnt)
  /\ success' = (next = TaskCnt)
  /\ main' = IF next = TaskCnt THEN "destroy" ELSE "join"
  /\ UNCHANGED <<poolVars, taskVars, queues, files>>

(* future.get() rethrows what the task threw. *)
JoinThrows ==
  /\ main = "join" /\ next <= TaskCnt /\ pc[JoinedTask(next)] = "failed"
  /\ main' = "stop"
  /\ UNCHANGED <<control, poolVars, taskVars, queues, files>>

(* cleanup, called by the destructor unless success_: tasks that have not  *)
(* started never will ...                                                  *)
StopPool ==
  /\ main = "stop"
  /\ stopped' = TRUE /\ main' = "restore"
  /\ UNCHANGED <<control, poolQueue, taskVars, queues, files>>

(* A slip: the file is removed even if it was there before. *)
RestoreOutputRemoving ==
  /\ main = "restore"
  /\ main' = "destroy"
  /\ exists' = FALSE /\ content' = [p \in {} |-> OldByte]
  /\ stream' = IF stream = "linked" THEN "unlinked" ELSE stream
  /\ UNCHANGED <<control, poolVars, taskVars, queues, pending>>

(* ... and the output file is cut to its old size, or removed. *)
RestoreOutput ==
  /\ main = "restore"
  /\ main' = "destroy"
  /\ \/ /\ OutputExisted
        /\ content' = [p \in DOMAIN content \cap (0 .. OriginalSize - 1) |-> content[p]]
        /\ UNCHANGED <<exists, stream>>
     \/ /\ ~OutputExisted
        /\ exists' = FALSE /\ content' = [p \in {} |-> OldByte]
        /\ stream' = IF stream = "linked" THEN "unlinked" ELSE stream
  /\ UNCHANGED <<control, poolVars, taskVars, queues, pending>>

(* Queues and files go; the destructor of the pool stops it and waits. *)
DestroyMembers ==
  /\ main = "destroy"
  /\ main' = "joinPool" /\ stopped' = TRUE
  /\ UNCHANGED <<control, poolQueue, taskVars, queues, files>>

JoinPool ==
  /\ main = "joinPool" /\ \A t \in Tasks : ~Running(t)
  /\ main' = "exited"
  /\ UNCHANGED <<control, poolVars, taskVars, queues, files>>

Main == \/ GetFileSize \/ PostTask \/ JoinTask \/ JoinThrows
        \/ StopPool \/ RestoreOutput \/ DestroyMembers \/ JoinPool

(* The process is over, or its behaviour no longer defined. *)
Terminated == main \in Ends /\ UNCHANGED vars

Next == \/ Main
        \/ StartTask
        \/ \E t \in Readers : Reader(t)
        \/ \E t \in Calculators : Calculator(t)
        \/ WriterTask
        \/ \E t \in Tasks : UseDestroyedMember(t)
        \/ Terminated

(* Every thread that can go on does: the scheduler of the system, the      *)
(* pool's threads and, for waiting queue calls, ParallelQueue's fairness.  *)
Fairness == /\ WF_vars(Main)
            /\ WF_vars(StartTask)
            /\ \A t \in Readers : WF_vars(Reader(t))
            /\ \A t \in Calculators : WF_vars(Calculator(t))
            /\ WF_vars(WriterTask)
            /\ \A t \in Tasks : WF_vars(UseDestroyedMember(t))

Spec == Init /\ [][Next]_vars /\ Fairness

-----------------------------------------------------------------------------
(* The CRC of every block of the input is at its place in the output file. *)
Signed == \A b \in Blocks : /\ OriginalSize + b \in DOMAIN content
                             /\ content[OriginalSize + b] = CrcOf(b)

(* When success_ is set, the signature is complete in the file: no frame   *)
(* was left in a queue, in a task's hands or in the stream's buffer, and   *)
(* no failure was overlooked (lines 93-116).                               *)
SuccessMeansSigned == success => exists /\ Signed

(* The bytes the output file had before the run are never touched,         *)
(* whatever fails (writingPosShift, line 85; resize_file, line 125).       *)
OriginalPrefixPreserved ==
  \A p \in 0 .. OriginalSize - 1 : p \in DOMAIN content /\ content[p] = OldByte

(* How many copies of a frame are on their way. *)
Copies(f) == Cardinality({t \in Tasks : held[t] = f})
               + Cardinality({i \in DOMAIN inputQueue : inputQueue[i] = f})
               + Cardinality({i \in DOMAIN outputQueue : outputQueue[i] = f})

(* No frame is read, calculated or written twice: the readers share one    *)
(* atomic index, and a pop takes a frame out for one task only             *)
(* (datafilewrapper.cpp lines 52 and 60).                                  *)
OneCopy == \A f \in Frames : /\ Copies(f) <= 1
                             /\ pending = f => Copies(f) = 0

(* The flags tell the truth: once a consumer can see that its producers    *)
(* have finished, nothing more will be pushed to its queue, so the drain   *)
(* loops, which stop at the first empty queue, miss nothing.               *)
FlagsSound ==
  /\ readingFinished =>
       /\ \A f \in Frames : f < currentConfigIndex
       /\ \A t \in Readers : held[t] = None
  /\ calculationFinished =>
       readingFinished /\ inputQueue = <<>> /\ \A t \in Calculators : held[t] = None

(* A run in which nothing fails comes to its end: the tasks never wait for *)
(* each other in a circle, although most calculators may still wait for a  *)
(* thread while the queues are full (the note of lines 78-80).             *)
Termination == <>(main = "exited" /\ success)

(* After a failure the user finds the output file as it was (cleanup).     *)
RestoredAtExit ==
  main = "exited" /\ ~success => exists = OutputExisted /\ content = Original

(* A writer that fails does not stop the run from ending: main fetches its *)
(* exception from the future and reports it (datafilewrapper.h:59,        *)
(* crcsignatureoffile.cpp:107-115).                                        *)
WriterFailureReported == (pc[Writer] = "failed") ~> (main = "exited")

(* After cleanup the tasks come to an end, so the pool can be joined       *)
(* (CleanupTest, with its limit of two seconds).                           *)
TasksEndAfterCleanup == (main = "destroy") ~> (main = "exited")

-----------------------------------------------------------------------------
SignedBlocks == {b \in Blocks : /\ OriginalSize + b \in DOMAIN content
                                /\ content[OriginalSize + b] = CrcOf(b)}

Outcome == CASE main = "exited" /\ success -> "success"
             [] main = "exited" /\ ~success -> "failure"
             [] OTHER -> "running"

Abstract == INSTANCE SignatureFile WITH signed <- SignedBlocks, outcome <- Outcome

(* The pipeline does what the user is promised: each CRC is stored once,   *)
(* and the outcome reported is the true one.                               *)
ImplementsSignatureFile == Abstract!Spec
=============================================================================
