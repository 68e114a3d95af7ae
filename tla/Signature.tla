----------------------------- MODULE Signature -----------------------------
(***************************************************************************)
(* The bytes of a run: which ones are read from the input, which checksums *)
(* they get, and where these end up in the output, through two DataFiles   *)
(* and the loop of crc8.  There is one reader, as for a hard disk; beside  *)
(* it runs the writer, which gets the checksums of one frame after the     *)
(* other, in any order: how calculators and queues bring that about is     *)
(* Pipeline's subject.  When another task has failed nothing ends the      *)
(* writer, which goes on while main cleans up, and afterwards.             *)
(*                                                                         *)
(* Others may change the input while it is read, and the output between    *)
(* the moment its size is asked for and the moment it is opened.           *)
(***************************************************************************)
EXTENDS DataFrame, FileContent, Sequences, FiniteSets

CONSTANTS OptimalDataFrameSize, DirectSize, MaxLength,
          Scenarios,   \* what may be found, and what may happen, in a run
          None         \* no frame or size, nothing buffered

(* What a scenario says: the files, the block size, whether frames are     *)
(* pushed by moving them, as the program does, or by copying, as its tests *)
(* do, which sizes others give the input, what they make of the output,    *)
(* and what may fail.                                                      *)
ASSUME ScenariosAssumption ==
  /\ {OptimalDataFrameSize, DirectSize} \subseteq Nat \ {0} /\ MaxLength \in Nat
  /\ \A s \in Scenarios : /\ s.blockSize \in 1 .. MaxLength
                          /\ s.copies \in BOOLEAN
                          /\ s.resizes \subseteq Nat
                          /\ s.faults \subseteq {"open", "memory", "read", "write", "close", "cleanup"}
                          /\ \A f \in {s.input, s.original} \cup s.meddles : f = NoFile \/ IsFile(f)

(* No frame has more bytes. *)
MaxCapacity == OptimalDataFrameSize + MaxLength

BytesUpTo(max) == UNION {[0 .. n - 1 -> 0 .. 255] : n \in 0 .. max}

FramesUpTo(max) == [firstBlockIdx : Nat, blockSize : Nat, blocksCount : Nat,
                    capacity : 0 .. max, data : BytesUpTo(max)]

(* None is no size, no write that a stream buffers, and no frame at work. *)
ASSUME NoneAssumption ==
  /\ None \notin Nat
  /\ None \notin [at : Nat, size : 1 .. DirectSize - 1, bytes : BytesUpTo(DirectSize - 1)]
  /\ None \notin [in : FramesUpTo(MaxCapacity), block : Nat, out : FramesUpTo(MaxCapacity)]

VARIABLES
  stage,             \* how far main is
  scenario,
  mode,              \* openmode of the output, None before it is chosen
  originalSize,      \* originalSizeOfOutputFile_
  fileSize,          \* the size of the input when it was asked for
  reader, writer,    \* how far these tasks are
  failed,            \* whose futures hold an exception
  next,              \* the configuration to read next
  queue,             \* the frames between the reader and the writer
  pushed,            \* all the frames that have ever been there (a history)
  work,              \* the frame a calculator has, and what it makes of it
  input, inStream,    \* a DataFile
  inFrame,            \* the frame read from it, None once it is pushed
  output, outStream,  \* a DataFile, from which nothing is read
  consumed, crc,      \* the loop of crc8
  least,             \* the smallest size the input has had
  disturbed          \* the files that others have changed

numbers == <<mode, originalSize, fileSize>>
tasks == <<reader, writer, failed>>
flow == <<queue, pushed, work>>
inFile == <<input, inStream>>
inVars == <<inFile, inFrame, next>>
outVars == <<output, outStream>>
loopVars == <<consumed, crc>>
others == <<least, disturbed>>
vars == <<stage, scenario, numbers, tasks, flow, inVars, outVars, loopVars, others>>

In == INSTANCE DataFile WITH file <- input, stream <- inStream
Out == INSTANCE DataFile WITH file <- output, stream <- outStream
Loop == INSTANCE Crc8

blockSize == scenario.blockSize

Init ==
  /\ scenario \in Scenarios
  /\ stage = "mode" /\ mode = None /\ originalSize = None /\ fileSize = 0
  /\ reader = "idle" /\ writer = "idle" /\ failed = {}
  /\ next = 0 /\ queue = {} /\ pushed = {} /\ work = None
  /\ input = scenario.input /\ inStream = In!Closed /\ inFrame = None
  /\ output = scenario.original /\ outStream = Out!Closed
  /\ Loop!Init
  /\ least = IF input = NoFile THEN 0 ELSE input.size
  /\ disturbed = {}

(* An exception: cleanup is called. *)
Throw == stage' = "unwind"

(* Only the end of the program, or its own, ends a task. *)
Alive == stage # "aborted"

-----------------------------------------------------------------------------
(* The constructor. *)

(* A slip: a file that is there is opened for writing only. *)
getOpenModeAlwaysOut ==
  /\ stage = "mode" /\ stage' = "exists"
  /\ mode' = "out"
  /\ UNCHANGED <<scenario, originalSize, fileSize, tasks, flow,
                 inVars, outVars, loopVars, others>>

getOpenModeForOutputFile ==
  /\ stage = "mode" /\ stage' = "exists"
  /\ mode' = IF output = NoFile THEN "out" ELSE "in|out"
  /\ UNCHANGED <<scenario, originalSize, fileSize, tasks, flow,
                 inVars, outVars, loopVars, others>>

LookForOutput ==
  /\ stage = "exists"
  /\ stage' = IF output = NoFile THEN "measure" ELSE "size"
  /\ UNCHANGED <<scenario, numbers, tasks, flow, inVars, outVars, loopVars, others>>

(* Of a file that is gone the size cannot be had; an object that is not    *)
(* constructed does not clean up.                                          *)
MeasureOutput ==
  /\ stage = "size"
  /\ \/ output # NoFile /\ originalSize' = output.size /\ stage' = "measure"
     \/ output = NoFile /\ stage' = "rejected" /\ UNCHANGED originalSize
  /\ UNCHANGED <<scenario, mode, fileSize, tasks, flow,
                 inVars, outVars, loopVars, others>>

-----------------------------------------------------------------------------
(* The reader. *)

(* readAllAsDataFrames and writeAllDataFrames post the tasks. *)
MeasureInput ==
  /\ stage = "measure"
  /\ \/ /\ input # NoFile /\ fileSize' = input.size
        /\ reader' = "posted" /\ writer' = "posted" /\ stage' = "run"
     \/ input = NoFile /\ Throw /\ UNCHANGED <<fileSize, reader, writer>>
  /\ UNCHANGED <<scenario, mode, originalSize, failed, flow,
                 inVars, outVars, loopVars, others>>

OpenInput ==
  /\ Alive /\ reader = "posted"
  /\ \/ In!Open("in") /\ reader' = "busy" /\ UNCHANGED failed
     \/ /\ "open" \in scenario.faults
        /\ reader' = "done" /\ failed' = failed \cup {"reader"}
        /\ UNCHANGED inFile
  /\ UNCHANGED <<stage, scenario, numbers, writer, flow, next, inFrame,
                 outVars, loopVars, others>>

Frames == 0 .. dataFramesInFile(fileSize, blockSize, OptimalDataFrameSize) - 1

(* makeConfigs *)
ConfigOf(f) == Config(firstBlockIdx(f, fileSize, blockSize, OptimalDataFrameSize),
                      blockSize,
                      dataBlocksInFrame(fileSize, blockSize, OptimalDataFrameSize))

Read ==
  /\ Alive /\ reader = "busy" /\ next \in Frames /\ inFrame = None
  /\ \/ /\ In!readDataBlocksAsFrame(ConfigOf(next))
        /\ inFrame' = In!FrameRead(input, ConfigOf(next)) /\ UNCHANGED reader
     \/ /\ \/ In!SeekThrows
           \/ "read" \in scenario.faults /\ In!ReadFails
           \/ "memory" \in scenario.faults /\ UNCHANGED inFile
        /\ reader' = "failing" /\ UNCHANGED inFrame
  /\ UNCHANGED <<stage, scenario, numbers, writer, failed, flow, next,
                 outVars, loopVars, others>>

Push ==
  /\ Alive /\ reader = "busy" /\ inFrame # None
  /\ LET frame == IF scenario.copies THEN CopyOf(inFrame) ELSE inFrame
     IN  queue' = queue \cup {frame} /\ pushed' = pushed \cup {frame}
  /\ inFrame' = None /\ next' = next + 1
  /\ UNCHANGED <<stage, scenario, numbers, tasks, work, inFile,
                 outVars, loopVars, others>>

CloseInput ==
  /\ Alive
  /\ \/ reader = "busy" /\ next \notin Frames /\ UNCHANGED failed
     \/ reader = "failing" /\ failed' = failed \cup {"reader"}
  /\ In!Close /\ reader' = "done"
  /\ UNCHANGED <<stage, scenario, numbers, writer, flow, next, inFrame,
                 outVars, loopVars, others>>

-----------------------------------------------------------------------------
(* The calculators and the writer. *)

OpenOutput ==
  /\ Alive /\ writer = "posted"
  /\ \/ Out!Open(mode) /\ writer' = "busy" /\ UNCHANGED failed
     \/ /\ "open" \in scenario.faults \/ (mode # "out" /\ output = NoFile)
        /\ writer' = "done" /\ failed' = failed \cup {"writer"}
        /\ UNCHANGED outVars
  /\ UNCHANGED <<stage, scenario, numbers, reader, flow, inVars, loopVars, others>>

(* calculateCrc8OfFrame makes a frame of one byte for each block. *)
TakeFrame ==
  /\ Alive /\ work = None
  /\ \E f \in queue :
       /\ queue' = queue \ {f}
       /\ work' = [in |-> f, block |-> 0,
                   out |-> NewFrame(Config(f.firstBlockIdx, Crc8ResultSize, f.blocksCount))]
  /\ UNCHANGED <<stage, scenario, numbers, tasks, pushed,
                 inVars, outVars, loopVars, others>>

(* There is no memory for that frame; the calculator ends. *)
CalculationFails ==
  /\ Alive /\ work = None /\ "memory" \in scenario.faults
  /\ \E f \in queue : queue' = queue \ {f}
  /\ failed' = failed \cup {"calculator"}
  /\ UNCHANGED <<stage, scenario, numbers, reader, writer, pushed, work,
                 inVars, outVars, loopVars, others>>

Calculating == Alive /\ work # None /\ work.block < work.in.blocksCount

Calculate ==
  /\ Calculating /\ Len(consumed) < blockSize
  /\ Loop!Consume(blockAsRange(work.in, work.block)[Len(consumed)])
  /\ UNCHANGED <<stage, scenario, numbers, tasks, flow, inVars, outVars, others>>

(* A slip: the checksum goes on from block to block. *)
StoreCrcContinued ==
  /\ Calculating /\ Len(consumed) = blockSize
  /\ work' = [work EXCEPT !.block = @ + 1, !.out.data[work.block] = crc]
  /\ consumed' = <<>> /\ UNCHANGED crc
  /\ UNCHANGED <<stage, scenario, numbers, tasks, queue, pushed, inVars, outVars, others>>

StoreCrc ==
  /\ Calculating /\ Len(consumed) = blockSize
  /\ work' = [work EXCEPT !.block = @ + 1, !.out.data[work.block] = crc]
  /\ consumed' = <<>> /\ crc' = 0
  /\ UNCHANGED <<stage, scenario, numbers, tasks, queue, pushed, inVars, outVars, others>>

Calculated == work # None /\ work.block = work.in.blocksCount

(* originalSizeOfOutputFile_.value_or(0) *)
writingPosShift == IF originalSize = None THEN 0 ELSE originalSize

Write ==
  /\ Alive /\ Calculated /\ writer = "busy"
  /\ \/ Out!writeDataFrame(work.out, writingPosShift) /\ UNCHANGED writer
     \/ "write" \in scenario.faults /\ Out!WriteFails(work.out) /\ writer' = "failing"
  /\ work' = None
  /\ UNCHANGED <<stage, scenario, numbers, reader, failed, queue, pushed,
                 inVars, loopVars, others>>

(* The queue of a writer that has failed keeps what it gets. *)
LeaveInQueue ==
  /\ Alive /\ Calculated /\ writer = "done"
  /\ work' = None
  /\ UNCHANGED <<stage, scenario, numbers, tasks, queue, pushed,
                 inVars, outVars, loopVars, others>>

(* Main has waited for the reader and the calculators, none has failed.    *)
CalculationFinished ==
  reader = "done" /\ failed \cap {"reader", "calculator"} = {} /\ queue = {} /\ work = None

CloseOutput ==
  /\ Alive
  /\ \/ writer = "busy" /\ CalculationFinished /\ UNCHANGED failed
     \/ writer = "failing" /\ failed' = failed \cup {"writer"}
  /\ \/ Out!Close /\ writer' = "done" /\ UNCHANGED stage
     \/ /\ "close" \in scenario.faults /\ Out!CloseFails
        /\ stage' = "aborted" /\ UNCHANGED writer
  /\ UNCHANGED <<scenario, numbers, reader, flow, inVars, loopVars, others>>

-----------------------------------------------------------------------------
(* Main joins the reader, the calculators and the writer. *)

JoinThrows ==
  /\ stage = "run" /\ reader = "done"
  /\ \/ failed \cap {"reader", "calculator"} # {}
     \/ "writer" \in failed /\ CalculationFinished
  /\ Throw
  /\ UNCHANGED <<scenario, numbers, tasks, flow, inVars, outVars, loopVars, others>>

Succeed ==
  /\ stage = "run" /\ writer = "done" /\ failed = {}
  /\ stage' = "done"
  /\ UNCHANGED <<scenario, numbers, tasks, flow, inVars, outVars, loopVars, others>>

(* A slip: a file is removed whether or not it was there before. *)
RestoredAlwaysRemoved == NoFile

(* resize_file or remove *)
Restored == IF originalSize = None THEN NoFile ELSE Resized(output, originalSize)

(* Stopping the pool does not stop a task that has begun. *)
cleanup ==
  /\ stage = "unwind"
  /\ \/ /\ originalSize = None \/ output # NoFile
        /\ output' = Restored /\ stage' = "failed"
     \/ /\ "cleanup" \in scenario.faults \/ (originalSize # None /\ output = NoFile)
        /\ stage' = "warned" /\ UNCHANGED output
  /\ UNCHANGED <<scenario, numbers, tasks, flow, inVars, outStream, loopVars, others>>

-----------------------------------------------------------------------------
(* Other processes, each once. *)

ResizeInput ==
  /\ "input" \notin disturbed /\ input # NoFile
  /\ stage \in {"measure", "run"} /\ reader # "done"
  /\ \E size \in scenario.resizes :
       /\ input' = Resized(input, size)
       /\ least' = Least(least, size)
  /\ disturbed' = disturbed \cup {"input"}
  /\ UNCHANGED <<stage, scenario, numbers, tasks, flow, next, inStream, inFrame,
                 outVars, loopVars>>

MeddleOutput ==
  /\ "output" \notin disturbed
  /\ stage \in {"exists", "size", "measure", "run"} /\ writer \in {"idle", "posted"}
  /\ output' \in scenario.meddles \ {output}
  /\ disturbed' = disturbed \cup {"output"}
  /\ UNCHANGED <<stage, scenario, numbers, tasks, flow, inVars, outStream,
                 loopVars, least>>

Terminated ==
  stage \in {"done", "failed", "warned", "aborted", "rejected"} /\ UNCHANGED vars

Next == \/ getOpenModeForOutputFile \/ LookForOutput \/ MeasureOutput
        \/ MeasureInput \/ OpenInput \/ Read \/ Push \/ CloseInput
        \/ OpenOutput \/ TakeFrame \/ CalculationFails \/ Calculate \/ StoreCrc
        \/ Write \/ LeaveInQueue \/ CloseOutput
        \/ JoinThrows \/ Succeed \/ cleanup
        \/ ResizeInput \/ MeddleOutput
        \/ Terminated

Spec == Init /\ [][Next]_vars

-----------------------------------------------------------------------------
TypeOK ==
  /\ stage \in {"mode", "exists", "size", "measure", "run", "unwind",
                "done", "failed", "warned", "aborted", "rejected"}
  /\ reader \in {"idle", "posted", "busy", "failing", "done"}
  /\ writer \in {"idle", "posted", "busy", "failing", "done"}
  /\ failed \subseteq {"reader", "calculator", "writer"}
  /\ mode \in In!Modes \cup {None} /\ originalSize \in Nat \cup {None} /\ fileSize \in Nat
  /\ next \in Nat /\ least \in Nat /\ disturbed \subseteq {"input", "output"}
  /\ \A stream \in {inStream, outStream} :
       /\ stream.mode \in In!Modes \cup {"closed"}
       /\ stream.bits \subseteq {"fail", "eof", "bad"}
  /\ inStream.pending = None
  /\ outStream.mode = "closed" => outStream.pending = None
  /\ queue \subseteq pushed
  /\ \A f \in pushed \cup ({inFrame} \ {None}) :
       Fits(f, f.blocksCount) /\ f.data \in [0 .. f.capacity - 1 -> 0 .. 255]
  /\ Len(consumed) <= MaxLength /\ crc \in 0 .. 255

(* The checksum of a block by its definition as a remainder; the last      *)
(* block is filled up with zeroes.                                         *)
PaddedBlock(f, block) ==
  [i \in 1 .. blockSize |-> LET b == block * blockSize + i - 1
                            IN  IF b < f.size THEN f.bytes[b] ELSE 0]

ExpectedCrc(f, block) ==
  Loop!Remainder(Loop!Bits(PaddedBlock(f, block)) \o Loop!Zeros(8))

(* One for each block begun. *)
simpleCalculateCrcSignatureOfFile(f) ==
  LET count == ceilDevision(f.size, blockSize)
  IN  [at |-> 0, size |-> count,
       bytes |-> [block \in 0 .. count - 1 |-> ExpectedCrc(f, block)]]

Before == IF scenario.original = NoFile THEN EmptyFile ELSE scenario.original

(* With nobody in the way the output is its old content and the signature  *)
(* of the simple algorithm behind it, whatever order the frames took       *)
(* (README; simpleCalculateCrcSignatureOfFile of the tests).               *)
SerialSignature ==
  stage = "done" /\ disturbed = {} =>
    output = Overlay(Before, [simpleCalculateCrcSignatureOfFile(scenario.input)
                                EXCEPT !.at = Before.size])

(* The frames laid at the places that their first blocks say; every byte   *)
(* between them is zero.                                                   *)
getAllFramesDataAsVector(frames) ==
  LET begin(f) == f.firstBlockIdx * f.blockSize
      range(f) == begin(f) .. begin(f) + totalSizeOfAllBlocks(f) - 1
      bytes == UNION {range(f) : f \in frames}
      size == CHOOSE n \in {0} \cup {b + 1 : b \in bytes} : \A b \in bytes : b < n
  IN  [size |-> size,
       bytes |-> [b \in 0 .. size - 1 |->
                    IF b \in bytes
                    THEN LET f == CHOOSE f \in frames : b \in range(f) IN f.data[b - begin(f)]
                    ELSE 0]]

(* The whole file in one frame. *)
serialResult(f) == In!FrameRead(f, Config(0, blockSize, ceilDevision(f.size, blockSize)))

(* The frames read, put together again, are the frame that reads the whole *)
(* file at once, and no two of them lie over each other                    *)
(* (testReadAllAsDataFrames; datafile.cpp lines 26-41).                    *)
FramesReassemble ==
  reader = "done" /\ "reader" \notin failed /\ disturbed = {} =>
    LET result == getAllFramesDataAsVector(pushed)
        serial == serialResult(input)
    IN  /\ result.size = totalSizeOfAllBlocks(serial)
        /\ \A b \in 0 .. result.size - 1 : result.bytes[b] = serial.data[b]
        /\ \A f, g \in pushed : f.firstBlockIdx < g.firstBlockIdx =>
                                f.firstBlockIdx + f.blocksCount <= g.firstBlockIdx

(* Success still means something when others interfere: every block that   *)
(* the input has had all the time has its checksum, at the place the       *)
(* recorded size of the output gives it (datafilewrapper.cpp:51,           *)
(* crcsignatureoffile.cpp:53-57).                                          *)
WhatStaysIsSigned ==
  stage = "done" =>
    \A block \in 0 .. (least \div blockSize) - 1 :
      /\ writingPosShift + block < output.size
      /\ output.bytes[writingPosShift + block] = ExpectedCrc(scenario.input, block)

(* After a failure of the writer, or a missing input, that the program can *)
(* clean up behind, the output is byte by byte what it was (cleanup, lines *)
(* 119-128).  After a failure of the others the writer may come late.      *)
FailureRestores ==
  stage = "failed" /\ failed \subseteq {"writer"} /\ "output" \notin disturbed =>
    output = scenario.original

(* Whatever fails, and however late the writer comes, it does not touch    *)
(* what was in the output before (lines 38-42, 85 and 123-125;             *)
(* datafile.cpp lines 46-55).                                              *)
OldContentStays ==
  scenario.original # NoFile /\ "output" \notin disturbed =>
    /\ output # NoFile /\ output.size >= scenario.original.size
    /\ \A b \in 0 .. scenario.original.size - 1 : output.bytes[b] = scenario.original.bytes[b]

(* Nothing but a missing file, or an error of the system, makes a run      *)
(* fail: not a file that has become shorter, which lets one read after     *)
(* another end early (datafile.cpp lines 28-37).                           *)
NoSpuriousFailure ==
  stage \in {"rejected", "unwind", "failed", "warned"} =>
    scenario.faults # {} \/ input = NoFile \/ (mode # "out" /\ output = NoFile)

(* The output implements BlockFile: from when it is opened each frame of   *)
(* checksums handed over changes exactly its own bytes, in spite of the    *)
(* buffer between, and others' bytes stay (datafile.cpp lines 46-55).      *)
OutputFile ==
  INSTANCE BlockFile WITH
    content <- Out!Flushed(output, outStream.pending),
    request <- IF Calculated THEN Out!BytesAt(work.out, Out!Place(work.out, writingPosShift))
               ELSE [at |-> 0, size |-> 0, bytes |-> EmptyFile.bytes],
    open <- outStream.mode # "closed",
    intact <- "fail" \notin outStream.bits,
    recalled <- stage \in {"failed", "warned"}

OutputIsBlockFile == OutputFile!Spec

(* The checksum of every block is the remainder it claims to be, and no    *)
(* change of a block within eight neighbouring bits leaves it unchanged.   *)
IsRemainder == Loop!IsRemainder
DetectsBursts == Loop!DetectsBursts
=============================================================================
