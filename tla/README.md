# A verification of CRC8_Signature

The program computes a CRC-8 of every block of an input file and appends these
checksums to an output file. Readers, calculators and one writer run on a thread pool and
hand frames of blocks on through two bounded queues. This directory holds TLA+ models of the
program, TLC runs on small instances, and theorems that TLAPS checks for all values of the
constants. Paths below are relative to the repository, in which the code is `src/src/` and its
description `src/README.md`.

## 1. Inventory

| component (file) | state | operations | works with | what is hard | what makes it correct |
|---|---|---|---|---|---|
| `Parallel::Queue` (concurentqueue.h) | `dataQueue_`, one mutex, `pushCond_`, `popCond_` | `waitAndPush` (no time limit), `waitAndPop` (time limit), `tryPop` | all tasks | woken threads are overtaken; time limits race with signals; spurious wakeups | the limit holds; no wakeup is lost; it is a FIFO queue whose calls are indivisible |
| `CrcSignatureOfFile` (crcsignatureoffile.cpp) | `success_`, the two flags, the pool, queues, original size | constructor, `readCalculateAndWrite`, `cleanup`, destructor | everything | order of posting and of waiting; a stage that fails; members die before tasks | success only for a complete signature; old bytes untouched; the run ends; output restored after a failure |
| `DataFileWrapper` (datafilewrapper.cpp) | configurations, shared atomic index, futures | reader tasks, writer task, `joinAndRethrowExceptions` | DataFile, queues, pool | readers race for frames; drain after the flag | each frame is read once and written once |
| `Crc8Wrapper` (crchasher.cpp) | futures | calculator tasks | queues, pool | flag is read, then the queue | nothing is left in the queue |
| `crc8` (crchasher.cpp) | one byte | a look-up per byte | | a table of 256 entries | it is the remainder it claims to be |
| `DataFile` (datafile.cpp) | a buffered stream with exceptions enabled | open, read a frame, write a frame, close | file system | short reads; what is buffered reaches the file later, or fails to when it is closed | frame positions; last block counted |
| `DataFrame`, `ZeroFilledMemory` | a chunk, a handle to its pool, block count | clear, move (= swap), destroy, correct the count | pool | old chunks come back with old bytes | zero padding; no chunk lost or shared |
| `LazyMemoryPool` (concurentmemorypool.cpp) | `pool_`, once flag, mutex | `allocate` with retries, `deallocate` | readers, calculators | first use by several readers; failure while others go on | lives as long as its chunks |
| options (programmoptions.cpp), main (main.cpp) | `Options` | parse, check, run, exit code | | int to size_t; exceptions during unwinding | truthful exit codes; for each run that starts, blocks, frames and tasks are divided as they should be |
| `utils.h` | | `ceilDevision`, `makeSharedAtomic` | | rounding | |
| integration test (integrationtest/integrationtest.cpp) | two temporary files, its options | run the program, compute once more, `diff`, remove | the program, as a child | sizes go through text and `int` once more; its own streams fail unnoticed; leftovers of one run block the next | a pass means a signature; a false alarm has a known cause; it can be repeated |
| unit tests (unittests) | | | all | | the models agree with their data |

`src/unittests/integrationtest.cpp` is stale: no build file names it and it includes a header that is not there.
External and modelled from their use: `boost::asio::thread_pool`, `std::future`,
`std::condition_variable`, file streams, `boost::pool`, Boost.Program_options, `atoi`.
`PROJECT.json` lists every component, every hazard at its line, and which property covers it.

## 2. Modules

| module | models | notes |
|---|---|---|
| `BoundedQueue` | abstract: an indivisible FIFO queue with waiting calls | what callers of the queue rely on |
| `ParallelQueue` | concurentqueue.h | one action per critical section of the mutex; refines `BoundedQueue` |
| `Sizing` | the arithmetic of the constructor, `makeConfigs` and the short read | no variables; used by the three modules below |
| `SignatureFile` | abstract: each CRC stored once, then the true outcome reported | what a user relies on |
| `Pipeline` | `readCalculateAndWrite`, `cleanup`, destructor, all tasks, files, faults | refines `SignatureFile` when only failures it copes with happen |
| `MCPipeline` | | a measure of queued bytes for TLC |
| `FrameMemory` | pool, ZeroFilledMemory, movement of input frames | composed with the input queue |
| `MCFrameMemory` | | `FrameMemory` and `UnitTests` in one run |
| `Crc8` | `crc8` and its table | against polynomial division; `^` is written out bit by bit, so that proofs can look into it |
| `FileContent` | files of the file system: size, bytes, overwriting, resizing | no variables |
| `DataFrame` | dataframe.cpp, frames as values | no variables |
| `DataFile` | datafile.cpp: state bits, position, buffer, bytes | its operations are actions on a file and a stream; instantiated twice by `Signature` |
| `BlockFile` | abstract: a file without a buffer, which may be taken back once | what the writer relies on |
| `Signature` | the bytes of a run: constructor, reader, `calculateCrc8OfFrame`, writer, joins, cleanup, other processes; reader and writer at once | composes two `DataFile`s and `Crc8`; its output refines `BlockFile` |
| `MCSignature` | | the files and disturbances of the run |
| `Program` | main, options, constructor's checks, exit codes | the run is one step that signs, throws or ends the program; uses `Sizing` for each run that starts |
| `IntegrationTest` | integrationtest/integrationtest.cpp | composed with `Program`, its child, which may be killed |
| `UnitTests` | unittests, those that ask for a value | named assumptions that TLC evaluates |
| `ParallelQueueProofs`, `SizingProofs`, `PipelineProofs`, `PipelineFlowProofs`, `FrameMemoryProofs`, `ProgramProofs` (with `IntegrationTest`), `SignatureProofs`, `Crc8Proofs` | | theorems (section 5) |

How they fit: `Pipeline` and `FrameMemory` take a queue call as one step; `ParallelQueue` justifies this by
implementing `BoundedQueue`. `Program` takes a run as one step that signs, throws or ends the program;
`Pipeline` models that run. `Pipeline` takes a frame for its number; `Sizing` says which blocks it carries,
`FrameMemory` that its bytes stay what was read, and `Signature` which bytes these are and what is written for them.
`Pipeline` has all interleavings and no bytes; `Signature` has all bytes, one reader beside one writer, and main beside both. The
bounds of the queues, several readers and calculators, the polling of flags and the use of destroyed members are `Pipeline`'s alone.

### Correspondence

*ParallelQueue.* `dataQueue` is `dataQueue_`. `pc[t]` says whether a thread is outside (`idle`), asleep on a
condition variable (`pushBlocked`, `popBlocked`), signalled and on its way to the mutex (`pushWoken`,
`popWoken`), or past its time limit (`popTimedOut`). `notify_one` picks any sleeper. A `wait_for` past its time
looks at the queue once more, as the standard requires.

*Pipeline.* `main` walks through `readCalculateAndWrite` and the destructor; `next` counts the tasks posted, then
those waited for, in the code's two different orders (`PostedTask`, `JoinedTask`). `pc[t]`
is a task's place, `held[t]` the frame in its local variable. A calculator or the writer reads its
flag (`check`), then polls (`wait`) and at last empties its queue (`drain`). `content` is the output
file by position, `pending` the frame in the stream's buffer: a write puts it there or into the
file, a seek or close moves it on. `stream` is `unlinked` once the file under it is removed.
When `DestroyMembers` has happened and tasks still run, whatever they touch is destroyed: `UseDestroyedMember`.
Each of the seven `Faults` may strike at every step where the code can throw.

*FrameMemory.* `frame[t]` is the DataFrame in a task's hands; a popped frame is swapped with the old one, which
dies with the queue's element (`PopFrame`). `useCount` counts the shared handles to the pool:
one in each configuration not yet consumed, one in each frame. `bytes` tells for every byte of a chunk whose it is.

*Program.* A size on the command line is a number and a suffix; `int` and `size_t` are `IntModulus` and
`SizeModulus` values wide, small powers of two in the run so that wrapping happens.

`late` says that the writer was still at work when main cleaned up: then the file may be changed once more after it
has been restored, as `Pipeline` and `Signature` show, and ExitCodeTruthful promises the old content only without it.
`Terminate` is a run that ends in `std::terminate`, when `~DataFile` cannot write its buffer: the process is killed, nothing is
restored and nobody is told. A writer that is late may do so while main cleans up.

*Signature.* `stage` is main's place: the constructor looks at the output (`mode`, `exists`, `size`), `readAllAsDataFrames` at the input
(`measure`), then it waits (`run`) and cleans up (`unwind`). `reader` and `writer` are the places of the two tasks, which are posted
together and go on independently, also after main has given up; `failed` says whose future holds an exception. There is one reader, as for a hard
disk. `queue` stands for both queues and `work` for a calculator's frame: which frame is taken next is open, so they overtake each
other as they do between tasks, and the writer gets their checksums in any order while the reader still reads. `pushed` keeps the frames
for the properties. Each look at a file is a
step of its own, and between two of them others may resize the input or replace, empty or remove the output, each once. `inStream` and
`outStream` are `fileStream_` with its mode, its state bits and the bytes in its buffer, as libstdc++ keeps them: a seek writes the
buffer out, and a write of `DirectSize` bytes or more passes by it. In libstdc++ that threshold is about a kilobyte, not the
size of the buffer; no property depends on it. A file that does not exist is `NoFile`. A scenario may ask for frames to be pushed as copies, as
the unit tests do.

*IntegrationTest.* `stage` is the place in the test's `main`, `files` are `tempActualOutput` and `tempExpectedOutput`. The child is
`Program` with `ChildArgs`: sizes as `std::to_string` writes them, without a suffix, which the child's `atoi` cuts to an `int`.
With `long` wider than `int`, that is how the default `-m 3GB` becomes 3221225472 and then negative, and the size the child works
with is huge. The streams of the simple algorithm are never asked whether they failed, so its file may be missing, empty or a beginning of what it
should be: `written` counts its checksums, and `unnoticed` remembers that the test's own streams, or its `diff`, have failed. `diff` says that
files differ for certain if one is missing or their lengths differ, and that they agree if both are complete and the block sizes are the same.
A child that is killed has an exit code other than 0 and leaves what it has written. Sizes beyond `long`, and paths with blanks, are left out.

*UnitTests.* Each definition has the name of the test case and its data; file names, and helpers that only build vectors, are left out.
Where a test runs a queue or a pool, the assumption covers the values and `Signature` or `Pipeline` the run.

*Sizing.* The operators carry the names of the code's functions and variables.

Operators whose comment calls them "a slip" are deliberate mistakes, used only to show that a property would
notice them (`mutants` in PROJECT.json).

## 3. Runs

Runs that pass:

| run | checks | instance and why it is enough |
|---|---|---|
| `queue` | TypeOK, CapacityRespected, NoLostPushWakeup, NoLostPopWakeup, ImplementsBoundedQueue (with liveness) | two producers, two consumers, limit 2: a woken thread can be overtaken on either side, and the queue is full and empty. The safety part holds for all sizes (section 5) |
| `program` | TypeOK, ExitCodeTruthful, BlocksPartitioned, BytesCovered, ThreadBudget, PassMeansSigned, NoFalseAlarm, TestCanBeRepeated | with and without the integration test; an `int` of 4 and a `size_t` of 6 bits, numbers up to 15: sizes wrap, also to 0; blocks smaller and larger than a frame (4), files of 0 to 13 bytes, 0 to 12 processors; a run may sign, throw or be killed, each stream of the test fail unnoticed |
| `memory` | TypeOK, ChunksAccounted, FramesIntact, PoolOutlivesChunks, NothingLeaks | four frames (the last one short), three chunks, two readers, two calculators, a queue of one: chunks are reused, run out, and both readers may fail. `Attempts` is 2 for 10 000: what matters is that others act between attempts. TLC evaluates `UnitTests` first |
| `pipeline_live` | Termination | five frames, queues of one, a pool of three threads for five tasks (a machine with up to four processors): calculators wait for a thread while queues are full |
| `pipeline_faults` | TypeOK, SuccessMeansSigned, OriginalPrefixPreserved, OneCopy, FlagsSound | two readers, four calculators, five threads (six processors, SSD), two frames of two blocks, every fault at once |
| `pipeline_handled` | RestoredAtExit, ImplementsSignatureFile (with liveness) | three frames and queues that hold them all; input missing, output not to be opened or written |
| `signature` | TypeOK, SerialSignature, FramesReassemble, WhatStaysIsSigned, FailureRestores, OldContentStays, NoSpuriousFailure, IsRemainder, DetectsBursts, OutputIsBlockFile | files of up to 7 bytes in blocks of 1 to 3, frames of 3 or 4 bytes with 1 to 3 blocks: up to three frames, incomplete last blocks and last frames, an output that is there or not; the input shortened or grown to 0, 1, 4 or 8 bytes, the output removed, emptied or replaced, and every failure, at every moment of the other tasks. For `crc8` one block: all of one byte, all of two bytes whose bits lie within eight neighbouring ones, and every first byte followed by eleven others, so that every entry of the table is reached |

Runs that show a disagreement between the code and what the repository says of it:

| run | violated | what happens |
|---|---|---|
| `pipeline_writer_fails` | WriterFailureReported | main waits for calculators first; with the writer gone they block in the untimed `waitAndPush`; the writer's exception is never fetched |
| `pipeline_reader_fails` | TasksEndAfterCleanup | `pool.stop()` does not end running tasks; after a reader's failure no flag is stored, consumers poll for ever or touch destroyed members |
| `pipeline_ram` | RamLimitKept | the queue limit counts blocks but elements are frames of many blocks |
| `crc8_dallas` | IsDallasMaxim | same polynomial, but bits are processed from the most significant one |
| `program_help` | HelpIsShown | required options are checked before `-h` is looked at |

`CHECK_DEADLOCK FALSE` stands where the system really stops: with faults (`pipeline_faults`,
`pipeline_writer_fails`) tasks can block for ever as just described, and `FrameMemory` leaves out the polling of
calculators that wait for readers that have failed. All other runs check deadlock; a process that has ended
stutters explicitly (`Terminated`).

Bounds: `Sizing` and `Pipeline` work on numbers that do not wrap around; `Program` covers the wrapping of
parsed sizes. `currentConfigIndex` is bounded by frames plus readers, `Crc8` by `MaxLength`, `Program` by `MaxFileSize` and
`MaxConcurrency`, `Signature` by its `Scenarios`, in each of which others act once on either file. No symmetry is used.

Three behaviours are in the models without a property of their own, because no text of the repository speaks of
them: the writer of a run in which a reader or a calculator has failed may still open the file, write or close it after `cleanup` has
restored it, so FailureRestores speaks only of failures of the writer and of a missing input, and OldContentStays says what holds
in every case (`cleanup`, then `Write`; in `Pipeline` `RestoreOutput`, then `WriteFrame`); closing a stream whose buffer cannot be
written throws out of a destructor and ends the program (`CloseFails`, in `Program` `Terminate`), which leaves a partial output and, behind
the integration test, a file in the way of its next run; and a block size one below the range of `size_t`, which `-s 4294967295` becomes through `int`,
makes the divisor of the queue limit 0 (`DivideByZero`). A fourth belongs to the
disagreement `pipeline_ram` shows: the integration test's default `-m 3GB` arrives at the program as another number (section 2), so
there the limit is not even the one the user gave.

## 4. Fairness

- *ParallelQueue*: a signalled thread gets the mutex in the end, and a time limit passes. Nobody is made to call,
  and spurious wakeups never have to happen.
- *Pipeline*: weak fairness for the main thread, for each started task and for the pool's hand-out of tasks. A task
  is a thread of the operating system between queue calls, and in a queue call the fairness is what
  `ParallelQueue` establishes: `BoundedQueue` promises that each waiting pop returns and that some waiting push completes
  while there is room. A single push could be overtaken for ever only by pushes that never end, and a run has
  finitely many frames.
- *SignatureFile*: the outcome is reported in the end.

## 5. Proofs

All proofs are checked to the last leaf; the only assumptions are those of the modules' `ASSUME`s (sizes are
naturals, a block is not empty, the queue limit is not 0, sets of threads are finite, files of a scenario hold bytes,
`None` is none of the values it stands beside), and for the three theorems about failures of the pipeline which faults can happen.
Of `FrameMemory`'s constants, chunks may be infinitely many; readers and calculators are finite, since handles are counted.
Every invariant that a passing run checks is a theorem here; what the refinements say of safety is, too.

*ParallelQueueProofs*, for any finite sets of threads, any values and any limit: TypeOK, CapacityRespected, NoLostPushWakeup,
NoLostPopWakeup. The invariant is their conjunction: the wakeup properties are inductive only together with
capacity, and are proved by counting how one or two threads change place in a step (`MoveOne`, `LeaveMoves`).
From the same invariant `QueueIsLinearizable`: each step maps to one of `BoundedQueue` or to none, so every behaviour is one of its
`SafetySpec`. A call that does not wait takes effect in its own critical section, one that waits in the section that ends it.

*SizingProofs*: `ThreadBudgetAlways` (the constructor's assertion for every number of processors),
`TaskCountsPositive`, and `BlocksPartitionedAlways` (every block lies in exactly one frame, for all sizes of file, block and
frame), by way of the bounds of `ceilDevision` (`CeilBounds`) and of what a frame count is (`FrameCount`).

*PipelineProofs*, for all sizes, all numbers of processors and all sets of faults: TypeOK, SuccessMeansSigned, OriginalPrefixPreserved.
SuccessMeansSigned is not inductive: it needs to know at the end that nothing is left on the way.
`IInv` adds where each kind of task can be (`KindOK`), that tasks wait in the pool at most once (`PoolOK`), what main's
place says about the tasks it has waited for (`JoinOK`), what a task past its drain says of the stage before it
(`DrainOK`), the state of the stream (`StreamOK`), and `NoLoss`: as long as nothing is being cleaned up, every
frame taken is in a hand, a queue, the buffer or the file. When all futures have been waited for only the file
is left. That `Frames` covers all `Blocks` comes from SizingProofs. OriginalPrefixPreserved needs only TypeOK and that positions lie behind the
old size.

*PipelineFlowProofs*, under the same assumptions: OneCopy and FlagsSound. OneCopy counts places; `Alone` says without
numbers that hands, queues and the buffer have no frame in common, and is inductive only together with `Fetched` (frames on their way lie
below the shared index, so the next one fetched is new). FlagsSound follows from `IInv` and `HandsOK` (only a task at
certain places holds a frame).

Three more theorems there need `OnlyWriterFails`: neither the readers nor the allocation in calculators fail, while the size of the
input, opening the output, writing, closing and cleaning up may. Without it they are false, as the run `pipeline_reader_fails` shows:
main gives up while tasks are still at work. With it, main learns of a failure only when no task has been posted yet or when all the
others are done; the invariant `Aftermath` says so (`Still`), and what the file is before it is opened and after it has been
restored. `RestoredAfterFailure` is RestoredAtExit; `NoUseAfterDestruction` says that `UseDestroyedMember` never happens;
`PromiseIsKept` is the safety part of ImplementsSignatureFile. For the last one a frame that reaches the file must be new to it: `Fresh` says
that no block of a frame still on its way (`OnItsWay`) is signed, which needs `Alone` and `Fetched` again.

*FrameMemoryProofs*, for all sizes, all numbers of readers, calculators and chunks: every property of the run `memory`.
`IInv` says where a frame may be without its chunk (`PlacesOK`), that owners of a chunk are alone (`Exclusive`), that a
chunk that is not free has an owner (`NotLost`; before the first initialisation none has, `NoneYet`), and what the bytes
of a filled frame are (`BytesOK`: a chunk has been zeroed and read into before its frame is pushed). From it follow
ChunksAccounted and FramesIntact. `HInv` adds the count of handles (`HandlesOK`): as many as frames in hands, frames in the
queue, and configurations not taken as long as a reader shares them. It gives the bound of TypeOK, and both that the pool
lives long enough (PoolOutlivesChunks) and that it goes in the end (NothingLeaks).

*ProgramProofs*, for all numbers, widths of integers, sizes of files and numbers of processors: every property of the run
`program`, of `Program` and of `IntegrationTest`. `IInv` adds that nothing has happened before a run (`Untouched`), what is known of the options once they
are accepted (`Accepted`), and with which code and output the stack is unwound (`Unwinding`). That blocks are partitioned and
bytes covered follows from SizingProofs and from what the constructor's checks leave for a run, that blocks are not empty and queues
can hold something (`Runnable`).

`TestInv` puts the test around it: until the test starts the
program nothing has happened to the program's variables, and from then on `IInv` holds (`ChildIsTheProgram`), together with what
success says of options and output (`Outcome`) and with the options the child makes of its arguments (`ChildOK`). PassMeansSigned
and NoFalseAlarm follow because a size within the range of `int` arrives at the child as it is (`SmallSizesArrive`), and because what
the simple algorithm has written is shorter than it should be only if `unnoticed` says so. TestCanBeRepeated is about programs that end by
themselves: for those ExitCodeTruthful says what became of the output.

*Crc8Proofs*, for blocks of any length: the loop computes remainders (`LoopDivides`), and blocks that differ only within eight
neighbouring bits have different checksums (`BurstsAreDetected`, `NearBlocksDiffer`). The library's induction takes a predicate, which
the provers cannot instantiate; `SetInduction` says the same of a set and follows from the well-foundedness of `<` (`WFMin`). With it
the recursive definition of the rests is one (`RestsAreDefined`). Then: `Xor` and one step of the division act on nine digits each
(`XorValues`, `DividedValue`), so division is linear (`DividedAdds`); each entry of the table but the first follows from an earlier one by
a shift or one flip, which is checked for all 256 (`TableEntries`), so the table is multiplication by x^8 (`TableIsRight`); a byte more
is a look-up (`RemainderOfMore`). A burst is what the rest behind its last bit is, and from there on the rest is only shifted, which never makes
it 0 (`RestOfBurst`, `RestStays`).

*SignatureProofs*, for all files, sizes of blocks and frames, disturbances and failures in `Scenarios`: every property of the run `signature`.
- `TypeInv` says for the place of each task which stream is open and what may be in its buffer (`InputOK`, `OutputOK`), how the
  tasks' places go with main's (`TasksOK`), and that frames fit their memory. TypeOK.
- The loop: `Signature`'s copy of `Crc8` is that of `Crc8Proofs` (`SameLookUp`, `SameRemainder`). IsRemainder, DetectsBursts.
- The old content: `Restorable` (before the output is opened it is as it was, afterwards its old bytes stay) with `PendingBehind`
  (so do they when the buffer is written), whoever is at work and whatever main does. OldContentStays. Where only the writer
  has failed, nobody is left when main cleans up, so what `cleanup` makes of the file is what it was (`Decided`, `RestoredIsOld`).
  FailureRestores. `Excused` gives every exception its cause. NoSpuriousFailure.
- OutputIsBlockFile: a write that is buffered, passes by the buffer or pushes it out is one write of a `BlockFile`, whose content is
  the file with its buffer laid over it (`WriteStep`); what `cleanup` does while the stream is open is its `TakeBack` (`BlockFileStep`).
- The input: `SourceOK` (bytes the input has had all the time are the scenario's) makes every frame read one of `GoodFrames`: it has
  those of its blocks that are `Settled`, with their bytes. `Waiting` and `Complete` say that no frame is missing. FramesReassemble.
- The output: `GoodWork` (checksums stored so far belong to the blocks passed, `LoopFits` says where the loop is) and `Delivered` (a frame read is
  waiting, at work or in the output, as long as no task has failed, `Healthy`). WhatStaysIsSigned. With nobody in the way, nothing else lies behind the
  old content as long as the writer works (`Extent`), and the file is the one the simple algorithm makes. SerialSignature.

Only model-checked, because liveness is out of the prover's reach: Termination, and what ImplementsBoundedQueue and
ImplementsSignatureFile say beyond safety (`SafetySpec` of their abstract modules). ImplementsSignatureFile and RestoredAtExit are
proved for every number of tasks but, as said, not for failures under which they are false. The runs that expect a violation
show counterexamples and need no proof.

## 6. Not modelled

- Writes that pass by the buffer and fail half-way; reads and writes are one step for other processes, which interfere only between
  calls and not while the output is open.
- Input and output being the same file.
- The members of a moved-from DataFrame that the code leaves indeterminate, which the pipeline never looks at.
- Boost.Program_options' grammar (a Boolean), the wording of messages, the timer of the integration test.
- Tasks that have not started when the pool is stopped: they are never run and simply remain posted.
- The unit tests of the options: their numbers (3 GB and more) are beyond TLC's integers; `Program` checks the same code with
  narrower ones. Stale `src/unittests/integrationtest.cpp`.

## 7. Plan

The order of work, the most important behaviour first:

1. done: `ParallelQueue` and `BoundedQueue`, `Sizing`, `Pipeline` and `SignatureFile`, `Crc8`, `Program`, `FrameMemory`, with the
   runs above; the safety of the queue, of sizes and of `Program`, and the safety theorems of the pipeline
   and of the frames' memory.
2. done: the bytes (`FileContent`, `DataFrame`, `DataFile`, `BlockFile`, `Signature`) with other processes and failures, the
   integration test beside the program, and the unit tests.
3. done: the theorems about the bytes (`SignatureProofs`, `Crc8Proofs`), the integration test, and the safety of the three refinements.
4. done: `Signature`'s writer beside its reader and beside main's cleanup, runs that are killed, the unchecked streams of the
   integration test, and the theorems about them.
5. left: the unit tests' data as theorems where they hold for all values; a proof that `Signature`'s steps with a frame are those
   `Pipeline` takes.
