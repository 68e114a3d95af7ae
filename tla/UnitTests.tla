----------------------------- MODULE UnitTests -----------------------------
(***************************************************************************)
(* The repository's unit tests of what a model can be asked without a run: *)
(* the operators for frames, files, configurations and checksums must give *)
(* the results that src/unittests expects of the functions they stand for. *)
(* Definitions have the names of the test cases; TLC evaluates them when   *)
(* it checks the assumptions at the end.                                   *)
(***************************************************************************)
EXTENDS DataFrame, FileContent, Sequences

LOCAL INSTANCE SequencesExt

(* Only operators that do not depend on the state are used of these. *)
File == INSTANCE DataFile WITH file <- EmptyFile, stream <- <<>>,
                               None <- <<>>, DirectSize <- 1
Loop == INSTANCE Crc8 WITH consumed <- <<>>, crc <- 0, MaxLength <- 0

KiB == 1024
MiB == KiB * KiB

(* The helpers of testtools.cpp.  A block is a sequence of bytes. *)
createDataFrameWithData(first, blocks) ==
  IF blocks = <<>> THEN NewFrame(Config(first, 1, 0))
  ELSE LET size == Len(blocks[1])
       IN  [NewFrame(Config(first, size, Len(blocks))) EXCEPT
              !.data = [b \in DOMAIN @ |-> blocks[(b \div size) + 1][(b % size) + 1]]]

createFileWithContent(content) ==
  LET bytes == FlattenSeq(content) IN FileOf(bytes, Len(bytes))

(* A DataFile that reads, or that has written some frames and is closed.   *)
Reads(file, first, size, count, blocks) ==
  SameFrame(File!FrameRead(file, Config(first, size, count)),
            createDataFrameWithData(first, blocks))

Written(file, frames, shift) ==
  FoldLeft(LAMBDA f, frame : Overlay(f, File!BytesAt(frame, File!Place(frame, shift))),
           file, frames)

-----------------------------------------------------------------------------
(* dataframetestsuite.cpp *)

DataFrameCtorWithParamsTest ==
  LET frame == NewFrame(Config(245, 91, 242))
  IN  /\ totalSizeOfAllBlocks(frame) = 91 * 242
      /\ \A i \in {0, 1, 241} : \A b \in 0 .. 90 : blockAsRange(frame, i)[b] = 0

(* The tests of a frame of two blocks; moving it is FrameMemory's subject. *)
block0 == <<\h03, \hF1, \h70>>
block1 == <<\h26, \h11, \hCC>>
fixture == createDataFrameWithData(11, <<block0, block1>>)

DataFrameAssignCtorTest == SameFrame(CopyOf(fixture), fixture)

DataFrameBlockAsRangeTest ==
  \A b \in 0 .. 2 : /\ blockAsRange(fixture, 0)[b] = block0[b + 1]
                    /\ blockAsRange(fixture, 1)[b] = block1[b + 1]

DataFrameSetZeroBlocksCountTest == totalSizeOfAllBlocks(setBlocksCount(fixture, 0)) = 0

DataFrameSetDecreasedBlocksCountTest ==
  LET decreased == setBlocksCount(fixture, 1)
  IN  /\ totalSizeOfAllBlocks(decreased) = 3
      /\ blockAsRange(decreased, 0) = blockAsRange(fixture, 0)

DataFrameSetBlocksCountBiggerThenCapacityTest == ~Fits(fixture, 4)

-----------------------------------------------------------------------------
(* datafiletestsuite.cpp *)

ReadDataBlocksAsFrameFromEmptyFileTest ==
  /\ Reads(EmptyFile, 0, 1, 0, <<>>)
  /\ Reads(EmptyFile, 0, 1, 4, <<>>)

ReadDataBlocksAsFrameFromFileWithOneDataBlockTest ==
  LET data == <<<<\h77, \h22, \hAB, \hCC, \h01>>>>
      file == createFileWithContent(data)
  IN  /\ Reads(file, 0, 5, 1, data)
      /\ SameFrame(File!FrameRead(file, Config(3, 5, 1)), NewFrame(Config(3, 5, 0)))

ReadDataBlocksAsFrameFromFileWithSeveralDataBlocksTest ==
  LET data == <<<<\h77, \h22>>, <<\hAB, \hCC>>, <<\h01, \hF2>>, <<\h9A, \h21>>>>
      file == createFileWithContent(data)
  IN  /\ Reads(file, 0, 2, 4, data)
      /\ Reads(file, 2, 2, 2, SubSeq(data, 3, 4))
      /\ Reads(file, 1, 2, 7, SubSeq(data, 2, 4))
      /\ Reads(file, 1, 2, 2, SubSeq(data, 2, 3))

ReadDataBlocksAsFrameFromFileWithNonIntegerNumberOfDataBlockTest ==
  Reads(createFileWithContent(<<<<\h77, \h22, \hAB>>, <<\h01>>>>), 0, 3, 4,
        <<<<\h77, \h22, \hAB>>, <<\h01, 0, 0>>>>)

(* Frames written to a file that did not exist, from several places on. *)
WriteDataFrameToNonExistingFileTests ==
  LET data == <<<<\h71, \hAA>>, <<\hF2, \h23>>>>
      after(first, shift) ==
        Written(EmptyFile, <<createDataFrameWithData(first, data)>>, shift)
  IN  /\ Written(EmptyFile, <<createDataFrameWithData(10, <<>>)>>, 11) = EmptyFile
      /\ after(0, 0) = createFileWithContent(data)
      /\ after(3, 0) = createFileWithContent(<<<<0, 0, 0, 0, 0, 0>>>> \o data)
      /\ after(3, 2) = createFileWithContent(<<<<0, 0, 0, 0, 0, 0, 0, 0>>>> \o data)

(* And to one of ten bytes. *)
WriteDataFrameToExistingFileTests ==
  LET content == <<<<\h12, \h30>>, <<\h45, \h60>>, <<\h0A, \h1C>>, <<\h71, \hAA>>, <<\hF2, \h23>>>>
      data == <<<<\hAA, \hAB>>, <<\hCA, \hCB>>>>
      after(first, blocks, shift) ==
        Written(createFileWithContent(content), <<createDataFrameWithData(first, blocks)>>, shift)
  IN  /\ after(10, <<>>, 11) = createFileWithContent(content)
      /\ after(0, data, 0) = createFileWithContent(data \o SubSeq(content, 3, 5))
      /\ after(4, data, 0) = createFileWithContent(SubSeq(content, 1, 4) \o data)
      /\ after(0, <<data[1]>>, 12) =
           createFileWithContent(content \o <<<<0, 0>>, data[1]>>)

-----------------------------------------------------------------------------
(* datafilewrappertestsuite.cpp *)

makeConfigs(size, dataBlockSize) ==
  [i \in 0 .. dataFramesInFile(size, dataBlockSize, MiB) - 1 |->
     Config(firstBlockIdx(i, size, dataBlockSize, MiB), dataBlockSize,
            dataBlocksInFrame(size, dataBlockSize, MiB))]

(* The last case covers a file that is no multiple of a frame. *)
DistributeDataBlocksBetweenFileSegmentsTest ==
  LET perFrame == ceilDevision(MiB, 2)
      frames(n, size, count) == [i \in 0 .. n - 1 |-> Config(i * count, size, count)]
  IN  /\ makeConfigs(0, 10) = frames(0, 10, 0)
      /\ makeConfigs(1, 10) = frames(1, 10, 1)
      /\ makeConfigs(10, 3) = frames(1, 3, 4)
      /\ makeConfigs(MiB, 3) = frames(1, 3, ceilDevision(MiB, 3))
      /\ makeConfigs(3 * MiB, 2) = frames(3, 2, perFrame)
      /\ makeConfigs(MiB + 453, 2) = frames(2, 2, perFrame)

(* Frames in any order, behind what the file already holds. *)
WriteAllDataFramesTests ==
  LET frames == <<createDataFrameWithData(2, <<<<\h22, \h33>>>>),
                  createDataFrameWithData(0, <<<<\h01, \h23>>>>),
                  createDataFrameWithData(1, <<<<\hF0, \h3F>>>>)>>
      written == <<\h01, \h23, \hF0, \h3F, \h22, \h33>>
      existing == createFileWithContent(<<<<1, 2, 3, 4>>>>)
  IN  /\ Written(existing, <<>>, 2) = existing
      /\ Written(existing, frames, 2) = createFileWithContent(<<<<1, 2>>, written>>)
      /\ Written(EmptyFile, frames, 3) = createFileWithContent(<<<<0, 0, 0>>, written>>)

-----------------------------------------------------------------------------
(* crchashertestsuite.cpp *)

crc8(block) == FoldLeft(Loop!LookUp, 0, block)

calculateCrc8OfFrame(f) ==
  [NewFrame(Config(f.firstBlockIdx, Crc8ResultSize, f.blocksCount)) EXCEPT
     !.data = [b \in DOMAIN @ |->
                 crc8([i \in 1 .. f.blockSize |-> blockAsRange(f, b)[i - 1]])]]

CalculateByteArrayCrc ==
  /\ crc8(<<>>) = 0 /\ crc8(<<\hFF>>) = \hAC /\ crc8(<<0>>) = 0 /\ crc8(<<\h2A>>) = \h5D
  /\ crc8(<<\hDA, \h35, \hFF, \h23, \h00, \h04, \h43>>) = \h47

CalculatateFrameCrc ==
  LET gives(blocks, crcs) ==
        SameFrame(calculateCrc8OfFrame(createDataFrameWithData(6, blocks)),
                  createDataFrameWithData(6, crcs))
  IN  /\ gives(<<>>, <<>>)
      /\ gives(<<<<\h7B>>>>, <<<<\h12>>>>)
      /\ gives(<<<<\h7B>>, <<\h32>>, <<\h00>>, <<\h0C>>>>, <<<<\h12>>, <<\hA7>>, <<0>>, <<\h7D>>>>)
      /\ gives(<<<<\h02, \hFF, \hAB>>>>, <<<<\h1B>>>>)
      /\ gives(<<<<\h02, \hFF>>, <<\h3A, \hAB>>, <<\hDE, \h0C>>>>, <<<<\h75>>, <<\h4A>>, <<\hD4>>>>)

(* Frames of several sizes, whichever way they are ordered. *)
getDefaultCrcInputData ==
  <<createDataFrameWithData(10, <<<<\h7B>>, <<\h32>>, <<\h00>>, <<\h0C>>>>),
    createDataFrameWithData(15, <<<<\h7C>>>>),
    createDataFrameWithData(0, <<<<\h7B, \h47>>>>),
    createDataFrameWithData(3, <<<<\h7B, \h00, \h43>>, <<\h32, \h7B, \h00>>,
                                 <<\h02, \h70, \h10>>, <<\h32, \h7B, \h00>>>>),
    createDataFrameWithData(50, <<<<\h7B>>, <<\h32>>, <<\h00>>, <<\h0C>>,
                                  <<\h12>>, <<\h23>>, <<\h03>>>>)>>

getDefaultExpectedCrcOutputData ==
  <<createDataFrameWithData(10, <<<<\h12>>, <<\hA7>>, <<\h00>>, <<\h7D>>>>),
    createDataFrameWithData(15, <<<<\h85>>>>),
    createDataFrameWithData(0, <<<<\h8B>>>>),
    createDataFrameWithData(3, <<<<\hD9>>, <<\h70>>, <<\hF4>>, <<\h70>>>>),
    createDataFrameWithData(50, <<<<\h12>>, <<\hA7>>, <<\h00>>, <<\h7D>>,
                                  <<\h21>>, <<\hD5>>, <<\h53>>>>)>>

(* operator< of testtools.cpp orders the frames for the comparison. *)
Precedes(lhs, rhs) == lhs.firstBlockIdx < rhs.firstBlockIdx

testCalculateForWholeQueue(inputData, outputData) ==
  LET result == {calculateCrc8OfFrame(CopyOf(f)) : f \in ToSet(inputData)}
      expected == ToSet(outputData)
      sorted(frames) == SetToSortSeq(frames, Precedes)
  IN  /\ Len(sorted(result)) = Len(sorted(expected))
      /\ \A i \in DOMAIN sorted(expected) : SameFrame(sorted(result)[i], sorted(expected)[i])

CalculateForWholeQueue ==
  /\ testCalculateForWholeQueue(<<>>, <<>>)
  /\ testCalculateForWholeQueue(getDefaultCrcInputData, getDefaultExpectedCrcOutputData)

-----------------------------------------------------------------------------
(* crcsignatureoffiletestsuite.cpp *)

(* What cleanup leaves of a file that had two bytes before. *)
CleanupTest == Resized(createFileWithContent(<<<<1, 2, \h30>>>>), 2)
                 = createFileWithContent(<<<<1, 2>>>>)

(* Which sizes of blocks and of RAM the constructor accepts. *)
ReadCalculateAndWriteTest ==
  /\ \A sizes \in {<<1, MiB>>, <<20, MiB>>, <<12 * KiB, 36 * KiB>>,
                    <<MiB, 300 * MiB>>, <<(23 * MiB) \div 10, 300 * MiB>>} :
       getMaxQueueSize(sizes[1], sizes[2]) > 0
  /\ getMaxQueueSize(3 * MiB, MiB) = 0

ASSUME FrameTests ==
  /\ DataFrameCtorWithParamsTest /\ DataFrameAssignCtorTest /\ DataFrameBlockAsRangeTest
  /\ DataFrameSetZeroBlocksCountTest /\ DataFrameSetDecreasedBlocksCountTest
  /\ DataFrameSetBlocksCountBiggerThenCapacityTest

ASSUME FileTests ==
  /\ ReadDataBlocksAsFrameFromEmptyFileTest
  /\ ReadDataBlocksAsFrameFromFileWithOneDataBlockTest
  /\ ReadDataBlocksAsFrameFromFileWithSeveralDataBlocksTest
  /\ ReadDataBlocksAsFrameFromFileWithNonIntegerNumberOfDataBlockTest
  /\ WriteDataFrameToNonExistingFileTests
  /\ WriteDataFrameToExistingFileTests

ASSUME WrapperTests ==
  DistributeDataBlocksBetweenFileSegmentsTest /\ WriteAllDataFramesTests

ASSUME HasherTests ==
  CalculateByteArrayCrc /\ CalculatateFrameCrc /\ CalculateForWholeQueue

ASSUME SignatureTests == CleanupTest /\ ReadCalculateAndWriteTest
=============================================================================
