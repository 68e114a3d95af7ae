------------------------------- MODULE Sizing -------------------------------
(***************************************************************************)
(* The arithmetic the program does before any thread runs: how many        *)
(* threads and tasks (crcsignatureoffile.cpp), how long the queues may     *)
(* grow, and how a file is cut into blocks and the blocks into frames      *)
(* (datafilewrapper.cpp, datafile.cpp).  All quantities are size_t; the    *)
(* values considered are far from wrapping around.                         *)
(***************************************************************************)
EXTENDS Integers

(* A slip: plain division, which drops the incomplete last part. *)
ceilDevisionFloor(divisible, divisor) == divisible \div divisor

ceilDevision(divisible, divisor) ==
  divisible \div divisor + IF divisible % divisor # 0 THEN 1 ELSE 0

(* sizeof(Crc8ResultType): a signature has one byte for each block. *)
Crc8ResultSize == 1

Least(a, b) == IF a <= b THEN a ELSE b
Greatest(a, b) == IF a >= b THEN a ELSE b

-----------------------------------------------------------------------------
(* Threads and tasks.  hardwareConcurrency is what the platform reports, 0 *)
(* when it does not know.                                                  *)

(* A slip: room for one task of each kind is not reserved. *)
getThreadCntUnreserved(hardwareConcurrency) == Greatest(1, hardwareConcurrency - 1)

getThreadCnt(hardwareConcurrency) ==
  IF hardwareConcurrency = 0 THEN 3 ELSE Greatest(3, hardwareConcurrency - 1)

readTasksCnt(hardwareConcurrency, isSSD) ==
  IF isSSD THEN ceilDevision(getThreadCnt(hardwareConcurrency), 4) ELSE 1

crcCaclulationTasksCnt(hardwareConcurrency) ==
  ceilDevision(getThreadCnt(hardwareConcurrency) * 3, 4)

(* The constructor throws std::invalid_argument if this is 0. *)
getMaxQueueSize(dataBlockSize, maxRamSize) ==
  maxRamSize \div (dataBlockSize + Crc8ResultSize)

-----------------------------------------------------------------------------
(* Blocks and frames.  optimal is OptimalDataFrameSize (1 MB). *)

dataBlocksInFile(fileSize, blockSize) == ceilDevision(fileSize, blockSize)

dataBlocksInFrame(fileSize, blockSize, optimal) ==
  Least(ceilDevision(optimal, blockSize), dataBlocksInFile(fileSize, blockSize))

dataFramesInFile(fileSize, blockSize, optimal) ==
  IF fileSize = 0
  THEN 0
  ELSE ceilDevision(dataBlocksInFile(fileSize, blockSize),
                    dataBlocksInFrame(fileSize, blockSize, optimal))

(* makeConfigs numbers the frames from 0; every configuration asks for the *)
(* same number of blocks.                                                  *)
firstBlockIdx(frame, fileSize, blockSize, optimal) ==
  frame * dataBlocksInFrame(fileSize, blockSize, optimal)

(* gcount() of the read of a frame: the last one stops at the end of file. *)
readed(frame, fileSize, blockSize, optimal) ==
  Least(dataBlocksInFrame(fileSize, blockSize, optimal) * blockSize,
        fileSize - firstBlockIdx(frame, fileSize, blockSize, optimal) * blockSize)

(* A slip: the count of blocks is not corrected after a short read. *)
blocksCountUncorrected(frame, fileSize, blockSize, optimal) ==
  dataBlocksInFrame(fileSize, blockSize, optimal)

blocksCount(frame, fileSize, blockSize, optimal) ==
  ceilDevision(readed(frame, fileSize, blockSize, optimal), blockSize)

(* The blocks a frame carries once it has been read. *)
blocksOfFrame(frame, fileSize, blockSize, optimal) ==
  LET first == firstBlockIdx(frame, fileSize, blockSize, optimal)
  IN  first .. first + blocksCount(frame, fileSize, blockSize, optimal) - 1
=============================================================================
