----------------------------- MODULE DataFrame -----------------------------
(***************************************************************************)
(* DataFrame (dataframe.cpp) as a value: some blocks of a file and where   *)
(* the first one lies.  Whose memory it is, and what moving a frame does   *)
(* to it, is FrameMemory's subject.                                        *)
(***************************************************************************)
EXTENDS Sizing

(* DataFrameConfig, without the pool. *)
Config(first, size, count) ==
  [firstBlockIdx |-> first, blockSize |-> size, blocksCount |-> count]

(* A slip: the memory has as many bytes as there are blocks. *)
NewFrameOfBlocks(config) ==
  [firstBlockIdx |-> config.firstBlockIdx,
   blockSize |-> config.blockSize, blocksCount |-> config.blocksCount,
   capacity |-> config.blocksCount,
   data |-> [b \in 0 .. config.blocksCount - 1 |-> 0]]

(* The constructor; its memory is ZeroFilledMemory. *)
NewFrame(config) ==
  LET capacity == config.blockSize * config.blocksCount
  IN  [firstBlockIdx |-> config.firstBlockIdx,
       blockSize |-> config.blockSize, blocksCount |-> config.blocksCount,
       capacity |-> capacity,
       data |-> [b \in 0 .. capacity - 1 |-> 0]]

totalSizeOfAllBlocks(frame) == frame.blocksCount * frame.blockSize

(* A slip: as many bytes as there are blocks are copied. *)
CopyOfBlocks(frame) ==
  [frame EXCEPT !.data = [b \in 0 .. frame.capacity - 1 |->
                            IF b < frame.blocksCount THEN frame.data[b] ELSE 0]]

(* The copy constructor, and the assignment made from it: the copy has all *)
(* the memory of the original, but only the bytes of its blocks.           *)
CopyOf(frame) ==
  [frame EXCEPT !.data = [b \in 0 .. frame.capacity - 1 |->
                            IF b < totalSizeOfAllBlocks(frame) THEN frame.data[b] ELSE 0]]

blockAsRange(frame, block) ==
  [b \in 0 .. frame.blockSize - 1 |-> frame.data[block * frame.blockSize + b]]

(* std::out_of_range is thrown for a count that does not fit. *)
Fits(frame, count) == count * frame.blockSize <= frame.capacity

setBlocksCount(frame, count) == [frame EXCEPT !.blocksCount = count]

(* operator== of the tests (testtools.cpp). *)
SameFrame(lhs, rhs) ==
  /\ lhs.blockSize = rhs.blockSize /\ lhs.blocksCount = rhs.blocksCount
  /\ \A b \in 0 .. totalSizeOfAllBlocks(lhs) - 1 : lhs.data[b] = rhs.data[b]
=============================================================================
