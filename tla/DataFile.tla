------------------------------ MODULE DataFile ------------------------------
(***************************************************************************)
(* DataFile (datafile.cpp): a file behind a buffered std::fstream whose    *)
(* exceptions are enabled.  Each operation is an action; Signature says    *)
(* who calls them and what becomes of their exceptions.                    *)
(*                                                                         *)
(* The stream is modelled as libstdc++ has it: seeking writes the buffer   *)
(* out and forgets what was read ahead, few bytes are buffered, many are   *)
(* written at once.                                                        *)
(***************************************************************************)
EXTENDS DataFrame, FileContent

CONSTANTS None,        \* nothing buffered
          DirectSize   \* bytes from which on a write passes by the buffer

VARIABLES
  file,       \* what the file system holds
  stream      \* fileStream_: its mode, rdstate() and the bytes in its buffer

Closed == [mode |-> "closed", bits |-> {}, pending |-> None]

Modes == {"in", "out", "in|out"}

(* A file that was removed while it was open takes what is written out of  *)
(* sight.                                                                  *)
Stored(f, write) == IF f = NoFile THEN NoFile ELSE Overlay(f, write)

(* What a reader of the file would find if the buffer were written out. *)
Flushed(f, pending) == IF pending = None THEN f ELSE Stored(f, pending)

(* Only "out" creates a file, and it cuts the one that is there. *)
Open(mode) ==
  /\ stream.mode = "closed"
  /\ \/ mode = "out" /\ file' = EmptyFile
     \/ mode # "out" /\ file # NoFile /\ UNCHANGED file
  /\ stream' = [Closed EXCEPT !.mode = mode]

-----------------------------------------------------------------------------
(* readDataBlocksAsFrame *)

(* gcount(): fewer bytes than asked for only at the end of the file. *)
gcount(f, config) ==
  LET from == config.firstBlockIdx * config.blockSize
  IN  IF from >= f.size THEN 0
      ELSE Least(config.blockSize * config.blocksCount, f.size - from)

(* A slip: the frame keeps its count of blocks. *)
FrameReadUncounted(f, config) ==
  LET from == config.firstBlockIdx * config.blockSize
      n == gcount(f, config)
  IN  [NewFrame(config) EXCEPT
         !.data = [b \in DOMAIN @ |-> IF b < n THEN f.bytes[from + b] ELSE @[b]]]

(* The last block of a short read is filled up with the zeroes of the new  *)
(* frame; blocks that were not begun are given up.                         *)
FrameRead(f, config) ==
  LET from == config.firstBlockIdx * config.blockSize
      n == gcount(f, config)
      filled == [NewFrame(config) EXCEPT
                   !.data = [b \in DOMAIN @ |-> IF b < n THEN f.bytes[from + b] ELSE @[b]]]
  IN  IF n = totalSizeOfAllBlocks(filled) THEN filled
      ELSE setBlocksCount(filled, ceilDevision(n, config.blockSize))

(* A slip: the state is not cleared. *)
AfterEndOfFileKept == {"fail", "eof"}

(* The exception of a short read is suppressed and the state cleared. *)
AfterEndOfFile == {}

(* Its caller gets FrameRead(file, config). *)
readDataBlocksAsFrame(config) ==
  /\ stream.mode \in {"in", "in|out"} /\ "fail" \notin stream.bits
  /\ stream' = [stream EXCEPT
       !.bits = IF gcount(file, config) < config.blockSize * config.blocksCount
                THEN AfterEndOfFile ELSE {}]
  /\ UNCHANGED file

(* seekg on a stream that has failed throws, whatever it failed for. *)
SeekThrows == /\ stream.mode # "closed" /\ "fail" \in stream.bits
              /\ UNCHANGED <<file, stream>>

(* An error that is not the end of the file is rethrown. *)
ReadFails == /\ stream.mode \in {"in", "in|out"} /\ "fail" \notin stream.bits
             /\ stream' = [stream EXCEPT !.bits = {"bad"}]
             /\ UNCHANGED file

-----------------------------------------------------------------------------
(* writeDataFrame *)

Place(f, writingPosShift) == writingPosShift + f.firstBlockIdx * f.blockSize

BytesAt(f, at) == [at |-> at, size |-> totalSizeOfAllBlocks(f), bytes |-> f.data]

(* A slip: the buffer is not written out when the position changes. *)
writeDataFrameUnflushed(f, writingPosShift) ==
  LET write == BytesAt(f, Place(f, writingPosShift))
  IN  /\ stream.mode \in {"out", "in|out"} /\ stream.bits = {}
      /\ stream' = [stream EXCEPT !.pending = IF write.size = 0 THEN None ELSE write]
      /\ UNCHANGED file

writeDataFrame(f, writingPosShift) ==
  LET write == BytesAt(f, Place(f, writingPosShift))
      flushed == Flushed(file, stream.pending)
  IN  /\ stream.mode \in {"out", "in|out"} /\ stream.bits = {}
      /\ \/ /\ write.size \in 1 .. DirectSize - 1
            /\ file' = flushed
            /\ stream' = [stream EXCEPT !.pending = write]
         \/ /\ write.size \notin 1 .. DirectSize - 1
            /\ file' = Stored(flushed, write)
            /\ stream' = [stream EXCEPT !.pending = None]

(* The seek cannot write the buffer out, which keeps its bytes; or it can, *)
(* but then the bytes that pass by the buffer cannot be written.           *)
WriteFails(f) ==
  /\ stream.mode \in {"out", "in|out"} /\ stream.bits = {}
  /\ \/ /\ stream.pending # None
        /\ stream' = [stream EXCEPT !.bits = {"bad"}]
        /\ UNCHANGED file
     \/ /\ totalSizeOfAllBlocks(f) >= DirectSize
        /\ file' = Flushed(file, stream.pending)
        /\ stream' = [stream EXCEPT !.pending = None, !.bits = {"bad"}]

-----------------------------------------------------------------------------
(* The destructor. *)

Close == /\ stream.mode # "closed"
         /\ file' = Flushed(file, stream.pending)
         /\ stream' = Closed

(* An exception leaves the destructor, which ends the program. *)
CloseFails == /\ stream.mode # "closed" /\ stream.pending # None
              /\ stream' = [Closed EXCEPT !.bits = {"fail"}]
              /\ UNCHANGED file
=============================================================================
