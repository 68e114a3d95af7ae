----------------------------- MODULE MCPipeline -----------------------------
(* Instances of Pipeline for TLC, and a measure that only TLC evaluates. *)
EXTENDS Pipeline, SequencesExt

(* Bytes of the frames waiting in a queue whose blocks have blockSize bytes. *)
QueueBytes(queue, blockSize) ==
  FoldLeft(LAMBDA sum, f : sum + blockSize * Cardinality(BlocksOf(f)), 0, queue)

(* The two queues together stay within the RAM the user allowed (README:   *)
(* "maximum RAM usage of the program"; note at crcsignatureoffile.cpp:25). *)
RamLimitKept ==
  QueueBytes(inputQueue, BlockSize) + QueueBytes(outputQueue, Crc8ResultSize)
    <= MaxRamSize
=============================================================================
