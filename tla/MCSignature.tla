---------------------------- MODULE MCSignature ----------------------------
(***************************************************************************)
(* The runs that TLC looks at: one block with many contents, for crc8, and *)
(* some files that are cut into several frames, with everything that       *)
(* others may do and that may fail.                                        *)
(***************************************************************************)
EXTENDS Signature

AllBytes == 0 .. 255

Scenario(content, size, original, copies, resizes, meddles, faults) ==
  [input |-> content, blockSize |-> size, original |-> original, copies |-> copies,
   resizes |-> resizes, meddles |-> meddles, faults |-> faults]

(* Blocks of two bytes: all those whose bits lie within eight neighbouring *)
(* ones, and every first byte followed by some others.                     *)
Bursts == UNION {{<<a, b>> : a \in 0 .. 2^k - 1, b \in {x \in AllBytes : x % 2^k = 0}} : k \in 0 .. 8}
Chained == AllBytes \X ({2^k : k \in 0 .. 7} \cup {85, 170, 255})

(* One block, perhaps incomplete, undisturbed. *)
Small == {Scenario(f, 2, NoFile, FALSE, {}, {}, {}) :
            f \in {FileOf(<<a>>, 1) : a \in AllBytes}
                    \cup {FileOf(block, 2) : block \in Bursts \cup Chained}}

Long == <<7, 0, 255, 49, 128, 64, 3>>
Old == FileOf(<<1, 2>>, 2)

Undisturbed ==
  {Scenario(FileOf(Long, length), size, original, copies, {}, {}, {}) :
     length \in 0 .. 7, size \in 1 .. 3, original \in {NoFile, Old}, copies \in BOOLEAN}

Disturbed ==
  {Scenario(content, size, original, FALSE,
            {0, 1, 4, 8}, {NoFile, EmptyFile, FileOf(<<9, 9, 9>>, 3)}, faults) :
     content \in {NoFile, FileOf(Long, 7)}, size \in 1 .. 3, original \in {NoFile, Old},
     faults \in {{}, {"open", "memory", "read", "write", "close", "cleanup"}}}

MCScenarios == Small \cup Undisturbed \cup Disturbed
=============================================================================
