-------------------------- MODULE SignatureProofs --------------------------
(***************************************************************************)
(* Theorems about Signature for all files, block and frame sizes, whatever *)
(* others do to the files and whatever fails, in every order of the reader *)
(* and the writer.  What they need of the loop of crc8 is proved in        *)
(* Crc8Proofs.                                                             *)
(***************************************************************************)
EXTENDS Signature, SizingProofs, TLAPS

-----------------------------------------------------------------------------
(* Each instance brings its own copy of what Signature extends. *)
(* Each instance brings its own copy of what Signature extends. *)
LEMMA SharedByInput ==
  /\ \A a, b : In!Least(a, b) = Least(a, b) /\ In!ceilDevision(a, b) = ceilDevision(a, b)
  /\ \A f, c : In!setBlocksCount(f, c) = setBlocksCount(f, c)
  /\ \A f : In!totalSizeOfAllBlocks(f) = totalSizeOfAllBlocks(f)
  /\ \A c : In!NewFrame(c) = NewFrame(c)
  /\ \A f, w : In!Overlay(f, w) = Overlay(f, w)
  /\ In!EmptyFile = EmptyFile /\ In!NoFile = NoFile
BY DEF In!Least, Least, In!ceilDevision, ceilDevision, In!setBlocksCount, setBlocksCount,
       In!totalSizeOfAllBlocks, totalSizeOfAllBlocks, In!NewFrame, NewFrame,
       In!Overlay, Overlay, In!Greatest, Greatest, In!EmptyFile, EmptyFile,
       In!NoFile, NoFile

LEMMA SharedByOutput ==
  /\ \A f : Out!totalSizeOfAllBlocks(f) = totalSizeOfAllBlocks(f)
  /\ \A f, w : Out!Overlay(f, w) = Overlay(f, w) /\ OutputFile!Overlay(f, w) = Overlay(f, w)
  /\ Out!EmptyFile = EmptyFile /\ OutputFile!EmptyFile = EmptyFile
  /\ Out!NoFile = NoFile /\ OutputFile!NoFile = NoFile
  /\ \A f : OutputFile!IsFile(f) <=> IsFile(f)
  /\ \A f, w : Out!Stored(f, w) = IF f = NoFile THEN NoFile ELSE Overlay(f, w)
<1>1. \A f, w : Out!Overlay(f, w) = Overlay(f, w) /\ OutputFile!Overlay(f, w) = Overlay(f, w)
  BY DEF Out!Overlay, OutputFile!Overlay, Overlay, Out!Greatest, OutputFile!Greatest, Greatest
<1>2. Out!NoFile = NoFile /\ OutputFile!NoFile = NoFile
  BY DEF Out!NoFile, OutputFile!NoFile, NoFile
<1>3. \A f, w : Out!Stored(f, w) = IF f = NoFile THEN NoFile ELSE Overlay(f, w)
  BY <1>1, <1>2 DEF Out!Stored
<1>4. \A f : OutputFile!IsFile(f) <=> IsFile(f)
  BY DEF OutputFile!IsFile, IsFile
<1>5. /\ \A f : Out!totalSizeOfAllBlocks(f) = totalSizeOfAllBlocks(f)
      /\ Out!EmptyFile = EmptyFile /\ OutputFile!EmptyFile = EmptyFile
  BY DEF Out!totalSizeOfAllBlocks, totalSizeOfAllBlocks,
         Out!EmptyFile, OutputFile!EmptyFile, EmptyFile
<1>. QED  BY <1>1, <1>2, <1>3, <1>4, <1>5, Zenon

-----------------------------------------------------------------------------
(* Frames and files. *)

Data == UNION {[0 .. n - 1 -> 0 .. 255] : n \in Nat}

Frame == {f \in [firstBlockIdx : Nat, blockSize : Nat \ {0}, blocksCount : Nat,
                 capacity : Nat, data : Data] :
            f.data \in [0 .. f.capacity - 1 -> 0 .. 255] /\ Fits(f, f.blocksCount)}

Writes == {w \in [at : Nat, size : Nat, bytes : Data] :
             w.bytes \in [0 .. w.size - 1 -> 0 .. 255]}

LEMMA NewFrameType ==
  ASSUME NEW first \in Nat, NEW size \in Nat \ {0}, NEW count \in Nat,
         NEW n \in Nat, n = size * count
  PROVE  /\ NewFrame(Config(first, size, count)) \in Frame
         /\ NewFrame(Config(first, size, count)).firstBlockIdx = first
         /\ NewFrame(Config(first, size, count)).blockSize = size
         /\ NewFrame(Config(first, size, count)).blocksCount = count
         /\ NewFrame(Config(first, size, count)).capacity = n
         /\ \A b \in 0 .. n - 1 :
              NewFrame(Config(first, size, count)).data[b] = 0
<1>1. count * size = n
  OBVIOUS
<1>. DEFINE d == [b \in 0 .. n - 1 |-> 0]
<1>2. NewFrame(Config(first, size, count)) =
        [firstBlockIdx |-> first, blockSize |-> size, blocksCount |-> count,
         capacity |-> n, data |-> d]
  BY DEF NewFrame, Config
<1>3. d \in [0 .. n - 1 -> 0 .. 255] /\ \A b \in 0 .. n - 1 : d[b] = 0
  OBVIOUS
<1>4. d \in Data
  BY <1>1, <1>3 DEF Data
<1>. HIDE DEF d
<1>. DEFINE f == [firstBlockIdx |-> first, blockSize |-> size, blocksCount |-> count,
                  capacity |-> n, data |-> d]
<1>6. NewFrame(Config(first, size, count)) \in Frame
  <2>1. f \in [firstBlockIdx : Nat, blockSize : Nat \ {0}, blocksCount : Nat,
               capacity : Nat, data : Data]
    BY <1>1, <1>4
  <2>2. f.data \in [0 .. f.capacity - 1 -> 0 .. 255]
    BY <1>3
  <2>3. Fits(f, f.blocksCount)
    BY <1>1 DEF Fits
  <2>. QED  BY <1>2, <2>1, <2>2, <2>3 DEF Frame
<1>. QED  BY <1>2, <1>3, <1>6

LEMMA CopyType ==
  ASSUME NEW f \in Frame
  PROVE  /\ CopyOf(f) \in Frame
         /\ CopyOf(f).firstBlockIdx = f.firstBlockIdx
         /\ CopyOf(f).blockSize = f.blockSize
         /\ CopyOf(f).blocksCount = f.blocksCount
         /\ \A b \in 0 .. totalSizeOfAllBlocks(f) - 1 : CopyOf(f).data[b] = f.data[b]
<1>. DEFINE t == totalSizeOfAllBlocks(f)
            d == [b \in 0 .. f.capacity - 1 |-> IF b < t THEN f.data[b] ELSE 0]
<1>1. t \in Nat /\ t <= f.capacity /\ f.capacity \in Nat
  BY DEF Frame, Fits, totalSizeOfAllBlocks
<1>2. d \in [0 .. f.capacity - 1 -> 0 .. 255]
  <2>1. \A b \in 0 .. f.capacity - 1 : f.data[b] \in 0 .. 255
    BY DEF Frame
  <2>. QED  BY <2>1
<1>3. d \in Data
  BY <1>1, <1>2 DEF Data
<1>4. \A b \in 0 .. t - 1 : d[b] = f.data[b]
  BY <1>1
<1>5. CopyOf(f) = [f EXCEPT !.data = d]
  BY DEF CopyOf
<1>. HIDE DEF d, t
<1>. QED  BY <1>2, <1>3, <1>4, <1>5, ZenonT(30) DEF Frame, Fits, t

LEMMA SetCountType ==
  ASSUME NEW f \in Frame, NEW count \in Nat, Fits(f, count)
  PROVE  /\ setBlocksCount(f, count) \in Frame
         /\ setBlocksCount(f, count).firstBlockIdx = f.firstBlockIdx
         /\ setBlocksCount(f, count).blockSize = f.blockSize
         /\ setBlocksCount(f, count).blocksCount = count
         /\ setBlocksCount(f, count).capacity = f.capacity
         /\ setBlocksCount(f, count).data = f.data
BY DEF setBlocksCount, Frame, Fits

LEMMA OverlayIsFile ==
  ASSUME NEW f, IsFile(f), NEW w \in Writes
  PROVE  /\ IsFile(Overlay(f, w))
         /\ w.size = 0 => Overlay(f, w) = f
         /\ w.size # 0 => Overlay(f, w).size = Greatest(f.size, w.at + w.size)
         /\ f.size <= Overlay(f, w).size
         /\ \A b \in 0 .. f.size - 1 : b < w.at \/ b >= w.at + w.size
                                        => Overlay(f, w).bytes[b] = f.bytes[b]
         /\ \A b \in 0 .. Overlay(f, w).size - 1 :
              b >= f.size /\ (b < w.at \/ b >= w.at + w.size) => Overlay(f, w).bytes[b] = 0
         /\ \A b \in 0 .. w.size - 1 : /\ w.at + b < Overlay(f, w).size
                                       /\ Overlay(f, w).bytes[w.at + b] = w.bytes[b]
<1>0. f.size \in Nat /\ w.at \in Nat /\ w.size \in Nat
  BY DEF IsFile, Writes
<1>1. CASE w.size = 0
  BY <1>0, <1>1 DEF Overlay
<1>2. CASE w.size # 0
  <2>. DEFINE size == Greatest(f.size, w.at + w.size)
              written == w.at .. w.at + w.size - 1
              bytes == [b \in 0 .. size - 1 |->
                         CASE b \in written -> w.bytes[b - w.at]
                           [] b \notin written /\ b < f.size -> f.bytes[b]
                           [] OTHER -> 0]
  <2>1. size \in Nat /\ f.size <= size /\ w.at + w.size <= size
    BY <1>0 DEF Greatest
  <2>2. Overlay(f, w) = [size |-> size, bytes |-> bytes]
    BY <1>2 DEF Overlay
  <2>. HIDE DEF size
  <2>3. \A b \in 0 .. size - 1 : b \in written => bytes[b] = w.bytes[b - w.at]
    OBVIOUS
  <2>4. \A b \in 0 .. size - 1 : b \notin written /\ b < f.size => bytes[b] = f.bytes[b]
    OBVIOUS
  <2>5. \A b \in 0 .. size - 1 : b \notin written /\ ~(b < f.size) => bytes[b] = 0
    OBVIOUS
  <2>6. \A b \in 0 .. size - 1 : bytes[b] \in 0 .. 255
    <3>. TAKE b \in 0 .. size - 1
    <3>1. CASE b \in written
      <4>1. b - w.at \in 0 .. w.size - 1
        BY <1>0, <3>1
      <4>. QED  BY <2>3, <3>1, <4>1, ZenonT(30) DEF Writes
    <3>2. CASE b \notin written /\ b < f.size
      <4>1. b \in 0 .. f.size - 1
        BY <1>0, <2>1, <3>2
      <4>. QED  BY <2>4, <3>2, <4>1, ZenonT(30) DEF IsFile
    <3>3. CASE b \notin written /\ ~(b < f.size)
      <4>1. bytes[b] = 0
        BY <2>5, <3>3, Zenon
      <4>. QED  BY <4>1
    <3>. QED  BY <3>1, <3>2, <3>3, Zenon
  <2>7. bytes = [b \in 0 .. size - 1 |-> bytes[b]]
    OBVIOUS
  <2>. HIDE DEF bytes
  <2>8. bytes \in [0 .. size - 1 -> 0 .. 255]
    BY <2>6, <2>7
  <2>9. IsFile(Overlay(f, w))
    BY <2>1, <2>2, <2>8 DEF IsFile
  <2>10. \A b \in 0 .. f.size - 1 : b < w.at \/ b >= w.at + w.size => bytes[b] = f.bytes[b]
    BY <1>0, <2>1, <2>4
  <2>11. \A b \in 0 .. w.size - 1 : w.at + b < size /\ bytes[w.at + b] = w.bytes[b]
    <3>. TAKE b \in 0 .. w.size - 1
    <3>1. w.at + b \in written /\ w.at + b \in 0 .. size - 1 /\ (w.at + b) - w.at = b
      BY <1>0, <2>1
    <3>. QED  BY <1>0, <2>1, <2>3, <3>1
  <2>12. \A b \in 0 .. size - 1 :
           b >= f.size /\ (b < w.at \/ b >= w.at + w.size) => bytes[b] = 0
    BY <1>0, <2>1, <2>5
  <2>. QED  BY <1>2, <2>1, <2>2, <2>9, <2>10, <2>11, <2>12 DEF size
<1>. QED  BY <1>1, <1>2

LEMMA ResizedIsFile ==
  ASSUME NEW f, IsFile(f), NEW size \in Nat
  PROVE  /\ IsFile(Resized(f, size)) /\ Resized(f, size).size = size
         /\ \A b \in 0 .. size - 1 :
              Resized(f, size).bytes[b] = IF b < f.size THEN f.bytes[b] ELSE 0
<1>. DEFINE bytes == [b \in 0 .. size - 1 |-> IF b < f.size THEN f.bytes[b] ELSE 0]
<1>1. Resized(f, size) = [size |-> size, bytes |-> bytes]
  BY DEF Resized
<1>2. \A b \in 0 .. size - 1 : bytes[b] \in 0 .. 255
  <2>1. \A b \in 0 .. size - 1 : b < f.size => b \in 0 .. f.size - 1
    BY DEF IsFile
  <2>2. \A b \in 0 .. f.size - 1 : f.bytes[b] \in 0 .. 255
    BY DEF IsFile
  <2>. QED  BY <2>1, <2>2
<1>3. bytes \in [0 .. size - 1 -> 0 .. 255]
  BY <1>2
<1>. QED  BY <1>1, <1>3 DEF IsFile

(* A file is known by its size and its bytes. *)
LEMMA SameFile ==
  ASSUME NEW f, NEW g, IsFile(f), IsFile(g), f.size = g.size,
         \A b \in 0 .. f.size - 1 : f.bytes[b] = g.bytes[b]
  PROVE  f = g
<1>1. f.bytes = g.bytes
  BY DEF IsFile
<1>. QED  BY <1>1 DEF IsFile

LEMMA EmptyIsFile == IsFile(EmptyFile) /\ EmptyFile.size = 0
<1>1. [b \in {} |-> 0] \in [0 .. 0 - 1 -> 0 .. 255]
  OBVIOUS
<1>. QED  BY <1>1 DEF IsFile, EmptyFile

LEMMA NoFileIsNoFile == ~IsFile(NoFile)
BY DEF IsFile, NoFile

(* A part is begun if and only if the parts before it do not hold all. *)
LEMMA CeilParts ==
  ASSUME NEW a \in Nat, NEW b \in Nat \ {0}, NEW j \in Nat
  PROVE  j < ceilDevision(a, b) <=> j * b < a
<1>. DEFINE c == ceilDevision(a, b)
<1>1. c \in Nat /\ a <= c * b /\ (c - 1) * b < a
  BY CeilBounds
<1>. HIDE DEF c
<1>2. ASSUME j < c PROVE j * b < a
  <2>1. j <= c - 1 /\ c - 1 \in Int
    BY <1>1, <1>2
  <2>2. j * b <= (c - 1) * b
    BY <2>1, MulMonotone
  <2>. QED  BY <1>1, <2>1, <2>2
<1>3. ASSUME ~(j < c) PROVE ~(j * b < a)
  <2>1. c * b <= j * b
    BY <1>1, <1>3, MulMonotone
  <2>. QED  BY <1>1, <2>1
<1>. QED  BY <1>2, <1>3 DEF c

(* A frame read from a file: bytes behind the end are zero, and of the     *)
(* blocks asked for it has those that begin before the end.                *)
ReadRight(f, r, first, from, size, count, total) ==
  /\ r \in Frame /\ r.firstBlockIdx = first /\ r.blockSize = size
  /\ r.capacity = total /\ r.blocksCount <= count
  /\ \A j \in 0 .. count - 1 : j < r.blocksCount <=> from + j * size < f.size
  /\ \A b \in 0 .. total - 1 :
       r.data[b] = IF from + b < f.size THEN f.bytes[from + b] ELSE 0

LEMMA FrameReadRight ==
  ASSUME NEW f, IsFile(f), NEW first \in Nat, NEW size \in Nat \ {0}, NEW count \in Nat,
         NEW from \in Nat, from = first * size, NEW total \in Nat, total = size * count,
         NEW r, r = In!FrameRead(f, Config(first, size, count))
  PROVE  ReadRight(f, r, first, from, size, count, total)
<1>. DEFINE config == Config(first, size, count)
            n == In!gcount(f, config)
            frame == NewFrame(config)
            d == [b \in DOMAIN frame.data |->
                    IF b < n THEN f.bytes[from + b] ELSE frame.data[b]]
            filled == [frame EXCEPT !.data = d]
<1>1. from \in Nat /\ total \in Nat /\ f.size \in Nat /\ total = count * size
  BY DEF IsFile
<1>2. /\ config.firstBlockIdx = first /\ config.blockSize = size /\ config.blocksCount = count
      /\ r = In!FrameRead(f, config)
  BY DEF Config
<1>3. /\ n = IF from >= f.size THEN 0 ELSE Least(total, f.size - from)
      /\ n \in Nat /\ n <= total
  <2>. HIDE DEF config
  <2>1. n = IF from >= f.size THEN 0 ELSE Least(total, f.size - from)
    BY <1>2, SharedByInput DEF In!gcount
  <2>. HIDE DEF n
  <2>. QED  BY <1>1, <2>1 DEF Least
<1>4. /\ frame \in Frame /\ frame.firstBlockIdx = first /\ frame.blockSize = size
      /\ frame.blocksCount = count /\ frame.capacity = total
      /\ DOMAIN frame.data = 0 .. total - 1
      /\ \A b \in 0 .. total - 1 : frame.data[b] = 0
  <2>1. /\ frame \in Frame /\ frame.firstBlockIdx = first /\ frame.blockSize = size
        /\ frame.blocksCount = count /\ frame.capacity = total
        /\ \A b \in 0 .. total - 1 : frame.data[b] = 0
    <3>1. NewFrame(Config(first, size, count)) = frame
      BY DEF frame, config
    <3>. HIDE DEF frame, config, n, d, filled
    <3>. DEFINE g == NewFrame(Config(first, size, count))
    <3>3. /\ g \in Frame /\ g.firstBlockIdx = first /\ g.blockSize = size
          /\ g.blocksCount = count /\ g.capacity = total
          /\ \A b \in 0 .. total - 1 : g.data[b] = 0
      BY NewFrameType
    <3>. QED  BY <3>1, <3>3
  <2>. HIDE DEF frame
  <2>2. DOMAIN frame.data = 0 .. frame.capacity - 1
    BY <2>1 DEF Frame
  <2>. QED  BY <2>1, <2>2
<1>5. r = IF n = totalSizeOfAllBlocks(filled) THEN filled
          ELSE setBlocksCount(filled, ceilDevision(n, size))
  <2>. HIDE DEF config
  <2>1. r = IF In!gcount(f, config) = totalSizeOfAllBlocks(filled) THEN filled
            ELSE setBlocksCount(filled, ceilDevision(In!gcount(f, config), config.blockSize))
    <3>1. /\ In!NewFrame(config) = frame
          /\ In!totalSizeOfAllBlocks(filled) = totalSizeOfAllBlocks(filled)
          /\ In!setBlocksCount(filled, In!ceilDevision(n, config.blockSize))
               = setBlocksCount(filled, ceilDevision(n, config.blockSize))
      BY SharedByInput
    <3>2. filled = [frame EXCEPT !.data = [b \in DOMAIN @ |-> IF b < n THEN f.bytes[from + b] ELSE @[b]]]
      OBVIOUS
    <3>. QED  BY <1>2, <3>1, <3>2 DEF In!FrameRead
  <2>. QED  BY <1>2, <2>1
<1>. HIDE DEF frame, config, n
<1>6. \A b \in 0 .. total - 1 :
        d[b] = IF from + b < f.size THEN f.bytes[from + b] ELSE 0
  <2>1. \A b \in 0 .. total - 1 : d[b] = IF b < n THEN f.bytes[from + b] ELSE 0
    BY <1>4
  <2>2. \A b \in 0 .. total - 1 : b < n <=> from + b < f.size
    BY <1>1, <1>3 DEF Least
  <2>. QED  BY <2>1, <2>2
<1>. HIDE DEF n
<1>x. d = [b \in 0 .. total - 1 |-> d[b]]
  BY <1>4
<1>. HIDE DEF d, frame, filled
<1>7. d \in [0 .. total - 1 -> 0 .. 255] /\ d \in Data
  <2>1. \A b \in 0 .. f.size - 1 : f.bytes[b] \in 0 .. 255
    BY DEF IsFile
  <2>2. \A b \in 0 .. total - 1 : from + b < f.size => from + b \in 0 .. f.size - 1
    BY <1>1
  <2>3. \A b \in 0 .. total - 1 : d[b] \in 0 .. 255
    <3>. TAKE b \in 0 .. total - 1
    <3>1. CASE from + b < f.size
      BY <1>6, <2>1, <2>2, <3>1
    <3>2. CASE ~(from + b < f.size)
      <4>1. d[b] = 0
        BY <1>6, <3>2
      <4>. QED  BY <4>1
    <3>. QED  BY <3>1, <3>2
  <2>6. d \in [0 .. total - 1 -> 0 .. 255]
    BY <1>x, <2>3
  <2>. QED  BY <1>1, <2>6 DEF Data
<1>8. /\ filled \in Frame /\ filled.firstBlockIdx = first /\ filled.blockSize = size
      /\ filled.blocksCount = count /\ filled.capacity = total /\ filled.data = d
  BY <1>4, <1>7 DEF Frame, Fits, filled
<1>9. totalSizeOfAllBlocks(filled) = total
  BY <1>1, <1>8 DEF totalSizeOfAllBlocks
<1>10. \A j \in 0 .. count - 1 : j * size < n <=> from + j * size < f.size
  <2>. TAKE j \in 0 .. count - 1
  <2>1. (j + 1) * size <= count * size /\ (j + 1) * size = j * size + size /\ j * size \in Nat
    BY MulMonotone
  <2>. QED  BY <1>1, <1>3, <2>1 DEF Least
<1>. DEFINE c == ceilDevision(n, size)
<1>11. c \in Nat /\ n <= c * size /\ (c - 1) * size < n
  BY <1>3, CeilBounds
<1>12. \A j \in 0 .. count - 1 : j < c <=> j * size < n
  BY <1>3, CeilParts
<1>13. c <= count
  <2>. SUFFICES ASSUME ~(c <= count) PROVE FALSE
    OBVIOUS
  <2>. HIDE DEF c
  <2>1. count <= c - 1 /\ c - 1 \in Int
    BY <1>11
  <2>2. count * size <= (c - 1) * size
    BY <2>1, MulMonotone
  <2>. QED  BY <1>1, <1>3, <1>11, <2>1, <2>2
<1>. HIDE DEF c
<1>14. c * size <= total /\ (n = total => c = count)
  <2>1. c * size <= count * size
    BY <1>11, <1>13, MulMonotone
  <2>2. ASSUME n = total, c # count PROVE FALSE
    <3>1. c <= count - 1 /\ count - 1 \in Int
      BY <1>11, <1>13, <2>2
    <3>2. c * size <= (count - 1) * size /\ (count - 1) * size = count * size - size
      BY <1>11, <3>1, MulMonotone
    <3>. QED  BY <1>1, <1>11, <2>2, <3>2
  <2>. QED  BY <1>1, <2>1, <2>2
<1>15. /\ r \in Frame /\ r.firstBlockIdx = first /\ r.blockSize = size
       /\ r.capacity = total /\ r.blocksCount = c /\ r.data = d
  <2>1. CASE n = total
    BY <1>5, <1>8, <1>9, <1>14, <2>1
  <2>2. CASE n # total
    <3>1. Fits(filled, c)
      BY <1>8, <1>14 DEF Fits
    <3>2. r = setBlocksCount(filled, c)
      BY <1>5, <1>9, <2>2 DEF c
    <3>. QED  BY <1>8, <1>11, <3>1, <3>2, SetCountType
  <2>. QED  BY <2>1, <2>2
<1>. QED  BY <1>6, <1>10, <1>12, <1>13, <1>15 DEF ReadRight

LEMMA FrameReadType ==
  ASSUME NEW f, IsFile(f), NEW first \in Nat, NEW size \in Nat \ {0}, NEW count \in Nat,
         NEW from \in Nat, from = first * size, NEW total \in Nat, total = size * count,
         NEW r, r = In!FrameRead(f, Config(first, size, count))
  PROVE  /\ r \in Frame /\ r.firstBlockIdx = first /\ r.blockSize = size
         /\ r.capacity = total /\ r.blocksCount <= count
         /\ \A j \in 0 .. count - 1 : j < r.blocksCount <=> from + j * size < f.size
         /\ \A b \in 0 .. total - 1 :
              r.data[b] = IF from + b < f.size THEN f.bytes[from + b] ELSE 0
<1>1. ReadRight(f, r, first, from, size, count, total)
  BY FrameReadRight
<1>. QED  BY <1>1, Zenon DEF ReadRight


-----------------------------------------------------------------------------
(* Types, and what the stage and the tasks say about each other, about     *)
(* streams and about frames.                                               *)

(* Nothing has been asked of the output yet, or it was gone when it was.   *)
Unmeasured == {"mode", "exists", "size", "rejected"}

Control ==
  /\ stage \in {"mode", "exists", "size", "measure", "run", "unwind",
                "done", "failed", "warned", "aborted", "rejected"}
  /\ scenario \in Scenarios
  /\ mode \in {None, "out", "in|out"} /\ (stage # "mode" => mode \in {"out", "in|out"})
  /\ originalSize \in Nat \cup {None} /\ (stage \in Unmeasured => originalSize = None)
  /\ fileSize \in Nat /\ next \in Nat
  /\ least \in Nat /\ disturbed \subseteq {"input", "output"}

Progress == {"idle", "posted", "busy", "failing", "done"}

(* No task is left that could do anything. *)
Resting == reader \in {"idle", "done"} /\ writer \in {"idle", "done"} /\ queue = {} /\ work = None

TasksOK ==
  /\ reader \in Progress /\ writer \in Progress
  /\ failed \subseteq {"reader", "calculator", "writer"}
  /\ reader = "idle" <=> writer = "idle"
  /\ stage \in Unmeasured \cup {"measure"} => reader = "idle"
  /\ stage \in {"run", "done"} => reader # "idle"
  /\ reader \in {"posted", "busy", "failing"} => stage \in {"run", "aborted"}
  /\ reader = "idle" => /\ failed = {} /\ next = 0 /\ queue = {} /\ pushed = {}
                        /\ inFrame = None /\ work = None
  /\ "writer" \in failed => writer = "done" \/ stage = "aborted"
  /\ writer = "done" /\ "writer" \notin failed => CalculationFinished
  /\ stage = "done" => writer = "done" /\ failed = {}
  /\ stage \in {"unwind", "failed", "warned"} /\ failed \subseteq {"writer"} => Resting

InputOK ==
  /\ input = NoFile \/ IsFile(input)
  /\ inStream \in [mode : {"in", "closed"}, bits : SUBSET {"bad"}, pending : {None}]
  /\ inStream.mode # "closed" => IsFile(input)
  /\ reader \in {"busy", "failing"} => inStream.mode = "in"

(* Only the file of an open stream that has been removed is not there. *)
OutputOK ==
  /\ output = NoFile \/ IsFile(output)
  /\ outStream \in [mode : {"out", "in|out", "closed"}, bits : SUBSET {"bad", "fail"},
                    pending : {None} \cup Writes]
  /\ outStream.mode = "closed" => outStream.pending = None
  /\ outStream.mode # "closed" =>
       writer \in {"busy", "failing"} /\ (stage = "failed" \/ IsFile(output))
  /\ writer \in {"busy", "failing"} => outStream.mode # "closed" \/ stage = "aborted"
  /\ "fail" \in outStream.bits => stage = "aborted"

MyFrame == {f \in Frame : f.blockSize = blockSize}

(* The frame of checksums has a byte for each block of the other. *)
Work == {w \in [in : MyFrame, block : Nat, out : Frame] :
           /\ w.block <= w.in.blocksCount
           /\ w.out.firstBlockIdx = w.in.firstBlockIdx
           /\ w.out.blocksCount = w.in.blocksCount
           /\ w.out.blockSize = 1 /\ w.out.capacity = w.in.blocksCount}

FramesOK ==
  /\ inFrame \in MyFrame \cup {None} /\ queue \subseteq pushed /\ pushed \subseteq MyFrame
  /\ work \in Work \cup {None}

LoopOK == consumed \in Seq(0 .. 255) /\ Len(consumed) <= blockSize /\ crc \in 0 .. 255

TypeInv == Control /\ TasksOK /\ InputOK /\ OutputOK /\ FramesOK /\ LoopOK

LEMMA BlockSizeType ==
  ASSUME scenario \in Scenarios
  PROVE  blockSize \in Nat \ {0} /\ blockSize <= MaxLength
BY ScenariosAssumption DEF blockSize

LEMMA InitTypes == Init => TypeInv
<1>. SUFFICES ASSUME Init PROVE TypeInv
  OBVIOUS
<1>1. /\ scenario.input = NoFile \/ IsFile(scenario.input)
      /\ scenario.original = NoFile \/ IsFile(scenario.original)
  BY ScenariosAssumption DEF Init
<1>2. Control
  BY <1>1 DEF Init, Control, IsFile, Unmeasured
<1>3. InputOK
  BY <1>1 DEF Init, InputOK, In!Closed
<1>4. OutputOK
  BY <1>1 DEF Init, OutputOK, Out!Closed
<1>5. FramesOK
  BY DEF Init, FramesOK
<1>6. LoopOK
  BY BlockSizeType DEF Init, LoopOK, Loop!Init
<1>7. TasksOK
  BY DEF Init, TasksOK, Progress, Unmeasured, Resting, CalculationFinished
<1>. QED  BY <1>2, <1>3, <1>4, <1>5, <1>6, <1>7 DEF TypeInv

(* What each action does with frames and the loop. *)
LEMMA FlowSteps ==
  ASSUME [Next]_vars
  PROVE  /\ UNCHANGED scenario
         /\ \/ UNCHANGED <<next, queue, pushed, inFrame, work, loopVars>>
            \/ Read \/ Push \/ TakeFrame \/ CalculationFails \/ Calculate \/ StoreCrc
            \/ Write \/ LeaveInQueue
<1>1. ASSUME UNCHANGED vars
      PROVE  UNCHANGED scenario /\ UNCHANGED <<next, queue, pushed, inFrame, work, loopVars>>
  BY <1>1 DEF vars, flow, inVars
<1>2. ASSUME getOpenModeForOutputFile \/ LookForOutput \/ MeasureOutput \/ MeasureInput
             \/ OpenInput \/ CloseInput
      PROVE  UNCHANGED scenario /\ UNCHANGED <<next, queue, pushed, inFrame, work, loopVars>>
  BY <1>2 DEF getOpenModeForOutputFile, LookForOutput, MeasureOutput, MeasureInput,
              OpenInput, CloseInput, flow, inVars
<1>3. ASSUME OpenOutput \/ CloseOutput \/ JoinThrows \/ Succeed \/ cleanup
      PROVE  UNCHANGED scenario /\ UNCHANGED <<next, queue, pushed, inFrame, work, loopVars>>
  BY <1>3 DEF OpenOutput, CloseOutput, JoinThrows, Succeed, cleanup, flow, inVars
<1>4. ASSUME ResizeInput \/ MeddleOutput \/ Terminated
      PROVE  UNCHANGED scenario /\ UNCHANGED <<next, queue, pushed, inFrame, work, loopVars>>
  BY <1>1, <1>4 DEF ResizeInput, MeddleOutput, Terminated, flow, inVars
<1>5. ASSUME Read \/ Push \/ TakeFrame \/ CalculationFails \/ Calculate \/ StoreCrc
             \/ Write \/ LeaveInQueue
      PROVE  UNCHANGED scenario
  BY <1>5 DEF Read, Push, TakeFrame, CalculationFails, Calculate, StoreCrc, Write, LeaveInQueue
<1>. QED  BY <1>1, <1>2, <1>3, <1>4, <1>5 DEF Next

LEMMA ControlKept ==
  ASSUME TypeInv, [Next]_vars
  PROVE  Control'
<1>. USE DEF Control, Unmeasured
<1>0. Control
  BY DEF TypeInv
<1>1. CASE UNCHANGED <<stage, scenario, numbers, next, least, disturbed>>
  BY <1>0, <1>1 DEF numbers
<1>2. CASE getOpenModeForOutputFile \/ LookForOutput
  BY <1>0, <1>2 DEF getOpenModeForOutputFile, LookForOutput, numbers, inVars, others
<1>3. CASE MeasureOutput
  BY <1>0, <1>3 DEF MeasureOutput, inVars, others, TypeInv, OutputOK, IsFile
<1>4. CASE MeasureInput
  BY <1>0, <1>4 DEF MeasureInput, inVars, others, TypeInv, InputOK, IsFile, Throw
<1>5. CASE Push
  BY <1>0, <1>5 DEF Push, numbers, others
<1>6. CASE CloseOutput
  <2>1. UNCHANGED <<scenario, numbers, next, least, disturbed>> /\ stage' \in {stage, "aborted"}
    BY <1>6 DEF CloseOutput, inVars, others
  <2>2. stage # "mode"
    BY <1>6 DEF CloseOutput, TypeInv, TasksOK
  <2>. QED  BY <1>0, <2>1, <2>2 DEF numbers
<1>7. CASE JoinThrows \/ Succeed \/ cleanup
  BY <1>0, <1>7 DEF JoinThrows, Succeed, cleanup, Throw, numbers, inVars, others
<1>8. CASE ResizeInput
  <2>1. \A size \in scenario.resizes : size \in Nat
    BY <1>0, ScenariosAssumption
  <2>. QED  BY <1>0, <1>8, <2>1 DEF ResizeInput, numbers, Least
<1>9. CASE MeddleOutput
  BY <1>0, <1>9 DEF MeddleOutput, numbers, inVars
<1>10. ASSUME OpenInput \/ Read \/ CloseInput \/ OpenOutput
       PROVE  UNCHANGED <<stage, scenario, numbers, next, least, disturbed>>
  BY <1>10 DEF OpenInput, Read, CloseInput, OpenOutput, inVars, others
<1>11. ASSUME TakeFrame \/ CalculationFails \/ Calculate \/ StoreCrc \/ Write \/ LeaveInQueue
       PROVE  UNCHANGED <<stage, scenario, numbers, next, least, disturbed>>
  BY <1>11 DEF TakeFrame, CalculationFails, Calculate, StoreCrc, Write, LeaveInQueue,
               inVars, others
<1>12. ASSUME UNCHANGED vars \/ Terminated
       PROVE  UNCHANGED <<stage, scenario, numbers, next, least, disturbed>>
  BY <1>12 DEF vars, Terminated, inVars, others
<1>. QED
  BY <1>1, <1>2, <1>3, <1>4, <1>5, <1>6, <1>7, <1>8, <1>9, <1>10, <1>11, <1>12 DEF Next

LEMMA TasksKept ==
  ASSUME TypeInv, [Next]_vars
  PROVE  TasksOK'
<1>. USE DEF TasksOK, Progress, Unmeasured, Resting, CalculationFinished
<1>0. TasksOK /\ Control
  BY DEF TypeInv
<1>1. CASE UNCHANGED <<stage, tasks, flow, next, inFrame>>
  BY <1>0, <1>1 DEF tasks, flow
<1>2. CASE getOpenModeForOutputFile \/ LookForOutput \/ MeasureOutput
  BY <1>0, <1>2 DEF getOpenModeForOutputFile, LookForOutput, MeasureOutput, tasks, flow, inVars
<1>3. CASE MeasureInput
  BY <1>0, <1>3 DEF MeasureInput, flow, inVars, Throw
<1>4. CASE OpenInput
  BY <1>0, <1>4 DEF OpenInput, Alive, flow
<1>5. CASE Read
  BY <1>0, <1>5 DEF Read, Alive, flow
<1>6. CASE Push
  BY <1>0, <1>6 DEF Push, Alive, tasks
<1>7. CASE CloseInput
  BY <1>0, <1>7 DEF CloseInput, Alive, flow
<1>8. CASE OpenOutput
  BY <1>0, <1>8 DEF OpenOutput, Alive, flow, inVars
<1>9. CASE TakeFrame
  <2>1. queue # {}
    BY <1>9 DEF TakeFrame
  <2>. QED  BY <1>0, <1>9, <2>1 DEF TakeFrame, Alive, tasks, inVars
<1>10. CASE CalculationFails
  <2>1. queue # {}
    BY <1>10 DEF CalculationFails
  <2>. QED  BY <1>0, <1>10, <2>1 DEF CalculationFails, Alive, inVars
<1>11. CASE StoreCrc
  BY <1>0, <1>11 DEF StoreCrc, Calculating, Alive, tasks, inVars
<1>12. CASE Write \/ LeaveInQueue
  BY <1>0, <1>12 DEF Write, LeaveInQueue, Calculated, Alive, tasks, inVars
<1>13. CASE CloseOutput
  BY <1>0, <1>13 DEF CloseOutput, Alive, flow, inVars
<1>14. CASE JoinThrows
  BY <1>0, <1>14 DEF JoinThrows, Throw, tasks, flow, inVars
<1>15. CASE Succeed \/ cleanup
  BY <1>0, <1>15 DEF Succeed, cleanup, tasks, flow, inVars
<1>16. ASSUME Calculate \/ ResizeInput \/ MeddleOutput \/ Terminated \/ UNCHANGED vars
       PROVE  UNCHANGED <<stage, tasks, flow, next, inFrame>>
  BY <1>16 DEF Calculate, ResizeInput, MeddleOutput, Terminated, vars, inVars
<1>. QED
  BY <1>1, <1>2, <1>3, <1>4, <1>5, <1>6, <1>7, <1>8, <1>9, <1>10, <1>11, <1>12, <1>13,
     <1>14, <1>15, <1>16 DEF Next

LEMMA InputKept ==
  ASSUME TypeInv, [Next]_vars
  PROVE  InputOK'
<1>. USE DEF InputOK
<1>0. InputOK /\ TasksOK
  BY DEF TypeInv
<1>1. CASE UNCHANGED <<inFile, reader>>
  BY <1>0, <1>1 DEF inFile
<1>2. CASE MeasureInput
  BY <1>0, <1>2 DEF MeasureInput, inVars, inFile, Throw
<1>3. CASE OpenInput
  <2>1. CASE In!Open("in")
    <3>1. input # NoFile /\ UNCHANGED input /\ inStream' = [In!Closed EXCEPT !.mode = "in"]
      BY <2>1, SharedByInput DEF In!Open
    <3>. QED  BY <1>0, <3>1 DEF In!Closed
  <2>2. CASE reader' = "done" /\ UNCHANGED inFile
    BY <1>0, <2>2 DEF inFile
  <2>. QED  BY <1>3, <2>1, <2>2 DEF OpenInput
<1>4. CASE Read
  <2>1. inStream' \in [mode : {"in", "closed"}, bits : SUBSET {"bad"}, pending : {None}]
    BY <1>0, <1>4 DEF Read, In!readDataBlocksAsFrame, In!SeekThrows, In!ReadFails,
                      In!AfterEndOfFile, inFile
  <2>2. inStream'.mode = inStream.mode /\ UNCHANGED input
    BY <1>0, <1>4 DEF Read, In!readDataBlocksAsFrame, In!SeekThrows, In!ReadFails, inFile
  <2>3. reader = "busy"
    BY <1>4 DEF Read
  <2>. QED  BY <1>0, <2>1, <2>2, <2>3
<1>5. CASE Push
  BY <1>0, <1>5 DEF Push, tasks, inFile
<1>6. CASE CloseInput
  <2>1. inStream' = In!Closed
    BY <1>6 DEF CloseInput, In!Close
  <2>2. inStream.pending = None
    BY <1>0
  <2>3. input' = input
    BY <1>6, <2>2 DEF CloseInput, In!Close, In!Flushed
  <2>. QED  BY <1>0, <1>6, <2>1, <2>3 DEF CloseInput, In!Closed
<1>7. CASE ResizeInput
  <2>1. \A size \in scenario.resizes : size \in Nat
    BY ScenariosAssumption DEF TypeInv, Control
  <2>2. IsFile(input')
    BY <1>0, <1>7, <2>1, ResizedIsFile DEF ResizeInput
  <2>. QED  BY <1>0, <1>7, <2>2 DEF ResizeInput, tasks
<1>8. ASSUME getOpenModeForOutputFile \/ LookForOutput \/ MeasureOutput \/ OpenOutput
             \/ TakeFrame \/ CalculationFails \/ Calculate \/ StoreCrc
      PROVE  UNCHANGED <<inFile, reader>>
  BY <1>8 DEF getOpenModeForOutputFile, LookForOutput, MeasureOutput, OpenOutput,
              TakeFrame, CalculationFails, Calculate, StoreCrc, inVars, tasks
<1>9. ASSUME Write \/ LeaveInQueue \/ CloseOutput \/ JoinThrows \/ Succeed \/ cleanup
             \/ MeddleOutput \/ Terminated \/ UNCHANGED vars
      PROVE  UNCHANGED <<inFile, reader>>
  BY <1>9 DEF Write, LeaveInQueue, CloseOutput, JoinThrows, Succeed, cleanup,
              MeddleOutput, Terminated, vars, inVars, tasks
<1>. QED
  BY <1>1, <1>2, <1>3, <1>4, <1>5, <1>6, <1>7, <1>8, <1>9 DEF Next

(* What a step does to the writer when it does nothing to the output. *)
OutputLeft ==
  /\ UNCHANGED outVars
  /\ writer' = writer \/ {writer, writer'} \subseteq {"idle", "posted", "done"}
  /\ writer' \in {"idle", "posted"} => writer \in {"idle", "posted"}
  /\ writer' \in {writer, "posted"} \/ "writer" \in failed'
  /\ stage' = "aborted" <=> stage = "aborted"
  /\ stage' = "failed" <=> stage = "failed"
  /\ stage' = "warned" <=> stage = "warned"

(* What each action does with the output. *)
LEMMA OutputSteps ==
  ASSUME TypeInv, [Next]_vars
  PROVE  \/ OutputLeft
         \/ MeddleOutput
         \/ OpenOutput /\ Out!Open(mode) /\ writer' = "busy"
         \/ Write /\ Out!writeDataFrame(work.out, writingPosShift) /\ UNCHANGED writer
         \/ Write /\ Out!WriteFails(work.out) /\ writer' = "failing"
         \/ CloseOutput /\ Out!Close /\ writer' = "done" /\ UNCHANGED stage
         \/ CloseOutput /\ Out!CloseFails /\ stage' = "aborted" /\ UNCHANGED writer
         \/ cleanup
<1>. USE DEF OutputLeft
<1>0. TasksOK
  BY DEF TypeInv
<1>1. CASE UNCHANGED <<stage, writer, outVars>>
  BY <1>1
<1>2. CASE getOpenModeForOutputFile \/ LookForOutput \/ MeasureOutput
  BY <1>2 DEF getOpenModeForOutputFile, LookForOutput, MeasureOutput, tasks
<1>3. CASE MeasureInput
  BY <1>0, <1>3 DEF MeasureInput, Throw, TasksOK, Unmeasured
<1>4. CASE JoinThrows \/ Succeed
  BY <1>4 DEF JoinThrows, Succeed, Throw, tasks
<1>5. CASE OpenOutput
  <2>1. CASE Out!Open(mode) /\ writer' = "busy"
    BY <1>5, <2>1
  <2>2. CASE writer' = "done" /\ UNCHANGED outVars
    BY <1>5, <2>2 DEF OpenOutput
  <2>. QED  BY <1>5, <2>1, <2>2 DEF OpenOutput
<1>6. CASE Write
  BY <1>6 DEF Write
<1>7. CASE CloseOutput
  BY <1>7 DEF CloseOutput
<1>8. ASSUME OpenInput \/ Read \/ Push \/ CloseInput \/ TakeFrame \/ CalculationFails
             \/ Calculate \/ StoreCrc
      PROVE  UNCHANGED <<stage, writer, outVars>>
  BY <1>8 DEF OpenInput, Read, Push, CloseInput, TakeFrame, CalculationFails, Calculate,
              StoreCrc, tasks
<1>9. ASSUME LeaveInQueue \/ ResizeInput \/ Terminated \/ UNCHANGED vars
      PROVE  UNCHANGED <<stage, writer, outVars>>
  BY <1>9 DEF LeaveInQueue, ResizeInput, Terminated, vars, tasks
<1>. QED  BY <1>1, <1>2, <1>3, <1>4, <1>5, <1>6, <1>7, <1>8, <1>9 DEF Next

(* The output as it will be once its buffer is written, and the checksums  *)
(* in the writer's hands.                                                  *)
Content == Out!Flushed(output, outStream.pending)
Crcs == Out!BytesAt(work.out, Out!Place(work.out, writingPosShift))

LEMMA ShiftType == ASSUME Control PROVE writingPosShift \in Nat
BY DEF Control, writingPosShift

LEMMA CrcsType ==
  ASSUME TypeInv, work # None
  PROVE  /\ Crcs \in Writes /\ Crcs.at = writingPosShift + work.in.firstBlockIdx
         /\ Crcs.size = work.in.blocksCount /\ Crcs.bytes = work.out.data
<1>. DEFINE o == work.out
<1>1. /\ o \in Frame /\ o.blockSize = 1 /\ o.firstBlockIdx = work.in.firstBlockIdx
      /\ o.blocksCount = work.in.blocksCount /\ o.capacity = o.blocksCount
  BY DEF TypeInv, FramesOK, Work
<1>2. o.firstBlockIdx \in Nat /\ o.blocksCount \in Nat /\ o.data \in Data
      /\ o.data \in [0 .. o.capacity - 1 -> 0 .. 255]
  BY <1>1 DEF Frame
<1>3. writingPosShift \in Nat
  BY ShiftType DEF TypeInv
<1>4. Crcs = [at |-> writingPosShift + o.firstBlockIdx * o.blockSize,
              size |-> o.blocksCount * o.blockSize, bytes |-> o.data]
  BY SharedByOutput DEF Crcs, Out!BytesAt, Out!Place, totalSizeOfAllBlocks
<1>. HIDE DEF o
<1>5. o.firstBlockIdx * o.blockSize = o.firstBlockIdx /\ o.blocksCount * o.blockSize = o.blocksCount
  BY <1>1, <1>2
<1>6. Crcs = [at |-> writingPosShift + o.firstBlockIdx, size |-> o.blocksCount, bytes |-> o.data]
  BY <1>4, <1>5
<1>7. writingPosShift + o.firstBlockIdx \in Nat
  BY <1>2, <1>3
<1>. HIDE DEF Crcs
<1>8. Crcs \in Writes
  BY <1>1, <1>2, <1>6, <1>7 DEF Writes
<1>. QED  BY <1>1, <1>6, <1>8 DEF o

LEMMA ContentIsFile ==
  ASSUME OutputOK
  PROVE  /\ IsFile(output) => IsFile(Content)
         /\ output = NoFile <=> Content = NoFile
<1>1. IsFile(output) => IsFile(Content)
  BY SharedByOutput, OverlayIsFile, NoFileIsNoFile DEF OutputOK, Content, Out!Flushed
<1>2. output = NoFile => Content = NoFile
  BY SharedByOutput DEF Content, Out!Flushed
<1>. QED  BY <1>1, <1>2, NoFileIsNoFile DEF OutputOK

(* Whether or not bytes pass by the buffer, they lie over what was there;  *)
(* a file that is gone stays gone.                                         *)
LEMMA WriteStep ==
  ASSUME TypeInv, Write, Out!writeDataFrame(work.out, writingPosShift)
  PROVE  /\ Crcs \in Writes
         /\ IsFile(output) => IsFile(Content) /\ IsFile(output') /\ Content' = Overlay(Content, Crcs)
         /\ output = NoFile => output' = NoFile /\ Content' = NoFile
         /\ outStream' = [outStream EXCEPT !.pending = outStream'.pending]
         /\ outStream'.pending \in {None} \cup Writes
<1>1. work # None
  BY DEF Write, Calculated
<1>2. OutputOK
  BY DEF TypeInv
<1>3. (IsFile(output) => IsFile(Content)) /\ (output = NoFile <=> Content = NoFile)
  BY <1>2, ContentIsFile
<1>4. Crcs \in Writes
  BY <1>1, CrcsType
<1>5. CASE /\ Crcs.size \in 1 .. DirectSize - 1
           /\ output' = Content
           /\ outStream' = [outStream EXCEPT !.pending = Crcs]
  <2>1. Crcs \in [at : Nat, size : 1 .. DirectSize - 1, bytes : BytesUpTo(DirectSize - 1)]
    <3>1. Crcs.bytes \in [0 .. Crcs.size - 1 -> 0 .. 255] /\ Crcs.size \in 0 .. DirectSize - 1
      BY <1>4, <1>5 DEF Writes
    <3>2. Crcs.bytes \in BytesUpTo(DirectSize - 1)
      BY <3>1 DEF BytesUpTo
    <3>. QED  BY <1>4, <1>5, <3>2 DEF Writes
  <2>2. Crcs # None
    BY <2>1, NoneAssumption
  <2>3. outStream'.pending = Crcs
    BY <1>2, <1>5 DEF OutputOK
  <2>4. Content' = IF output' = NoFile THEN NoFile ELSE Overlay(output', Crcs)
    BY <2>2, <2>3, SharedByOutput DEF Content, Out!Flushed
  <2>. QED  BY <1>3, <1>4, <1>5, <2>3, <2>4, NoFileIsNoFile
<1>6. CASE /\ Crcs.size \notin 1 .. DirectSize - 1
           /\ output' = IF Content = NoFile THEN NoFile ELSE Overlay(Content, Crcs)
           /\ outStream' = [outStream EXCEPT !.pending = None]
  <2>1. outStream'.pending = None
    BY <1>2, <1>6 DEF OutputOK
  <2>2. Content' = output'
    BY <2>1 DEF Content, Out!Flushed
  <2>3. IsFile(output) => IsFile(output')
    BY <1>3, <1>4, <1>6, OverlayIsFile, NoFileIsNoFile
  <2>. QED  BY <1>3, <1>4, <1>6, <2>1, <2>2, <2>3, NoFileIsNoFile
<1>. QED
  BY <1>5, <1>6, SharedByOutput DEF Out!writeDataFrame, Content, Crcs

LEMMA OutputKept ==
  ASSUME TypeInv, [Next]_vars
  PROVE  OutputOK'
<1>. USE DEF OutputOK
<1>0. OutputOK /\ Control /\ TasksOK
  BY DEF TypeInv
<1>1. CASE OutputLeft
  BY <1>0, <1>1 DEF OutputLeft, outVars
<1>2. CASE MeddleOutput
  <2>1. output' = NoFile \/ IsFile(output')
    BY <1>0, <1>2, ScenariosAssumption DEF MeddleOutput, Control
  <2>. QED  BY <1>0, <1>2, <2>1 DEF MeddleOutput, tasks
<1>3. CASE OpenOutput /\ Out!Open(mode) /\ writer' = "busy"
  <2>1. mode \in {"out", "in|out"}
    BY <1>0, <1>3 DEF OpenOutput, Control, TasksOK, Unmeasured
  <2>2. outStream' = [Out!Closed EXCEPT !.mode = mode]
    BY <1>3 DEF Out!Open
  <2>3. IsFile(output')
    BY <1>0, <1>3, SharedByOutput, EmptyIsFile DEF Out!Open
  <2>. QED  BY <1>3, <2>1, <2>2, <2>3 DEF Out!Closed
<1>4. CASE Write /\ Out!writeDataFrame(work.out, writingPosShift) /\ UNCHANGED writer
  <2>1. /\ (IsFile(output) => IsFile(output')) /\ (output = NoFile => output' = NoFile)
        /\ outStream'.pending \in {None} \cup Writes
        /\ outStream' = [outStream EXCEPT !.pending = outStream'.pending]
    BY <1>4, WriteStep
  <2>2. UNCHANGED stage /\ outStream.mode # "closed"
    BY <1>4 DEF Write, Out!writeDataFrame
  <2>. QED  BY <1>0, <1>4, <2>1, <2>2
<1>5. CASE Write /\ Out!WriteFails(work.out) /\ writer' = "failing"
  <2>1. (IsFile(output) => IsFile(Content)) /\ (output = NoFile <=> Content = NoFile)
    BY <1>0, ContentIsFile
  <2>2. output' \in {output, Content} /\ outStream.mode # "closed"
    BY <1>5 DEF Out!WriteFails, Content
  <2>3. /\ outStream' \in [mode : {"out", "in|out", "closed"}, bits : SUBSET {"bad"},
                           pending : {None} \cup Writes]
        /\ outStream'.mode = outStream.mode
    BY <1>0, <1>5 DEF Out!WriteFails
  <2>4. UNCHANGED stage
    BY <1>5 DEF Write
  <2>. QED  BY <1>0, <1>5, <2>1, <2>2, <2>3, <2>4
<1>6. CASE CloseOutput /\ Out!Close /\ writer' = "done" /\ UNCHANGED stage
  <2>1. outStream' = Out!Closed /\ output' = Content
    BY <1>6 DEF Out!Close, Content
  <2>2. output' = NoFile \/ IsFile(output')
    BY <1>0, <2>1, ContentIsFile
  <2>. QED  BY <1>6, <2>1, <2>2 DEF Out!Closed
<1>7. CASE CloseOutput /\ Out!CloseFails /\ stage' = "aborted" /\ UNCHANGED writer
  BY <1>0, <1>7 DEF Out!CloseFails, Out!Closed
<1>8. CASE cleanup
  <2>1. originalSize # None => originalSize \in Nat
    BY <1>0 DEF Control
  <2>2. originalSize = None \/ output # NoFile => Restored = NoFile \/ IsFile(Restored)
    BY <1>0, <2>1, ResizedIsFile DEF Restored
  <2>3. output' = NoFile \/ IsFile(output')
    BY <1>0, <1>8, <2>2 DEF cleanup
  <2>4. /\ stage = "unwind" /\ stage' \in {"failed", "warned"}
        /\ stage' = "warned" => UNCHANGED output
    BY <1>8 DEF cleanup
  <2>. QED  BY <1>0, <1>8, <2>3, <2>4 DEF cleanup, tasks
<1>. QED
  BY <1>1, <1>2, <1>3, <1>4, <1>5, <1>6, <1>7, <1>8, OutputSteps

(* How many blocks a frame may have, and where the next one begins. *)
FrameBlocksMax == dataBlocksInFrame(fileSize, blockSize, OptimalDataFrameSize)

LEMMA ConfigType ==
  ASSUME Control
  PROVE  /\ FrameBlocksMax \in Nat /\ next * FrameBlocksMax \in Nat
         /\ ConfigOf(next) = Config(next * FrameBlocksMax, blockSize, FrameBlocksMax)
<1>1. blockSize \in Nat \ {0} /\ OptimalDataFrameSize \in Nat /\ fileSize \in Nat /\ next \in Nat
  BY BlockSizeType, ScenariosAssumption DEF Control
<1>2. /\ ceilDevision(OptimalDataFrameSize, blockSize) \in Nat
      /\ ceilDevision(fileSize, blockSize) \in Nat
  BY <1>1, CeilBounds
<1>3. FrameBlocksMax \in Nat
  BY <1>2 DEF FrameBlocksMax, dataBlocksInFrame, dataBlocksInFile, Least
<1>4. ConfigOf(next) = Config(next * FrameBlocksMax, blockSize, FrameBlocksMax)
  BY DEF ConfigOf, firstBlockIdx, FrameBlocksMax
<1>. QED  BY <1>1, <1>3, <1>4

LEMMA ReadType ==
  ASSUME TypeInv, Read, inFrame' = In!FrameRead(input, ConfigOf(next))
  PROVE  inFrame' \in MyFrame
<1>1. IsFile(input)
  BY DEF TypeInv, TasksOK, InputOK, Read
<1>2. blockSize \in Nat \ {0}
  BY BlockSizeType DEF TypeInv, Control
<1>3. /\ FrameBlocksMax \in Nat /\ next * FrameBlocksMax \in Nat
      /\ ConfigOf(next) = Config(next * FrameBlocksMax, blockSize, FrameBlocksMax)
  BY ConfigType DEF TypeInv
<1>4. inFrame' = In!FrameRead(input, Config(next * FrameBlocksMax, blockSize, FrameBlocksMax))
  BY <1>3
<1>. HIDE DEF blockSize, FrameBlocksMax
<1>5. PICK first \in Nat, from \in Nat, total \in Nat :
        /\ first = next * FrameBlocksMax
        /\ from = first * blockSize /\ total = blockSize * FrameBlocksMax
  BY <1>2, <1>3
<1>6. inFrame' = In!FrameRead(input, Config(first, blockSize, FrameBlocksMax))
  BY <1>4, <1>5
<1>7. inFrame' \in Frame /\ inFrame'.blockSize = blockSize
  BY <1>1, <1>2, <1>3, <1>5, <1>6, FrameReadType
<1>. QED  BY <1>7 DEF MyFrame, blockSize

LEMMA TakeType ==
  ASSUME NEW f \in MyFrame, NEW w,
         w = [in |-> f, block |-> 0,
              out |-> NewFrame(Config(f.firstBlockIdx, Crc8ResultSize, f.blocksCount))]
  PROVE  w \in Work
<1>1. f.firstBlockIdx \in Nat /\ f.blocksCount \in Nat
  BY DEF MyFrame, Frame
<1>. DEFINE o == NewFrame(Config(f.firstBlockIdx, Crc8ResultSize, f.blocksCount))
<1>2. f.blocksCount = Crc8ResultSize * f.blocksCount /\ Crc8ResultSize \in Nat \ {0}
  BY <1>1 DEF Crc8ResultSize
<1>3. /\ o \in Frame /\ o.firstBlockIdx = f.firstBlockIdx /\ o.blockSize = Crc8ResultSize
      /\ o.blocksCount = f.blocksCount /\ o.capacity = f.blocksCount
  BY <1>1, <1>2, NewFrameType
<1>. HIDE DEF o
<1>4. w = [in |-> f, block |-> 0, out |-> o]
  BY DEF o
<1>. QED  BY <1>1, <1>3, <1>4 DEF Work, Crc8ResultSize

(* A checksum has been stored: w has become w2. *)
HasStored(w, w2, c) ==
  /\ w2 \in Work /\ w2.in = w.in /\ w2.block = w.block + 1
  /\ w2.out.data[w.block] = c
  /\ \A b \in 0 .. w.in.blocksCount - 1 : b # w.block => w2.out.data[b] = w.out.data[b]

LEMMA StoreType ==
  ASSUME NEW w \in Work, NEW c \in 0 .. 255, w.block < w.in.blocksCount,
         NEW w2, w2 = [w EXCEPT !.block = @ + 1, !.out.data[w.block] = c]
  PROVE  HasStored(w, w2, c)
<1>. DEFINE o == w.out  d == [o.data EXCEPT ![w.block] = c]  o2 == [o EXCEPT !.data = d]
<1>1. /\ w.in \in MyFrame /\ w.block \in Nat /\ o \in Frame
      /\ o.firstBlockIdx = w.in.firstBlockIdx
      /\ o.blocksCount = w.in.blocksCount /\ o.blockSize = 1 /\ o.capacity = w.in.blocksCount
      /\ w.in.blocksCount \in Nat
  BY DEF Work, MyFrame, Frame
<1>2. o.data \in [0 .. o.capacity - 1 -> 0 .. 255]
  BY <1>1 DEF Frame
<1>3. d \in [0 .. o.capacity - 1 -> 0 .. 255] /\ o.capacity \in Nat
  BY <1>1, <1>2
<1>4. d \in Data
  BY <1>3 DEF Data
<1>5. d[w.block] = c /\ \A b \in 0 .. w.in.blocksCount - 1 : b # w.block => d[b] = o.data[b]
  BY <1>1, <1>2
<1>6. o2 = [o EXCEPT !.data[w.block] = c]
  OBVIOUS
<1>. HIDE DEF d
<1>7. /\ o2 \in Frame /\ o2.data = d /\ o2.firstBlockIdx = w.in.firstBlockIdx
      /\ o2.blocksCount = w.in.blocksCount /\ o2.blockSize = 1 /\ o2.capacity = w.in.blocksCount
  BY <1>1, <1>3, <1>4 DEF Frame, Fits
<1>8. w2 = [w EXCEPT !.block = w.block + 1, !.out = o2]
  BY <1>1, <1>6 DEF Work
<1>. HIDE DEF o2
<1>9. w \in [in : MyFrame, block : Nat, out : Frame]
  BY DEF Work
<1>10. w2.in = w.in /\ w2.block = w.block + 1 /\ w2.out = o2
  BY <1>8, <1>9
<1>11. w2 \in [in : MyFrame, block : Nat, out : Frame]
  <2>1. w2 = [in |-> w.in, block |-> w.block + 1, out |-> o2]
    BY <1>8, <1>9
  <2>2. w.block + 1 \in Nat
    BY <1>1
  <2>. QED  BY <1>1, <1>7, <2>1, <2>2
<1>12. w2.block <= w2.in.blocksCount
  BY <1>1, <1>10
<1>13. w2 \in Work
  BY <1>7, <1>10, <1>11, <1>12 DEF Work
<1>. QED  BY <1>5, <1>7, <1>10, <1>13 DEF o, HasStored

LEMMA FramesKept ==
  ASSUME TypeInv, [Next]_vars
  PROVE  FramesOK'
<1>0. FramesOK /\ UNCHANGED scenario
  BY FlowSteps DEF TypeInv
<1>. USE DEF FramesOK
<1>1. MyFrame' = MyFrame /\ Work' = Work
  BY <1>0 DEF MyFrame, Work, blockSize
<1>2. CASE UNCHANGED <<next, queue, pushed, inFrame, work, loopVars>>
  BY <1>0, <1>1, <1>2
<1>3. CASE Read
  <2>1. UNCHANGED <<queue, pushed, work>>
    BY <1>3 DEF Read, flow
  <2>2. UNCHANGED inFrame \/ inFrame' = In!FrameRead(input, ConfigOf(next))
    BY <1>3 DEF Read
  <2>3. inFrame' \in MyFrame \cup {None}
    BY <1>0, <1>3, <2>2, ReadType
  <2>. QED  BY <1>0, <1>1, <2>1, <2>3
<1>4. CASE Push
  <2>1. UNCHANGED work /\ inFrame' = None /\ inFrame \in MyFrame
    BY <1>0, <1>4 DEF Push
  <2>2. CopyOf(inFrame) \in MyFrame
    BY <2>1, CopyType DEF MyFrame
  <2>3. queue' \subseteq pushed' /\ pushed' \subseteq MyFrame
    BY <1>0, <1>4, <2>1, <2>2 DEF Push
  <2>. QED  BY <1>0, <1>1, <2>1, <2>3
<1>5. CASE TakeFrame
  <2>1. PICK f \in queue :
          /\ queue' = queue \ {f}
          /\ work' = [in |-> f, block |-> 0,
                      out |-> NewFrame(Config(f.firstBlockIdx, Crc8ResultSize, f.blocksCount))]
    BY <1>5 DEF TakeFrame
  <2>2. work' \in Work
    BY <1>0, <2>1, TakeType
  <2>3. UNCHANGED <<inFrame, pushed>>
    BY <1>5 DEF TakeFrame, inVars
  <2>. QED  BY <1>0, <1>1, <2>1, <2>2, <2>3
<1>6. CASE CalculationFails
  BY <1>0, <1>1, <1>6 DEF CalculationFails, inVars
<1>7. CASE Calculate
  BY <1>0, <1>1, <1>7 DEF Calculate, flow, inVars
<1>8. CASE StoreCrc
  <2>1. /\ work \in Work /\ work.block < work.in.blocksCount
        /\ work' = [work EXCEPT !.block = @ + 1, !.out.data[work.block] = crc]
    BY <1>0, <1>8 DEF StoreCrc, Calculating
  <2>2. HasStored(work, work', crc)
    BY <2>1, StoreType DEF TypeInv, LoopOK
  <2>3. work' \in Work
    BY <2>2 DEF HasStored
  <2>4. UNCHANGED <<queue, pushed, inFrame>>
    BY <1>8 DEF StoreCrc, inVars
  <2>. QED  BY <1>0, <1>1, <2>3, <2>4
<1>9. CASE Write \/ LeaveInQueue
  BY <1>0, <1>1, <1>9 DEF Write, LeaveInQueue, inVars
<1>. QED
  BY <1>2, <1>3, <1>4, <1>5, <1>6, <1>7, <1>8, <1>9, FlowSteps

(* The next byte of the loop is the next byte of the block at hand. *)
LEMMA NextByte ==
  ASSUME TypeInv, Calculating, Len(consumed) < blockSize,
         NEW byte, byte = blockAsRange(work.in, work.block)[Len(consumed)]
  PROVE  /\ byte = work.in.data[work.block * blockSize + Len(consumed)]
         /\ work.block * blockSize + Len(consumed) \in 0 .. totalSizeOfAllBlocks(work.in) - 1
         /\ totalSizeOfAllBlocks(work.in) <= work.in.capacity
         /\ byte \in 0 .. 255
<1>. DEFINE f == work.in  i == Len(consumed)  t == totalSizeOfAllBlocks(f)
<1>1. f \in MyFrame /\ f \in Frame /\ f.blockSize = blockSize
  BY DEF TypeInv, FramesOK, Calculating, Work, MyFrame
<1>2. /\ work.block \in Nat /\ work.block < f.blocksCount /\ f.blocksCount \in Nat
      /\ f.capacity \in Nat
  BY <1>1 DEF TypeInv, FramesOK, Calculating, Work, Frame
<1>3. blockSize \in Nat \ {0} /\ i \in 0 .. blockSize - 1
  BY BlockSizeType DEF TypeInv, Control, LoopOK
<1>4. t = f.blocksCount * blockSize /\ t <= f.capacity /\ t \in Nat
  BY <1>1, <1>2, <1>3 DEF Frame, Fits, totalSizeOfAllBlocks
<1>. HIDE DEF f, i, t, blockSize
<1>5. /\ work.block * blockSize \in Nat
      /\ (work.block + 1) * blockSize = work.block * blockSize + blockSize
      /\ (work.block + 1) * blockSize <= f.blocksCount * blockSize
  BY <1>2, <1>3, MulMonotone
<1>6. work.block * blockSize + i \in 0 .. t - 1
  <2>. DEFINE x == work.block * blockSize
  <2>1. x \in Nat /\ x + blockSize <= t
    BY <1>4, <1>5
  <2>. HIDE DEF x
  <2>2. x + i \in 0 .. t - 1
    BY <1>3, <1>4, <2>1
  <2>. QED  BY <2>2 DEF x
<1>7. byte = f.data[work.block * blockSize + i]
  BY <1>1, <1>3 DEF blockAsRange, f, i
<1>8. f.data[work.block * blockSize + i] \in 0 .. 255
  <2>1. f.data \in [0 .. f.capacity - 1 -> 0 .. 255]
    BY <1>1 DEF Frame
  <2>2. work.block * blockSize + i \in 0 .. f.capacity - 1
    BY <1>2, <1>4, <1>6
  <2>. QED  BY <2>1, <2>2
<1>. QED  BY <1>4, <1>6, <1>7, <1>8 DEF f, i, t

LEMMA Appended ==
  ASSUME NEW S, NEW s \in Seq(S), NEW e \in S, NEW t, t = Append(s, e)
  PROVE  /\ t \in Seq(S) /\ Len(s) \in Nat /\ Len(t) = Len(s) + 1
         /\ \A i \in 1 .. Len(s) : t[i] = s[i]
         /\ t[Len(s) + 1] = e
OBVIOUS

(* Every entry of the table is a byte, and no index lies beside it. *)
LEMMA LookUpType ==
  ASSUME NEW c \in 0 .. 255, NEW byte \in 0 .. 255
  PROVE  Loop!LookUp(c, byte) \in 0 .. 255
<1>1. \A bit \in {1, 2, 4, 8, 16, 32, 64, 128} : Loop!Differ(c, byte, bit) \in {0, bit}
  BY DEF Loop!Differ
<1>2. Loop!Differ(c, byte, 256) = 0
  BY DEF Loop!Differ
<1>3. Loop!Xor(c, byte) \in 0 .. 255
  BY <1>1, <1>2 DEF Loop!Xor
<1>4. \A i \in 1 .. 256 : Loop!Crc8Table[i] \in 0 .. 255
  BY SMTT(100) DEF Loop!Crc8Table
<1>5. Loop!Xor(c, byte) + 1 \in 1 .. 256
  BY <1>3
<1>. QED  BY <1>4, <1>5 DEF Loop!LookUp

(* What the steps of a run do to the loop. *)
LEMMA LoopSteps ==
  ASSUME [Next]_vars
  PROVE  Calculate \/ StoreCrc \/ UNCHANGED <<loopVars, scenario>>
<1>1. ASSUME Read \/ Push \/ TakeFrame \/ CalculationFails \/ Write \/ LeaveInQueue
      PROVE  UNCHANGED <<loopVars, scenario>>
  BY <1>1 DEF Read, Push, TakeFrame, CalculationFails, Write, LeaveInQueue
<1>. QED  BY <1>1, FlowSteps

LEMMA LoopKept ==
  ASSUME TypeInv, [Next]_vars
  PROVE  LoopOK'
<1>. USE DEF LoopOK
<1>0. LoopOK
  BY DEF TypeInv
<1>1. CASE Calculate
  <2>1. PICK byte : /\ byte = blockAsRange(work.in, work.block)[Len(consumed)]
                    /\ Loop!Consume(byte) /\ Len(consumed) < blockSize /\ Calculating
    BY <1>1 DEF Calculate
  <2>2. byte \in 0 .. 255
    BY <2>1, NextByte
  <2>3. crc' \in 0 .. 255
    BY <1>0, <2>1, <2>2, LookUpType DEF Loop!Consume
  <2>4. blockSize \in Nat /\ blockSize' = blockSize
    BY <1>1, BlockSizeType DEF TypeInv, Control, Calculate, blockSize
  <2>5. consumed' = Append(consumed, byte)
    BY <2>1 DEF Loop!Consume
  <2>6. consumed' \in Seq(0 .. 255) /\ Len(consumed') = Len(consumed) + 1 /\ Len(consumed) \in Nat
    BY <1>0, <2>2, <2>5, Appended
  <2>7. Len(consumed') <= blockSize'
    BY <2>1, <2>4, <2>6
  <2>. QED  BY <2>3, <2>6, <2>7
<1>2. CASE StoreCrc
  <2>1. blockSize \in Nat /\ blockSize' = blockSize
    BY <1>2, BlockSizeType DEF TypeInv, Control, StoreCrc, blockSize
  <2>. QED  BY <1>2, <2>1 DEF StoreCrc
<1>3. CASE UNCHANGED <<loopVars, scenario>>
  BY <1>0, <1>3 DEF loopVars, blockSize
<1>. QED  BY <1>1, <1>2, <1>3, LoopSteps

LEMMA TypesKept ==
  ASSUME TypeInv, [Next]_vars
  PROVE  TypeInv'
BY ControlKept, TasksKept, InputKept, OutputKept, FramesKept, LoopKept DEF TypeInv

LEMMA TypesHold == Spec => []TypeInv
BY InitTypes, TypesKept, PTL DEF Spec

(* The state of a run has the types that its steps rely on: frames fit     *)
(* into their memory and are filled with bytes, nothing is buffered in a   *)
(* closed stream, no block is longer than it may be.                       *)
THEOREM TypeCorrect == Spec => []TypeOK
<1>1. ASSUME TypeInv PROVE TypeOK
  <2>1. \A f \in pushed \cup ({inFrame} \ {None}) :
          Fits(f, f.blocksCount) /\ f.data \in [0 .. f.capacity - 1 -> 0 .. 255]
    BY <1>1, ZenonT(30) DEF TypeInv, FramesOK, MyFrame, Frame
  <2>2. Len(consumed) <= MaxLength /\ crc \in 0 .. 255
    BY <1>1, BlockSizeType, ScenariosAssumption DEF TypeInv, LoopOK, Control
  <2>3. \A stream \in {inStream, outStream} :
          /\ stream.mode \in In!Modes \cup {"closed"}
          /\ stream.bits \subseteq {"fail", "eof", "bad"}
    BY <1>1 DEF TypeInv, InputOK, OutputOK, In!Modes
  <2>4. mode \in In!Modes \cup {None}
    BY <1>1 DEF TypeInv, Control, In!Modes
  <2>5. /\ reader \in Progress /\ writer \in Progress
        /\ failed \subseteq {"reader", "calculator", "writer"}
    BY <1>1 DEF TypeInv, TasksOK
  <2>. QED
    BY <1>1, <2>1, <2>2, <2>3, <2>4, <2>5
    DEF TypeOK, TypeInv, Control, Progress, InputOK, OutputOK, FramesOK
<1>. QED  BY <1>1, TypesHold, PTL

-----------------------------------------------------------------------------
(* The loop of crc8 is the one whose theory Crc8Proofs has. *)

Crc8Theory == INSTANCE Crc8Proofs

LEMMA SameLookUp ==
  \A c, byte : Crc8Theory!LookUp(c, byte) = Loop!LookUp(c, byte)
<1>1. Crc8Theory!Crc8Table = Loop!Crc8Table
  BY Zenon DEF Crc8Theory!Crc8Table, Loop!Crc8Table
<1>. QED  BY <1>1, Zenon DEF Crc8Theory!LookUp, Loop!LookUp, Crc8Theory!Xor, Loop!Xor,
                             Crc8Theory!Differ, Loop!Differ

LEMMA SameBits ==
  \A block : Crc8Theory!Bits(block) = Loop!Bits(block)
BY Zenon DEF Crc8Theory!Bits, Loop!Bits, Crc8Theory!Bit, Loop!Bit,
             Crc8Theory!Weight, Loop!Weight

LEMMA SameDividend ==
  \A block : Crc8Theory!Dividend(block) = Loop!Bits(block) \o Loop!Zeros(8)
BY SameBits, Zenon DEF Crc8Theory!Dividend, Crc8Theory!Zeros, Loop!Zeros

LEMMA SameRemainder ==
  \A bits : Crc8Theory!Remainder(bits) = Loop!Remainder(bits)
BY Zenon DEF Crc8Theory!Remainder, Loop!Remainder, Crc8Theory!Rests, Loop!Rests,
             Crc8Theory!Divided, Loop!Divided, Crc8Theory!Xor, Loop!Xor,
             Crc8Theory!Differ, Loop!Differ

LEMMA SameBurst ==
  \A bits : Crc8Theory!BurstLength(bits) = Loop!BurstLength(bits)
BY Zenon DEF Crc8Theory!BurstLength, Loop!BurstLength

(* The remainder of a block. *)
Checksum(block) == Loop!Remainder(Loop!Bits(block) \o Loop!Zeros(8))

LEMMA ChecksumOfMore ==
  ASSUME NEW block \in Seq(0 .. 255), NEW byte \in 0 .. 255
  PROVE  Checksum(Append(block, byte)) = Loop!LookUp(Checksum(block), byte)
<1>1. Crc8Theory!Remainder(Crc8Theory!Dividend(Append(block, byte)))
        = Crc8Theory!LookUp(Crc8Theory!Remainder(Crc8Theory!Dividend(block)), byte)
  BY Crc8Theory!RemainderOfMore DEF Crc8Theory!Bytes
<1>. QED  BY <1>1, SameLookUp, SameDividend, SameRemainder, Zenon DEF Checksum

LEMMA ChecksumOfNothing == Checksum(<<>>) = 0
BY Crc8Theory!RemainderOfNothing, SameDividend, SameRemainder, Zenon DEF Checksum

LEMMA LoopDivides ==
  ASSUME TypeInv, IsRemainder, [Next]_vars
  PROVE  IsRemainder'
<1>. USE DEF IsRemainder, Loop!IsRemainder, Checksum
<1>1. CASE Calculate
  <2>1. PICK byte : /\ byte = blockAsRange(work.in, work.block)[Len(consumed)]
                    /\ Loop!Consume(byte) /\ Calculating
    BY <1>1 DEF Calculate
  <2>2. byte \in 0 .. 255 /\ consumed \in Seq(0 .. 255)
    <3>1. Len(consumed) < blockSize
      BY <1>1 DEF Calculate
    <3>. QED  BY <2>1, <3>1, NextByte DEF TypeInv, LoopOK
  <2>3. consumed' = Append(consumed, byte) /\ crc' = Loop!LookUp(crc, byte)
    BY <2>1 DEF Loop!Consume
  <2>. QED  BY <2>2, <2>3, ChecksumOfMore
<1>2. CASE StoreCrc
  BY <1>2, ChecksumOfNothing DEF StoreCrc
<1>3. CASE UNCHANGED <<loopVars, scenario>>
  BY <1>3 DEF loopVars
<1>. QED  BY <1>1, <1>2, <1>3, LoopSteps

(* At every byte of every block of every frame, crc8 holds the remainder   *)
(* of the bytes it has passed, whatever else goes on (crchasher.cpp lines  *)
(* 7-33, Crc8Wrapper::calculateFrame).                                     *)
THEOREM ChecksumsAreRemainders == Spec => []IsRemainder
<1>1. Init => IsRemainder
  BY ChecksumOfNothing DEF Init, Loop!Init, IsRemainder, Loop!IsRemainder, Checksum
<1>2. TypeInv /\ IsRemainder /\ [Next]_vars => IsRemainder'
  BY LoopDivides
<1>. QED  BY <1>1, <1>2, TypesHold, PTL DEF Spec

(* No difference within eight neighbouring bits has checksum 0, so no      *)
(* change of a block within them leaves its checksum unchanged             *)
(* (crchasher.cpp lines 7-33).                                             *)
THEOREM BurstsAreDetected == Spec => []DetectsBursts
<1>1. ASSUME TypeInv, IsRemainder, Loop!BurstLength(Loop!Bits(consumed)) \in 1 .. 8
      PROVE  crc # 0
  <2>. DEFINE N == 8 * Len(consumed)  b == Crc8Theory!Bits(consumed)
  <2>1. consumed \in Seq(0 .. 255)
    BY <1>1 DEF TypeInv, LoopOK
  <2>2. N \in Nat /\ b \in [1 .. N -> {0, 1}]
    BY <2>1, Crc8Theory!BitsOfBlock DEF Crc8Theory!Bytes
  <2>3. Crc8Theory!BurstLength(b) = Loop!BurstLength(Loop!Bits(consumed))
    BY SameBits, SameBurst, Zenon
  <2>4. crc = Crc8Theory!Remainder(b \o Crc8Theory!Zeros(8))
    BY <1>1, SameBits, SameRemainder, Zenon
    DEF IsRemainder, Loop!IsRemainder, Crc8Theory!Zeros, Loop!Zeros
  <2>. HIDE DEF N, b
  <2>. QED  BY <1>1, <2>2, <2>3, <2>4, Crc8Theory!BurstLeavesRest
<1>2. TypeInv /\ IsRemainder => DetectsBursts
  BY <1>1 DEF DetectsBursts, Loop!DetectsBursts
<1>. QED  BY <1>2, TypesHold, ChecksumsAreRemainders, PTL


-----------------------------------------------------------------------------
(* The old content of the output. *)

(* mode and originalSize are set once, in this order. *)
LEMMA Decided ==
  ASSUME TypeInv, [Next]_vars
  PROVE  /\ scenario' = scenario /\ disturbed \subseteq disturbed' /\ failed \subseteq failed'
         /\ \/ /\ stage = "mode" /\ stage' = "exists"
               /\ mode' = IF output = NoFile THEN "out" ELSE "in|out"
               /\ UNCHANGED <<originalSize, outVars, disturbed>>
            \/ /\ stage = "exists" /\ stage' = IF output = NoFile THEN "measure" ELSE "size"
               /\ UNCHANGED <<mode, originalSize, outVars, disturbed>>
            \/ /\ stage = "size" /\ stage' = "measure" /\ output # NoFile
               /\ originalSize' = output.size
               /\ UNCHANGED <<mode, outVars, disturbed>>
            \/ /\ stage = "size" /\ stage' = "rejected" /\ output = NoFile
               /\ UNCHANGED <<mode, originalSize, outVars, disturbed>>
            \/ /\ UNCHANGED <<mode, originalSize>>
               /\ stage' = stage \/ {stage, stage'} \cap Unmeasured = {}
<1>. USE DEF Unmeasured
<1>0. TasksOK
  BY DEF TypeInv
<1>1. CASE UNCHANGED <<stage, scenario, numbers>> /\ disturbed \subseteq disturbed' /\ failed \subseteq failed'
  BY <1>1 DEF numbers
<1>2. CASE getOpenModeForOutputFile \/ LookForOutput
  BY <1>2 DEF getOpenModeForOutputFile, LookForOutput, numbers, tasks, others
<1>3. CASE MeasureOutput
  BY <1>3 DEF MeasureOutput, tasks, others
<1>4. CASE MeasureInput
  BY <1>4 DEF MeasureInput, Throw, others
<1>5. CASE CloseOutput
  <2>1. stage \notin Unmeasured /\ stage' \in {stage, "aborted"}
    BY <1>0, <1>5 DEF CloseOutput, TasksOK
  <2>2. UNCHANGED <<scenario, numbers, disturbed>> /\ failed \subseteq failed'
    BY <1>5 DEF CloseOutput, others
  <2>. QED  BY <2>1, <2>2 DEF numbers
<1>6. CASE JoinThrows \/ Succeed \/ cleanup
  BY <1>6 DEF JoinThrows, Succeed, cleanup, Throw, numbers, tasks, others
<1>7. ASSUME OpenInput \/ Read \/ Push \/ CloseInput \/ OpenOutput
      PROVE  UNCHANGED <<stage, scenario, numbers>> /\ disturbed \subseteq disturbed' /\ failed \subseteq failed'
  BY <1>7 DEF OpenInput, Read, Push, CloseInput, OpenOutput, tasks, others
<1>8. ASSUME TakeFrame \/ CalculationFails \/ Calculate \/ StoreCrc \/ Write \/ LeaveInQueue
      PROVE  UNCHANGED <<stage, scenario, numbers>> /\ disturbed \subseteq disturbed' /\ failed \subseteq failed'
  BY <1>8 DEF TakeFrame, CalculationFails, Calculate, StoreCrc, Write, LeaveInQueue, tasks, others
<1>9. ASSUME ResizeInput \/ MeddleOutput \/ Terminated \/ UNCHANGED vars
      PROVE  UNCHANGED <<stage, scenario, numbers>> /\ disturbed \subseteq disturbed' /\ failed \subseteq failed'
  BY <1>9 DEF ResizeInput, MeddleOutput, Terminated, vars, tasks, others
<1>. QED
  BY <1>1, <1>2, <1>3, <1>4, <1>5, <1>6, <1>7, <1>8, <1>9 DEF Next

KeepsOld(f) ==
  LET old == scenario.original
  IN  /\ IsFile(f) /\ old.size <= f.size
      /\ \A b \in 0 .. old.size - 1 : f.bytes[b] = old.bytes[b]

(* What is buffered lies behind the old content. *)
PendingBehind == outStream.pending # None => outStream.pending.at >= writingPosShift

Restorable ==
  "output" \notin disturbed =>
    /\ stage # "mode" => (mode = "out" <=> scenario.original = NoFile)
    /\ stage = "size" => scenario.original # NoFile
    /\ stage \notin Unmeasured =>
         originalSize = IF scenario.original = NoFile THEN None ELSE scenario.original.size
    /\ writer \in {"idle", "posted"} => output = scenario.original
    /\ scenario.original # NoFile => KeepsOld(output)
    /\ stage = "failed" /\ failed \subseteq {"writer"} => output = scenario.original

RInv == TypeInv /\ PendingBehind /\ Restorable

LEMMA OriginalType ==
  ASSUME Control
  PROVE  scenario.original = NoFile \/ IsFile(scenario.original)
BY ScenariosAssumption DEF Control

LEMMA PendingKept ==
  ASSUME TypeInv, PendingBehind, [Next]_vars
  PROVE  PendingBehind'
<1>. USE DEF PendingBehind
<1>1. CASE outStream.mode # "closed" /\ outStream'.pending = outStream.pending
  <2>1. stage \notin Unmeasured
    BY <1>1 DEF TypeInv, OutputOK, TasksOK
  <2>2. UNCHANGED originalSize
    BY <2>1, Decided DEF Unmeasured
  <2>. QED  BY <1>1, <2>2 DEF writingPosShift
<1>2. CASE outStream'.pending = None
  BY <1>2
<1>3. CASE Write /\ Out!writeDataFrame(work.out, writingPosShift)
  <2>1. work # None /\ UNCHANGED originalSize
    BY <1>3 DEF Write, Calculated, numbers
  <2>2. outStream'.pending \in {None, Crcs}
    BY <1>3 DEF Out!writeDataFrame, Crcs, TypeInv, OutputOK
  <2>3. /\ Crcs.at = writingPosShift + work.in.firstBlockIdx
        /\ work.in.firstBlockIdx \in Nat /\ writingPosShift \in Nat
    BY <2>1, CrcsType, ShiftType DEF TypeInv, FramesOK, Work, MyFrame, Frame
  <2>. QED  BY <2>1, <2>2, <2>3 DEF writingPosShift
<1>4. CASE outStream.mode = "closed" /\ UNCHANGED outStream
  BY <1>4 DEF TypeInv, OutputOK
<1>5. outStream'.pending \in {None, outStream.pending} \/ (Write /\ Out!writeDataFrame(work.out, writingPosShift))
  <2>1. CASE UNCHANGED outStream
    BY <2>1
  <2>2. CASE Out!Open(mode)
    BY <2>2 DEF Out!Open, Out!Closed
  <2>3. CASE Out!WriteFails(work.out)
    BY <2>3 DEF Out!WriteFails, TypeInv, OutputOK
  <2>4. CASE Out!Close \/ Out!CloseFails
    BY <2>4 DEF Out!Close, Out!CloseFails, Out!Closed
  <2>. QED
    BY <2>1, <2>2, <2>3, <2>4, OutputSteps DEF OutputLeft, outVars, MeddleOutput, cleanup
<1>. QED
  BY <1>1, <1>2, <1>3, <1>4, <1>5 DEF TypeInv, OutputOK

(* A write behind the old content keeps it. *)
LEMMA OverlayKeepsOld ==
  ASSUME NEW f, NEW w \in Writes, KeepsOld(f), IsFile(scenario.original),
         w.at >= scenario.original.size
  PROVE  KeepsOld(Overlay(f, w))
<1>1. IsFile(f) /\ f.size \in Nat /\ w.at \in Nat /\ w.size \in Nat
      /\ scenario.original.size \in Nat
  BY DEF KeepsOld, IsFile, Writes
<1>2. /\ IsFile(Overlay(f, w)) /\ f.size <= Overlay(f, w).size
      /\ \A b \in 0 .. f.size - 1 : b < w.at \/ b >= w.at + w.size
                                     => Overlay(f, w).bytes[b] = f.bytes[b]
  BY <1>1, OverlayIsFile
<1>3. Overlay(f, w).size \in Nat
  BY <1>2 DEF IsFile
<1>. DEFINE o == Overlay(f, w)
<1>. HIDE DEF o
<1>4. \A b \in 0 .. scenario.original.size - 1 : o.bytes[b] = scenario.original.bytes[b]
  <2>. TAKE b \in 0 .. scenario.original.size - 1
  <2>1. b \in 0 .. f.size - 1 /\ b < w.at
    BY <1>1 DEF KeepsOld
  <2>2. o.bytes[b] = f.bytes[b]
    BY <1>2, <2>1 DEF o
  <2>. QED  BY <2>2 DEF KeepsOld
<1>. QED  BY <1>1, <1>2, <1>3, <1>4 DEF KeepsOld, o

LEMMA RestoredIsOld ==
  ASSUME Restorable, Control, "output" \notin disturbed, stage \notin Unmeasured,
         originalSize = None \/ output # NoFile
  PROVE  Restored = scenario.original
<1>1. originalSize = IF scenario.original = NoFile THEN None ELSE scenario.original.size
  BY DEF Restorable
<1>2. CASE scenario.original = NoFile
  BY <1>1, <1>2 DEF Restored
<1>3. CASE scenario.original # NoFile
  <2>1. IsFile(scenario.original) /\ KeepsOld(output)
    BY <1>3, OriginalType DEF Restorable
  <2>2. originalSize \in Nat /\ originalSize # None /\ originalSize = scenario.original.size
    BY <1>1, <1>3, <2>1, NoneAssumption DEF IsFile
  <2>3. Restored = Resized(output, originalSize)
    BY <2>2 DEF Restored
  <2>4. /\ IsFile(Restored) /\ Restored.size = originalSize
        /\ \A b \in 0 .. originalSize - 1 :
             Restored.bytes[b] = IF b < output.size THEN output.bytes[b] ELSE 0
    <3>1. IsFile(output)
      BY <2>1 DEF KeepsOld
    <3>. DEFINE size == originalSize  g == Resized(output, size)
    <3>2. size \in Nat
      BY <2>2
    <3>. HIDE DEF size
    <3>3. /\ IsFile(g) /\ g.size = size
          /\ \A b \in 0 .. size - 1 :
               g.bytes[b] = IF b < output.size THEN output.bytes[b] ELSE 0
      BY <3>1, <3>2, ResizedIsFile
    <3>. QED  BY <2>3, <3>3 DEF size
  <2>5. output.size \in Nat /\ originalSize <= output.size
    BY <2>1, <2>2 DEF KeepsOld, IsFile
  <2>6. \A b \in 0 .. originalSize - 1 : Restored.bytes[b] = scenario.original.bytes[b]
    BY <2>1, <2>2, <2>4, <2>5 DEF KeepsOld
  <2>. QED  BY <2>1, <2>2, <2>4, <2>6, SameFile
<1>. QED  BY <1>2, <1>3

LEMMA RestorableKept ==
  ASSUME RInv, [Next]_vars
  PROVE  Restorable'
<1>. DEFINE old == scenario.original
<1>0. /\ TypeInv /\ Control /\ OutputOK /\ TasksOK /\ PendingBehind /\ Restorable
      /\ scenario' = scenario /\ failed \subseteq failed'
  BY Decided DEF RInv, TypeInv
<1>. SUFFICES ASSUME "output" \notin disturbed'
              PROVE  /\ stage' # "mode" => (mode' = "out" <=> old = NoFile)
                     /\ stage' = "size" => old # NoFile
                     /\ stage' \notin Unmeasured =>
                          originalSize' = IF old = NoFile THEN None ELSE old.size
                     /\ writer' \in {"idle", "posted"} => output' = old
                     /\ old # NoFile => KeepsOld(output)'
                     /\ stage' = "failed" /\ failed' \subseteq {"writer"} => output' = old
  BY <1>0 DEF Restorable
<1>1. "output" \notin disturbed
  BY <1>0, Decided
<1>2. /\ stage # "mode" => (mode = "out" <=> old = NoFile)
      /\ stage = "size" => old # NoFile
      /\ stage \notin Unmeasured =>
           originalSize = IF old = NoFile THEN None ELSE old.size
      /\ writer \in {"idle", "posted"} => output = old
      /\ old # NoFile => KeepsOld(output)
      /\ stage = "failed" /\ failed \subseteq {"writer"} => output = old
  BY <1>0, <1>1 DEF Restorable
<1>3. stage \in Unmeasured => output = old /\ originalSize = None
  BY <1>0, <1>2 DEF Control, TasksOK
<1>4. stage' # "mode" => (mode' = "out" <=> old = NoFile)
  BY <1>0, <1>2, <1>3, Decided DEF Unmeasured
<1>5. stage' = "size" => old # NoFile
  BY <1>0, <1>2, <1>3, Decided DEF Unmeasured
<1>6. stage' \notin Unmeasured => originalSize' = IF old = NoFile THEN None ELSE old.size
  BY <1>0, <1>2, <1>3, Decided DEF Unmeasured
<1>7. old # NoFile => IsFile(old)
  BY <1>0, OriginalType
<1>8. /\ writer' \in {"idle", "posted"} => output' = old
      /\ stage' = "failed" /\ failed' \subseteq {"writer"} => output' = old
      /\ old # NoFile => KeepsOld(output')
  <2>. DEFINE Goal == /\ writer' \in {"idle", "posted"} => output' = old
                      /\ stage' = "failed" /\ failed' \subseteq {"writer"} => output' = old
                      /\ old # NoFile => KeepsOld(output')
  <2>0. stage \notin Unmeasured => writingPosShift = IF old = NoFile THEN 0 ELSE old.size
    BY <1>2, <1>7, NoneAssumption DEF writingPosShift, IsFile
  <2>1. ASSUME outStream.mode # "closed", old # NoFile
        PROVE  KeepsOld(Content) /\ Content # NoFile /\ writingPosShift = old.size
    <3>1. writingPosShift = old.size
      BY <1>0, <2>0, <2>1 DEF OutputOK, TasksOK
    <3>2. outStream.pending = None \/ (outStream.pending \in Writes /\ outStream.pending.at >= old.size)
      BY <1>0, <3>1 DEF OutputOK, PendingBehind
    <3>3. KeepsOld(output) /\ IsFile(output) /\ output # NoFile
      BY <1>2, <2>1, NoFileIsNoFile DEF KeepsOld
    <3>4. KeepsOld(Content)
      BY <1>7, <2>1, <3>2, <3>3, OverlayKeepsOld, SharedByOutput DEF Content, Out!Flushed
    <3>. QED  BY <3>1, <3>4, NoFileIsNoFile DEF KeepsOld
  <2>2. ASSUME OutputLeft PROVE Goal
    BY <1>0, <1>2, <2>2 DEF OutputLeft, outVars
  <2>3. ASSUME MeddleOutput PROVE Goal
    BY <2>3 DEF MeddleOutput
  <2>4. ASSUME writer \in {"posted", "busy", "failing"} \/ work # None, UNCHANGED stage \/ stage' = "aborted"
        PROVE  ~(stage' = "failed" /\ failed' \subseteq {"writer"})
    BY <1>0, <2>4 DEF TasksOK, Resting
  <2>5. ASSUME OpenOutput, Out!Open(mode), writer' = "busy" PROVE Goal
    <3>1. writer = "posted" /\ UNCHANGED stage
      BY <2>5 DEF OpenOutput
    <3>2. stage # "mode"
      BY <1>0, <3>1 DEF TasksOK, Unmeasured
    <3>3. old # NoFile => output' = output
      BY <1>2, <2>5, <3>2 DEF Out!Open
    <3>. QED  BY <1>2, <2>4, <2>5, <3>1, <3>3
  <2>6. ASSUME Write, Out!writeDataFrame(work.out, writingPosShift), UNCHANGED writer PROVE Goal
    <3>1. UNCHANGED stage /\ writer = "busy" /\ work # None /\ outStream.mode # "closed"
      BY <2>6 DEF Write, Calculated, Out!writeDataFrame
    <3>2. output' \in {Content, Out!Stored(Content, Crcs)}
      BY <2>6 DEF Out!writeDataFrame, Content, Crcs
    <3>3. ASSUME old # NoFile PROVE KeepsOld(output')
      <4>1. /\ Crcs \in Writes /\ Crcs.at = writingPosShift + work.in.firstBlockIdx
            /\ work.in.firstBlockIdx \in Nat
        BY <1>0, <3>1, CrcsType DEF TypeInv, FramesOK, Work, MyFrame, Frame
      <4>2. /\ KeepsOld(Content) /\ Content # NoFile
            /\ writingPosShift = old.size /\ old.size \in Nat
        BY <1>7, <2>1, <3>1, <3>3 DEF IsFile
      <4>3. Crcs.at >= old.size
        BY <4>1, <4>2
      <4>4. KeepsOld(Overlay(Content, Crcs))
        BY <1>7, <3>3, <4>1, <4>2, <4>3, OverlayKeepsOld
      <4>. QED  BY <3>2, <4>2, <4>4, SharedByOutput
    <3>. QED  BY <2>4, <2>6, <3>1, <3>3
  <2>7. ASSUME Write, Out!WriteFails(work.out), writer' = "failing" PROVE Goal
    <3>1. output' \in {output, Content} /\ outStream.mode # "closed"
      BY <2>7 DEF Out!WriteFails, Content
    <3>2. UNCHANGED stage /\ work # None
      BY <2>7 DEF Write, Calculated
    <3>. QED  BY <1>2, <2>1, <2>4, <2>7, <3>1, <3>2
  <2>8. ASSUME CloseOutput, Out!Close, writer' = "done", UNCHANGED stage PROVE Goal
    <3>1. output' = Content /\ outStream.mode # "closed" /\ writer \in {"busy", "failing"}
      BY <2>8 DEF Out!Close, Content, CloseOutput
    <3>. QED  BY <2>1, <2>4, <2>8, <3>1
  <2>9. ASSUME CloseOutput, Out!CloseFails, stage' = "aborted", UNCHANGED writer PROVE Goal
    <3>1. writer \in {"busy", "failing"} /\ UNCHANGED output
      BY <2>9 DEF CloseOutput, Out!CloseFails
    <3>. QED  BY <1>2, <2>9, <3>1
  <2>10. ASSUME cleanup PROVE Goal
    <3>1. stage = "unwind" /\ stage' \in {"failed", "warned"} /\ UNCHANGED writer
      BY <2>10 DEF cleanup, tasks
    <3>2. CASE UNCHANGED output /\ stage' = "warned"
      BY <1>2, <3>1, <3>2
    <3>3. CASE (originalSize = None \/ output # NoFile) /\ output' = Restored
      <4>1. output' = old
        BY <1>0, <1>1, <3>1, <3>3, RestoredIsOld DEF Unmeasured
      <4>2. old # NoFile => KeepsOld(old)
        BY <1>7, SMTT(30) DEF KeepsOld, IsFile
      <4>. QED  BY <4>1, <4>2
    <3>. QED  BY <2>10, <3>2, <3>3 DEF cleanup
  <2>. QED
    BY <2>2, <2>3, <2>5, <2>6, <2>7, <2>8, <2>9, <2>10, OutputSteps, <1>0
<1>9. KeepsOld(output)' <=> KeepsOld(output')
  BY <1>0 DEF KeepsOld
<1>. QED  BY <1>4, <1>5, <1>6, <1>8, <1>9

LEMMA RestorableHolds == Spec => []RInv
<1>1. Init => RInv
  <2>. SUFFICES ASSUME Init PROVE RInv
    OBVIOUS
  <2>1. TypeInv /\ Control
    BY InitTypes DEF TypeInv
  <2>2. PendingBehind
    BY DEF Init, PendingBehind, Out!Closed
  <2>3. Restorable
    BY <2>1, OriginalType, SMTT(30) DEF Init, Restorable, KeepsOld, IsFile, Unmeasured
  <2>. QED  BY <2>1, <2>2, <2>3 DEF RInv
<1>2. RInv /\ [Next]_vars => RInv'
  BY TypesKept, PendingKept, RestorableKept DEF RInv
<1>. QED  BY <1>1, <1>2, PTL DEF Spec

(* After a failure of the writer, whatever it had written, buffered or     *)
(* lost, and after a missing input, the output is as it was, byte by byte  *)
(* (CrcSignatureOfFile::cleanup).  After a failure of the others that is   *)
(* not so: the writer may still come.                                      *)
THEOREM FailuresRestore == Spec => []FailureRestores
<1>1. RInv => FailureRestores
  BY DEF RInv, Restorable, FailureRestores
<1>. QED  BY <1>1, RestorableHolds, PTL

(* Whatever fails, also while the writer goes on writing, whenever main    *)
(* cleans up, and even if the program is ended: the bytes that the output  *)
(* had before the run are there (CrcSignatureOfFile, lines 53-57 and 85).  *)
THEOREM OldContentIsKept == Spec => []OldContentStays
<1>1. ASSUME RInv PROVE OldContentStays
  BY <1>1, OriginalType, NoFileIsNoFile DEF RInv, TypeInv, Restorable, OldContentStays, KeepsOld, IsFile
<1>. QED  BY <1>1, RestorableHolds, PTL

-----------------------------------------------------------------------------
(* Why a run fails. *)

(* The reasons of a run without errors of the system. *)
Reasons ==
  /\ stage = "exists" /\ mode = "out" => output = NoFile \/ "output" \in disturbed
  /\ stage = "size" /\ mode = "out" => output # NoFile /\ "output" \in disturbed
  /\ stage = "rejected" => mode # "out" /\ output = NoFile
  /\ reader # "failing" /\ writer # "failing" /\ stage # "aborted"
  /\ failed \subseteq {"writer"}
  /\ "writer" \in failed => mode # "out" /\ output = NoFile
  /\ stage \in {"unwind", "failed", "warned"} => input = NoFile \/ "writer" \in failed

Excused == scenario.faults = {} => Reasons

LEMMA ExcusedKept ==
  ASSUME TypeInv, Excused, [Next]_vars
  PROVE  Excused'
<1>0. /\ scenario' = scenario /\ InputOK /\ OutputOK /\ TasksOK
  BY Decided DEF TypeInv
<1>. SUFFICES ASSUME scenario.faults = {} PROVE Reasons'
  BY <1>0 DEF Excused
<1>. USE DEF Reasons
<1>1. Reasons
  BY DEF Excused
<1>2. CASE UNCHANGED <<stage, mode, tasks, input, output, disturbed>>
  BY <1>1, <1>2 DEF tasks
<1>3. CASE getOpenModeForOutputFile \/ LookForOutput \/ MeasureOutput
  <2>1. UNCHANGED <<tasks, input, output, disturbed>>
    BY <1>3 DEF getOpenModeForOutputFile, LookForOutput, MeasureOutput,
                inVars, inFile, outVars, others
  <2>2. CASE getOpenModeForOutputFile
    BY <1>0, <1>1, <2>1, <2>2 DEF getOpenModeForOutputFile, tasks, TasksOK, Unmeasured
  <2>3. CASE LookForOutput
    BY <1>1, <2>1, <2>3 DEF LookForOutput, tasks, numbers
  <2>4. CASE MeasureOutput
    BY <1>1, <2>1, <2>4 DEF MeasureOutput, tasks
  <2>. QED  BY <1>3, <2>2, <2>3, <2>4
<1>4. CASE MeasureInput
  BY <1>1, <1>4 DEF MeasureInput, Throw, inVars, inFile, outVars, others
<1>5. CASE OpenInput
  BY <1>1, <1>5 DEF OpenInput, In!Open, inFile, outVars, numbers, others
<1>6. CASE Read
  <2>1. ~In!SeekThrows
    BY <1>0 DEF In!SeekThrows, InputOK
  <2>. QED  BY <1>1, <1>6, <2>1 DEF Read, In!readDataBlocksAsFrame, outVars, numbers, others
<1>7. CASE CloseInput
  <2>1. input' = input
    BY <1>0, <1>7 DEF CloseInput, In!Close, In!Flushed, InputOK
  <2>. QED  BY <1>1, <1>7, <2>1 DEF CloseInput, outVars, numbers, others
<1>8. CASE OpenOutput
  <2>1. stage = "run" \/ stage \in {"unwind", "failed", "warned", "done", "aborted"}
    BY <1>0, <1>8 DEF OpenOutput, TasksOK, TypeInv, Control, Unmeasured
  <2>2. UNCHANGED <<stage, mode, reader, input, disturbed>>
    BY <1>8 DEF OpenOutput, numbers, inVars, inFile, others
  <2>3. "writer" \notin failed
    BY <1>0, <1>8, <2>1 DEF OpenOutput, TasksOK, Alive
  <2>. QED  BY <1>1, <1>8, <2>1, <2>2, <2>3 DEF OpenOutput, outVars
<1>9. CASE Write
  <2>1. writer = "busy" /\ UNCHANGED <<stage, mode, reader, writer, failed, input, disturbed>>
    BY <1>9 DEF Write, numbers, inVars, inFile, others
  <2>2. stage \notin Unmeasured /\ "writer" \notin failed
    BY <1>0, <1>9, <2>1 DEF Write, Alive, TasksOK
  <2>. QED  BY <1>1, <2>1, <2>2 DEF Unmeasured
<1>10. CASE CloseOutput
  <2>1. writer = "busy" /\ writer' = "done" /\ UNCHANGED <<stage, mode, reader, failed, input, disturbed>>
    BY <1>1, <1>10 DEF CloseOutput, numbers, inVars, inFile, others
  <2>2. stage \notin Unmeasured /\ "writer" \notin failed
    BY <1>0, <1>10, <2>1 DEF CloseOutput, Alive, TasksOK
  <2>. QED  BY <1>1, <2>1, <2>2 DEF Unmeasured
<1>11. CASE JoinThrows
  BY <1>1, <1>11 DEF JoinThrows, Throw, numbers, tasks, inVars, inFile, outVars, others
<1>12. CASE cleanup
  <2>1. output = NoFile => output' = NoFile
    BY <1>12 DEF cleanup, Restored
  <2>. QED  BY <1>1, <1>12, <2>1 DEF cleanup, numbers, tasks, inVars, inFile, others
<1>13. CASE ResizeInput
  BY <1>1, <1>13 DEF ResizeInput, numbers, tasks, outVars
<1>14. CASE MeddleOutput
  <2>1. "writer" \notin failed
    BY <1>0, <1>1, <1>14 DEF MeddleOutput, TasksOK
  <2>. QED  BY <1>1, <1>14, <2>1 DEF MeddleOutput, numbers, tasks, inVars, inFile
<1>15. ~CalculationFails
  BY DEF CalculationFails
<1>16. ASSUME Push \/ TakeFrame \/ Calculate \/ StoreCrc \/ LeaveInQueue
       PROVE  UNCHANGED <<stage, mode, tasks, input, output, disturbed>>
  BY <1>16 DEF Push, TakeFrame, Calculate, StoreCrc, LeaveInQueue,
               numbers, inVars, inFile, outVars, others
<1>17. ASSUME Succeed \/ Terminated \/ UNCHANGED vars
       PROVE  UNCHANGED <<mode, tasks, input, output, disturbed>> /\ stage' \in {stage, "done"}
  BY <1>17 DEF Succeed, Terminated, vars, numbers, inVars, inFile, outVars, others
<1>18. CASE Succeed \/ Terminated \/ UNCHANGED vars
  BY <1>1, <1>17, <1>18 DEF tasks
<1>. QED
  BY <1>2, <1>3, <1>4, <1>5, <1>6, <1>7, <1>8, <1>9, <1>10, <1>11, <1>12, <1>13, <1>14,
     <1>15, <1>16, <1>18 DEF Next

(* A run fails for a missing file or an error of the system, and for       *)
(* nothing else: a file that others make shorter or longer while it is     *)
(* read does not make the reader's stream throw (readDataBlocksAsFrame).   *)
THEOREM FailuresHaveCauses == Spec => []NoSpuriousFailure
<1>1. Init => Excused
  BY DEF Init, Excused, Reasons
<1>2. TypeInv /\ Excused /\ [Next]_vars => Excused'
  BY ExcusedKept
<1>3. Excused => NoSpuriousFailure
  BY DEF Excused, Reasons, NoSpuriousFailure
<1>. QED  BY <1>1, <1>2, <1>3, TypesHold, PTL DEF Spec

-----------------------------------------------------------------------------
(* The output is a file without a buffer. *)

Request == IF Calculated THEN Crcs ELSE [at |-> 0, size |-> 0, bytes |-> EmptyFile.bytes]

Recalled == stage \in {"failed", "warned"}

(* Another size of the file, and what is buffered laid over it, is nothing *)
(* but another size of what will be in the file, and zeroes.               *)
LEMMA ResizedContent ==
  ASSUME OutputOK, IsFile(output), NEW size \in Nat,
         NEW new, new = Out!Flushed(Resized(output, size), outStream.pending)
  PROVE  /\ IsFile(new)
         /\ \A b \in 0 .. new.size - 1 :
              new.bytes[b] = 0 \/ (b < Content.size /\ new.bytes[b] = Content.bytes[b])
<1>. DEFINE g == Resized(output, size)
<1>1. /\ IsFile(g) /\ g.size = size
      /\ \A b \in 0 .. size - 1 : g.bytes[b] = IF b < output.size THEN output.bytes[b] ELSE 0
  BY ResizedIsFile
<1>2. g # NoFile /\ output # NoFile /\ output.size \in Nat
  BY <1>1, NoFileIsNoFile DEF IsFile
<1>. HIDE DEF g
<1>3. CASE outStream.pending = None
  <2>1. new = g /\ Content = output
    BY <1>3 DEF Out!Flushed, Content, g
  <2>. QED  BY <1>1, <1>2, <2>1
<1>4. CASE outStream.pending # None
  <2>. DEFINE w == outStream.pending  c == Overlay(output, w)
  <2>1. w \in Writes /\ w.at \in Nat /\ w.size \in Nat
    BY <1>4 DEF OutputOK, Writes
  <2>2. Content = c /\ new = Overlay(g, w)
    BY <1>2, <1>4, SharedByOutput DEF Content, Out!Flushed, g
  <2>. HIDE DEF w, c
  <2>3. /\ IsFile(c) /\ output.size <= c.size
        /\ \A b \in 0 .. output.size - 1 : b < w.at \/ b >= w.at + w.size => c.bytes[b] = output.bytes[b]
        /\ \A b \in 0 .. w.size - 1 : w.at + b < c.size /\ c.bytes[w.at + b] = w.bytes[b]
    BY <2>1, OverlayIsFile DEF c
  <2>4. /\ IsFile(new)
        /\ \A b \in 0 .. g.size - 1 : b < w.at \/ b >= w.at + w.size => new.bytes[b] = g.bytes[b]
        /\ \A b \in 0 .. new.size - 1 : b >= g.size /\ (b < w.at \/ b >= w.at + w.size) => new.bytes[b] = 0
        /\ \A b \in 0 .. w.size - 1 : w.at + b < new.size /\ new.bytes[w.at + b] = w.bytes[b]
    <3>. DEFINE o == Overlay(g, w)
    <3>1. /\ IsFile(o)
          /\ \A b \in 0 .. g.size - 1 : b < w.at \/ b >= w.at + w.size => o.bytes[b] = g.bytes[b]
          /\ \A b \in 0 .. o.size - 1 : b >= g.size /\ (b < w.at \/ b >= w.at + w.size) => o.bytes[b] = 0
          /\ \A b \in 0 .. w.size - 1 : w.at + b < o.size /\ o.bytes[w.at + b] = w.bytes[b]
      BY <1>1, <2>1, OverlayIsFile
    <3>. QED  BY <2>2, <3>1
  <2>5. ASSUME NEW b \in 0 .. new.size - 1
        PROVE  new.bytes[b] = 0 \/ (b < c.size /\ new.bytes[b] = c.bytes[b])
    <3>0. b \in Nat /\ c.size \in Nat /\ new.size \in Nat
      BY <2>3, <2>4 DEF IsFile
    <3>1. CASE b >= w.at /\ b < w.at + w.size
      <4>1. b - w.at \in 0 .. w.size - 1 /\ w.at + (b - w.at) = b
        BY <2>1, <3>0, <3>1
      <4>. QED  BY <2>3, <2>4, <4>1
    <3>2. CASE (b < w.at \/ b >= w.at + w.size) /\ b < size
      <4>1. b \in 0 .. size - 1 /\ new.bytes[b] = g.bytes[b]
        BY <1>1, <2>4, <3>0, <3>2
      <4>2. CASE b < output.size
        <5>1. b \in 0 .. output.size - 1 /\ b < c.size
          BY <1>2, <2>3, <3>0, <4>2
        <5>. QED  BY <1>1, <2>3, <3>2, <4>1, <4>2, <5>1
      <4>3. CASE ~(b < output.size)
        BY <1>1, <4>1, <4>3
      <4>. QED  BY <4>2, <4>3
    <3>3. CASE (b < w.at \/ b >= w.at + w.size) /\ ~(b < size)
      BY <1>1, <2>4, <3>0, <3>3
    <3>. QED  BY <2>1, <3>0, <3>1, <3>2, <3>3
  <2>. QED  BY <2>2, <2>4, <2>5
<1>. QED  BY <1>3, <1>4

LEMMA BlockFileStep ==
  ASSUME TypeInv, [Next]_vars
  PROVE  [OutputFile!Next]_(OutputFile!vars)
<1>. DEFINE open == outStream.mode # "closed"
            intact == "fail" \notin outStream.bits
<1>0. OutputOK /\ Control /\ FramesOK /\ TasksOK
  BY DEF TypeInv
<1>. USE DEF Recalled
<1>1. ASSUME OutputLeft PROVE OutputFile!Prepare
  BY <1>1 DEF OutputLeft, outVars, OutputFile!Prepare, Out!Flushed
<1>2. ASSUME ~open, open' = open, intact' = intact, UNCHANGED Request PROVE OutputFile!Others
  BY <1>2 DEF OutputFile!Others, Request, Crcs
<1>3. ASSUME UNCHANGED <<work, originalSize>> PROVE UNCHANGED Request
  BY <1>3 DEF Request, Calculated, Crcs, Out!BytesAt, Out!Place, writingPosShift
<1>4. ASSUME MeddleOutput PROVE OutputFile!Others
  <2>1. ~open /\ UNCHANGED outStream /\ UNCHANGED <<work, originalSize>>
    BY <1>0, <1>4 DEF MeddleOutput, OutputOK, flow, numbers
  <2>. QED  BY <1>2, <1>3, <2>1
<1>5. ASSUME OpenOutput, Out!Open(mode), writer' = "busy" PROVE OutputFile!Open
  <2>1. writer = "posted" /\ UNCHANGED <<stage, work, originalSize>> /\ outStream.mode = "closed"
    BY <1>5 DEF OpenOutput, flow, numbers, Out!Open
  <2>2. UNCHANGED Request /\ outStream.pending = None
    BY <1>0, <1>3, <2>1 DEF OutputOK
  <2>3. outStream' = [Out!Closed EXCEPT !.mode = mode] /\ mode \in {"out", "in|out"}
    BY <1>0, <1>5, <2>1 DEF Out!Open, Control, TasksOK, Unmeasured
  <2>4. ~open /\ open' /\ intact' /\ intact /\ outStream'.pending = None
    BY <1>0, <1>5, <2>1, <2>3 DEF Out!Closed, OutputOK, OpenOutput, Alive
  <2>5. output' \in {output, EmptyFile}
    BY <1>5, SharedByOutput DEF Out!Open
  <2>6. Content = output /\ Content' = output'
    BY <2>2, <2>4 DEF Content, Out!Flushed
  <2>. QED
    BY <2>1, <2>2, <2>4, <2>5, <2>6, SharedByOutput DEF OutputFile!Open, Content, Request, Crcs
<1>6. ASSUME Write, Out!writeDataFrame(work.out, writingPosShift), UNCHANGED writer
      PROVE  OutputFile!Store
  <2>1. Content' = IF Content = NoFile THEN NoFile ELSE Overlay(Content, Crcs)
    BY <1>0, <1>6, WriteStep, ContentIsFile, NoFileIsNoFile DEF OutputOK
  <2>2. open /\ open' = open /\ intact' = intact /\ UNCHANGED stage
    BY <1>0, <1>6, WriteStep DEF Out!writeDataFrame, OutputOK, Write
  <2>3. Request = Crcs
    BY <1>6 DEF Write, Request
  <2>. QED
    BY <2>1, <2>2, <2>3, SharedByOutput DEF OutputFile!Store, Content, Request, Crcs
<1>7. ASSUME Write, Out!WriteFails(work.out) PROVE OutputFile!Prepare
  <2>1. open' = open /\ intact' = intact /\ UNCHANGED stage
    <3>1. outStream.bits = {} /\ outStream'.bits = {"bad"} /\ outStream'.mode = outStream.mode
      BY <1>0, <1>7 DEF Out!WriteFails, OutputOK
    <3>. QED  BY <1>7, <3>1 DEF Write
  <2>2. Content' = Content
    BY <1>0, <1>7 DEF Out!WriteFails, OutputOK, Content, Out!Flushed
  <2>. QED  BY <2>1, <2>2 DEF OutputFile!Prepare, Content
<1>8. ASSUME CloseOutput PROVE UNCHANGED Request
  BY <1>3, <1>8 DEF CloseOutput, flow, numbers
<1>9. ASSUME CloseOutput, Out!Close, UNCHANGED stage PROVE OutputFile!Close
  <2>1. open /\ ~open' /\ intact' /\ intact /\ outStream'.pending = None
    BY <1>0, <1>9 DEF Out!Close, Out!Closed, OutputOK, CloseOutput, Alive
  <2>2. Content' = Content
    BY <1>9, <2>1 DEF Out!Close, Content, Out!Flushed
  <2>. QED  BY <1>8, <1>9, <2>1, <2>2 DEF OutputFile!Close, Content, Request, Crcs
<1>10. ASSUME CloseOutput, Out!CloseFails PROVE OutputFile!Lose
  <2>1. open /\ ~open' /\ intact /\ ~intact'
    BY <1>0, <1>10 DEF Out!CloseFails, Out!Closed, OutputOK, CloseOutput, Alive
  <2>. QED  BY <1>8, <1>10, <2>1 DEF OutputFile!Lose, Request, Crcs
<1>11. ASSUME cleanup PROVE OutputFile!Others \/ OutputFile!TakeBack
  <2>1. /\ UNCHANGED outStream /\ UNCHANGED Request /\ ~Recalled /\ Recalled'
        /\ open' = open /\ intact' = intact
    BY <1>3, <1>11 DEF cleanup, flow, numbers
  <2>2. ASSUME ~open PROVE OutputFile!Others
    BY <1>2, <2>1, <2>2
  <2>3. ASSUME open PROVE OutputFile!TakeBack
    <3>1. IsFile(output) /\ IsFile(Content) /\ Content # NoFile
      BY <1>0, <1>11, <2>3, ContentIsFile, NoFileIsNoFile DEF OutputOK, cleanup
    <3>2. \/ Content' \in {Content, NoFile}
          \/ /\ IsFile(Content')
             /\ \A b \in 0 .. Content'.size - 1 :
                  Content'.bytes[b] = 0 \/ (b < Content.size /\ Content'.bytes[b] = Content.bytes[b])
      <4>1. CASE UNCHANGED output
        BY <2>1, <4>1 DEF Content
      <4>2. CASE output' = NoFile
        BY <2>1, <4>2, SharedByOutput DEF Content, Out!Flushed
      <4>3. CASE originalSize # None /\ output' = Resized(output, originalSize)
        <5>1. originalSize \in Nat
          BY <1>0, <4>3 DEF Control
        <5>2. Content' = Out!Flushed(Resized(output, originalSize), outStream.pending)
          BY <2>1, <4>3 DEF Content
        <5>. HIDE DEF Content
        <5>3. /\ IsFile(Content')
              /\ \A b \in 0 .. Content'.size - 1 :
                   Content'.bytes[b] = 0 \/ (b < Content.size /\ Content'.bytes[b] = Content.bytes[b])
          BY <1>0, <3>1, <5>1, <5>2, ResizedContent
        <5>. QED  BY <5>3
      <4>. QED  BY <1>11, <4>1, <4>2, <4>3 DEF cleanup, Restored
    <3>. QED
      BY <2>1, <2>3, <3>1, <3>2, SharedByOutput
      DEF OutputFile!TakeBack, Content, Request, Crcs
  <2>. QED  BY <2>2, <2>3
<1>. QED
  BY <1>1, <1>4, <1>5, <1>6, <1>7, <1>9, <1>10, <1>11, OutputSteps DEF OutputFile!Next

(* In spite of the buffer, and of everything that can fail, the output     *)
(* behaves like a file in which each frame of checksums changes exactly    *)
(* its own bytes at once, also behind main's back when it has cleaned up   *)
(* (DataFile::writeDataFrame).                                             *)
THEOREM BufferIsTransparent == Spec => OutputIsBlockFile
<1>1. Init => OutputFile!Init
  BY DEF Init, OutputFile!Init, Out!Closed
<1>. QED
  BY <1>1, BlockFileStep, TypesHold, PTL DEF Spec, OutputIsBlockFile, OutputFile!Spec

-----------------------------------------------------------------------------
(* What is known of the input. *)

(* As long as it had them at every moment, the input has its first bytes   *)
(* still.                                                                  *)
SameSource ==
  /\ IsFile(input) /\ IsFile(scenario.input)
  /\ least <= input.size /\ least <= scenario.input.size
  /\ \A i \in 0 .. least - 1 : input.bytes[i] = scenario.input.bytes[i]
  /\ "input" \notin disturbed => input = scenario.input /\ least = input.size

(* When there are tasks its size has been asked for. *)
SourceOK ==
  /\ SameSource \/ (input = NoFile /\ scenario.input = NoFile /\ least = 0)
  /\ reader # "idle" => /\ SameSource /\ least <= fileSize
                        /\ "input" \notin disturbed => least = fileSize

LEMMA ResizeKeepsSource ==
  ASSUME TypeInv, SameSource, ResizeInput
  PROVE  SameSource' /\ least' <= least
<1>1. PICK size \in scenario.resizes :
        input' = Resized(input, size) /\ least' = Least(least, size)
  BY DEF ResizeInput
<1>2. /\ size \in Nat /\ least \in Nat /\ scenario' = scenario /\ "input" \in disturbed'
      /\ IsFile(input) /\ input.size \in Nat
  BY <1>1, ScenariosAssumption DEF TypeInv, Control, ResizeInput, SameSource, IsFile
<1>3. least' \in Nat /\ least' <= least /\ least' <= size
  BY <1>1, <1>2 DEF Least
<1>. DEFINE g == Resized(input, size)
<1>4. /\ IsFile(g) /\ g.size = size
      /\ \A i \in 0 .. size - 1 : g.bytes[i] = IF i < input.size THEN input.bytes[i] ELSE 0
  BY <1>2, ResizedIsFile
<1>. HIDE DEF g
<1>5. ASSUME NEW i \in 0 .. least' - 1 PROVE g.bytes[i] = scenario.input.bytes[i]
  <2>0. least <= input.size
    BY DEF SameSource
  <2>1. i \in 0 .. size - 1 /\ i < input.size /\ i \in 0 .. least - 1
    <3>. DEFINE l == least  m == least'  n == input.size
    <3>1. l \in Nat /\ m \in Nat /\ n \in Nat /\ m <= l /\ m <= size /\ l <= n /\ i \in 0 .. m - 1
      BY <1>2, <1>3, <2>0
    <3>. HIDE DEF l, m, n
    <3>2. i \in 0 .. size - 1 /\ i < n /\ i \in 0 .. l - 1
      BY <1>2, <3>1
    <3>. QED  BY <3>2 DEF l, n
  <2>2. g.bytes[i] = input.bytes[i]
    BY <1>4, <2>1
  <2>. QED  BY <2>1, <2>2 DEF SameSource
<1>6. input' = g
  BY <1>1 DEF g
<1>7. IsFile(scenario.input) /\ scenario.input.size \in Nat /\ least <= scenario.input.size
  BY DEF SameSource, IsFile
<1>8. least' <= scenario.input.size
  BY <1>2, <1>3, <1>7
<1>. QED
  BY <1>2, <1>3, <1>4, <1>5, <1>6, <1>7, <1>8 DEF SameSource

(* What each action does with the input and its sizes. *)
LEMMA SourceSteps ==
  ASSUME TypeInv, [Next]_vars
  PROVE  \/ ResizeInput /\ UNCHANGED <<fileSize, reader>>
         \/ /\ UNCHANGED <<input, least>> /\ ("input" \in disturbed' <=> "input" \in disturbed)
            /\ \/ MeasureInput
               \/ UNCHANGED fileSize /\ (reader' = "idle" <=> reader = "idle")
<1>. USE DEF numbers, tasks, inVars, inFile, others
<1>1. CASE UNCHANGED vars \/ Terminated
  BY <1>1 DEF vars, Terminated
<1>2. CASE getOpenModeForOutputFile \/ LookForOutput \/ MeasureOutput \/ MeasureInput
  BY <1>2 DEF getOpenModeForOutputFile, LookForOutput, MeasureOutput, MeasureInput
<1>3. CASE OpenInput \/ Read
  BY <1>3 DEF OpenInput, Read, In!Open, In!readDataBlocksAsFrame, In!SeekThrows, In!ReadFails
<1>4. CASE CloseInput
  <2>1. input' = input
    BY <1>4 DEF CloseInput, In!Close, In!Flushed, TypeInv, InputOK
  <2>. QED  BY <1>4, <2>1 DEF CloseInput
<1>5. CASE Push \/ OpenOutput \/ TakeFrame \/ CalculationFails \/ Calculate \/ StoreCrc
  BY <1>5 DEF Push, OpenOutput, TakeFrame, CalculationFails, Calculate, StoreCrc
<1>6. CASE Write \/ LeaveInQueue \/ CloseOutput \/ JoinThrows \/ Succeed \/ cleanup
  BY <1>6 DEF Write, LeaveInQueue, CloseOutput, JoinThrows, Succeed, cleanup
<1>7. CASE ResizeInput
  BY <1>7 DEF ResizeInput
<1>8. CASE MeddleOutput
  BY <1>8 DEF MeddleOutput
<1>. QED  BY <1>1, <1>2, <1>3, <1>4, <1>5, <1>6, <1>7, <1>8 DEF Next

LEMMA SourceKept ==
  ASSUME TypeInv, SourceOK, [Next]_vars
  PROVE  /\ SourceOK' /\ least' <= least /\ least' \in Nat
         /\ "input" \notin disturbed' => least' = least
<1>0. /\ InputOK /\ Control /\ Control' /\ scenario' = scenario /\ disturbed \subseteq disturbed'
      /\ least \in Nat /\ least' \in Nat
  BY ControlKept, Decided DEF TypeInv, Control
<1>1. CASE ResizeInput /\ UNCHANGED <<fileSize, reader>>
  <2>1. SameSource
    BY <1>1 DEF SourceOK, ResizeInput
  <2>2. SameSource' /\ least' <= least
    BY <1>1, <2>1, ResizeKeepsSource
  <2>3. "input" \in disturbed'
    BY <1>1 DEF ResizeInput
  <2>. QED  BY <1>0, <1>1, <2>2, <2>3 DEF SourceOK, Control
<1>2. CASE UNCHANGED <<input, least>> /\ ("input" \in disturbed' <=> "input" \in disturbed)
           /\ MeasureInput
  <2>1. SameSource => SameSource'
    BY <1>0, <1>2 DEF SameSource
  <2>2. \/ input # NoFile /\ fileSize' = input.size
        \/ reader' = reader /\ stage = "measure"
    BY <1>2 DEF MeasureInput
  <2>3. reader' # "idle" => SameSource /\ fileSize' = input.size
    BY <2>2 DEF SourceOK, TypeInv, TasksOK
  <2>. QED  BY <1>0, <1>2, <2>1, <2>3 DEF SourceOK, SameSource
<1>3. CASE UNCHANGED <<input, least>> /\ ("input" \in disturbed' <=> "input" \in disturbed)
           /\ UNCHANGED fileSize /\ (reader' = "idle" <=> reader = "idle")
  <2>1. SameSource => SameSource'
    BY <1>0, <1>3 DEF SameSource
  <2>. QED  BY <1>0, <1>3, <2>1 DEF SourceOK
<1>. QED  BY <1>1, <1>2, <1>3, SourceSteps

-----------------------------------------------------------------------------
(* What frames carry. *)

(* The blocks that the input has had all the time; the last one may be     *)
(* incomplete if nobody has touched the input.                             *)
Settled == {b \in Nat : \/ (b + 1) * blockSize <= least
                        \/ "input" \notin disturbed /\ b * blockSize < least}

Source == [i \in Nat |-> IF i < scenario.input.size THEN scenario.input.bytes[i] ELSE 0]

(* A frame has those of its blocks that are settled, with their bytes, and *)
(* no others if nobody has touched the input.                              *)
GoodFrames ==
  {f \in MyFrame :
     /\ f.capacity <= MaxCapacity /\ f.blocksCount <= FrameBlocksMax
     /\ \E k \in Nat : f.firstBlockIdx = k * FrameBlocksMax
     /\ \A j \in 0 .. FrameBlocksMax - 1 : f.firstBlockIdx + j \in Settled =>
          /\ j < f.blocksCount
          /\ \A i \in 0 .. blockSize - 1 :
               f.data[j * blockSize + i] = Source[(f.firstBlockIdx + j) * blockSize + i]
     /\ "input" \notin disturbed =>
          \A j \in 0 .. f.blocksCount - 1 : f.firstBlockIdx + j \in Settled}

LEMMA SettledKept ==
  ASSUME TypeInv, SourceOK, [Next]_vars
  PROVE  Settled' \subseteq Settled /\ ("input" \notin disturbed' => Settled' = Settled)
<1>1. /\ least' <= least /\ least' \in Nat /\ least \in Nat
      /\ "input" \notin disturbed' => least' = least
  BY SourceKept DEF TypeInv, Control
<1>2. disturbed \subseteq disturbed' /\ blockSize' = blockSize /\ blockSize \in Nat \ {0}
  BY Decided, BlockSizeType DEF TypeInv, Control, blockSize
<1>3. \A b \in Nat : b * blockSize \in Nat /\ (b + 1) * blockSize \in Nat
  BY <1>2
<1>. QED  BY <1>1, <1>2, <1>3 DEF Settled

LEMMA GoodFramesKept ==
  ASSUME TypeInv, SourceOK, [Next]_vars, FrameBlocksMax' = FrameBlocksMax
  PROVE  GoodFrames \subseteq GoodFrames'
<1>1. /\ blockSize' = blockSize /\ scenario' = scenario /\ disturbed \subseteq disturbed'
      /\ MyFrame' = MyFrame
  BY Decided DEF blockSize, MyFrame
<1>2. Settled' \subseteq Settled /\ ("input" \notin disturbed' => Settled' = Settled)
  BY SettledKept
<1>3. Source' = Source
  BY <1>1 DEF Source
<1>. SUFFICES ASSUME NEW f \in GoodFrames PROVE f \in GoodFrames'
  OBVIOUS
<1>4. /\ f \in MyFrame' /\ f.capacity <= MaxCapacity /\ f.blocksCount <= FrameBlocksMax'
      /\ \E k \in Nat : f.firstBlockIdx = k * FrameBlocksMax'
  BY <1>1 DEF GoodFrames
<1>5. ASSUME NEW j \in 0 .. FrameBlocksMax' - 1, f.firstBlockIdx + j \in Settled'
      PROVE  /\ j < f.blocksCount
             /\ \A i \in 0 .. blockSize' - 1 :
                  f.data[j * blockSize' + i]
                    = Source'[(f.firstBlockIdx + j) * blockSize' + i]
  <2>1. j \in 0 .. FrameBlocksMax - 1 /\ f.firstBlockIdx + j \in Settled
    BY <1>2, <1>5
  <2>2. /\ j < f.blocksCount
        /\ \A i \in 0 .. blockSize - 1 :
             f.data[j * blockSize + i] = Source[(f.firstBlockIdx + j) * blockSize + i]
    BY <2>1 DEF GoodFrames
  <2>. QED  BY <1>1, <1>3, <2>2
<1>6. ASSUME "input" \notin disturbed', NEW j \in 0 .. f.blocksCount - 1
      PROVE  f.firstBlockIdx + j \in Settled'
  BY <1>1, <1>2, <1>6 DEF GoodFrames
<1>. QED
  <2>1. \A j \in 0 .. FrameBlocksMax' - 1 : f.firstBlockIdx + j \in Settled' =>
          /\ j < f.blocksCount
          /\ \A i \in 0 .. blockSize' - 1 :
               f.data[j * blockSize' + i]
                 = Source'[(f.firstBlockIdx + j) * blockSize' + i]
    BY <1>5
  <2>2. "input" \notin disturbed' =>
          \A j \in 0 .. f.blocksCount - 1 : f.firstBlockIdx + j \in Settled'
    BY <1>6
  <2>. QED  BY <1>4, <2>1, <2>2 DEF GoodFrames

LEMMA BlockPlace ==
  ASSUME NEW bs \in Nat \ {0}, NEW n \in Nat, NEW j \in 0 .. n - 1, NEW i \in 0 .. bs - 1,
         NEW total \in Nat, n * bs <= total
  PROVE  j * bs + i \in 0 .. total - 1 /\ j * bs \in Nat
<1>. DEFINE x == j * bs
<1>1. (j + 1) * bs <= n * bs /\ (j + 1) * bs = x + bs /\ x \in Nat /\ n * bs \in Nat
  BY MulMonotone
<1>. HIDE DEF x
<1>2. x + i \in 0 .. total - 1
  BY <1>1
<1>. QED  BY <1>1, <1>2 DEF x

LEMMA Distribute ==
  ASSUME NEW first \in Nat, NEW j \in Nat, NEW bs \in Nat
  PROVE  /\ (first + j) * bs = first * bs + j * bs
         /\ (first + j + 1) * bs = first * bs + j * bs + bs
         /\ first * bs \in Nat /\ j * bs \in Nat
OBVIOUS

LEMMA CapacityBound ==
  ASSUME Control
  PROVE  blockSize * FrameBlocksMax <= MaxCapacity
<1>. DEFINE c == ceilDevision(OptimalDataFrameSize, blockSize)
<1>1. /\ blockSize \in Nat \ {0} /\ blockSize <= MaxLength /\ MaxLength \in Nat
      /\ OptimalDataFrameSize \in Nat /\ fileSize \in Nat
  BY BlockSizeType, ScenariosAssumption DEF Control
<1>2. c \in Nat /\ (c - 1) * blockSize < OptimalDataFrameSize
  BY <1>1, CeilBounds
<1>3. ceilDevision(fileSize, blockSize) \in Nat
  BY <1>1, CeilBounds
<1>4. FrameBlocksMax \in Nat /\ FrameBlocksMax <= c
  BY <1>2, <1>3 DEF FrameBlocksMax, dataBlocksInFrame, dataBlocksInFile, Least
<1>. HIDE DEF c, blockSize, FrameBlocksMax
<1>5. FrameBlocksMax * blockSize <= c * blockSize
  BY <1>1, <1>2, <1>4, MulMonotone
<1>6. (c - 1) * blockSize = c * blockSize - blockSize /\ c * blockSize \in Nat
      /\ FrameBlocksMax * blockSize = blockSize * FrameBlocksMax
  BY <1>1, <1>2, <1>4
<1>. DEFINE x == FrameBlocksMax * blockSize  y == c * blockSize
<1>7. x \in Nat /\ y \in Nat /\ x <= y /\ y - blockSize < OptimalDataFrameSize
  BY <1>1, <1>2, <1>4, <1>5, <1>6
<1>. HIDE DEF x, y
<1>8. x <= OptimalDataFrameSize + MaxLength
  BY <1>1, <1>7
<1>. QED  BY <1>6, <1>8 DEF x, MaxCapacity


(* The blocks that lie in the file, wholly or begun, are read. *)
LEMMA ReadGood ==
  ASSUME TypeInv, SourceOK, Read, inFrame' = In!FrameRead(input, ConfigOf(next))
  PROVE  inFrame' \in GoodFrames /\ inFrame'.firstBlockIdx = next * FrameBlocksMax
<1>. DEFINE bs == blockSize  n == FrameBlocksMax  r == inFrame'
<1>1. /\ bs \in Nat \ {0} /\ n \in Nat /\ next * n \in Nat
      /\ ConfigOf(next) = Config(next * n, bs, n)
  BY BlockSizeType, ConfigType DEF TypeInv, Control
<1>2. SameSource /\ least \in Nat /\ next \in Nat
  BY DEF SourceOK, Read, TypeInv, Control
<1>3. /\ IsFile(input) /\ least <= input.size /\ least <= scenario.input.size
      /\ \A i \in 0 .. least - 1 : input.bytes[i] = scenario.input.bytes[i]
      /\ "input" \notin disturbed => input = scenario.input /\ least = input.size
      /\ input.size \in Nat /\ scenario.input.size \in Nat
  BY <1>2 DEF SameSource, IsFile
<1>4. bs * n <= MaxCapacity
  BY CapacityBound DEF TypeInv
<1>5. r \in MyFrame
  BY ReadType
<1>. HIDE DEF bs, n, r
<1>6. PICK first \in Nat, from \in Nat, total \in Nat :
        first = next * n /\ from = first * bs /\ total = bs * n /\ n * bs <= total
  BY <1>1
<1>7. r = In!FrameRead(input, Config(first, bs, n))
  BY <1>1, <1>6 DEF r
<1>8. /\ r.firstBlockIdx = first /\ r.capacity = total /\ r.blocksCount <= n
      /\ \A j \in 0 .. n - 1 : j < r.blocksCount <=> from + j * bs < input.size
      /\ \A b \in 0 .. total - 1 :
           r.data[b] = IF from + b < input.size THEN input.bytes[from + b] ELSE 0
  <2>1. IsFile(input) /\ bs \in Nat \ {0} /\ n \in Nat
    BY <1>1, <1>3
  <2>2. from = first * bs /\ total = bs * n
    BY <1>6
  <2>3. r.firstBlockIdx = first /\ r.capacity = total /\ r.blocksCount <= n
    BY <1>7, <2>1, <2>2, FrameReadType
  <2>4. \A j \in 0 .. n - 1 : j < r.blocksCount <=> from + j * bs < input.size
    BY <1>7, <2>1, <2>2, FrameReadType
  <2>5. \A b \in 0 .. total - 1 :
          r.data[b] = IF from + b < input.size THEN input.bytes[from + b] ELSE 0
    BY <1>7, <2>1, <2>2, FrameReadType
  <2>. QED  BY <2>3, <2>4, <2>5
<1>9. r.blocksCount \in Nat
  BY <1>5 DEF MyFrame, Frame
<1>10. \A b \in Nat : b \in Settled <=> \/ (b + 1) * bs <= least
                                        \/ "input" \notin disturbed /\ b * bs < least
  BY DEF Settled, bs
<1>11. ASSUME NEW j \in 0 .. n - 1, first + j \in Settled
       PROVE  /\ j < r.blocksCount
              /\ \A i \in 0 .. bs - 1 : r.data[j * bs + i] = Source[(first + j) * bs + i]
  <2>. DEFINE x == j * bs
  <2>1. /\ (first + j) * bs = from + x /\ (first + j + 1) * bs = from + x + bs
        /\ x \in Nat
    BY <1>1, <1>6, Distribute
  <2>2. from + x + bs <= least \/ ("input" \notin disturbed /\ from + x < least)
    BY <1>1, <1>6, <1>10, <1>11, <2>1
  <2>3. from + x < input.size
    BY <1>1, <1>2, <1>3, <1>6, <2>1, <2>2
  <2>4. j < r.blocksCount
    BY <1>8, <2>3
  <2>5. ASSUME NEW i \in 0 .. bs - 1 PROVE r.data[x + i] = Source[(first + j) * bs + i]
    <3>1. x + i \in 0 .. total - 1
      BY <1>1, <1>6, BlockPlace
    <3>2. r.data[x + i] = IF from + (x + i) < input.size THEN input.bytes[from + (x + i)] ELSE 0
      BY <1>8, <3>1
    <3>. HIDE DEF x
    <3>3. (first + j) * bs + i = from + (x + i) /\ from + (x + i) \in Nat
      BY <1>1, <1>6, <2>1
    <3>4. Source[(first + j) * bs + i] =
            IF from + (x + i) < scenario.input.size THEN scenario.input.bytes[from + (x + i)] ELSE 0
      BY <3>3 DEF Source
    <3>5. CASE from + x + bs <= least
      <4>1. from + (x + i) \in 0 .. least - 1
        BY <1>1, <1>2, <1>6, <2>1, <3>5
      <4>2. from + (x + i) < input.size /\ from + (x + i) < scenario.input.size
        BY <1>2, <1>3, <4>1
      <4>. QED  BY <1>3, <3>2, <3>4, <4>1, <4>2
    <3>6. CASE "input" \notin disturbed
      BY <1>3, <3>2, <3>4, <3>6
    <3>. QED  BY <2>2, <3>5, <3>6
  <2>. QED  BY <2>4, <2>5
<1>12. ASSUME "input" \notin disturbed, NEW j \in 0 .. r.blocksCount - 1
       PROVE  first + j \in Settled
  <2>1. j \in 0 .. n - 1 /\ first + j \in Nat
    BY <1>1, <1>6, <1>8, <1>9
  <2>2. from + j * bs < input.size
    BY <1>8, <1>9, <2>1
  <2>3. (first + j) * bs = from + j * bs
    BY <1>1, <1>6, <2>1, Distribute
  <2>. QED  BY <1>3, <1>10, <1>12, <2>1, <2>2, <2>3
<1>13. r \in GoodFrames
  <2>1. r.capacity <= MaxCapacity /\ r.blocksCount <= n /\ \E k \in Nat : r.firstBlockIdx = k * n
    BY <1>2, <1>4, <1>6, <1>8
  <2>2. \A j \in 0 .. n - 1 : r.firstBlockIdx + j \in Settled =>
          /\ j < r.blocksCount
          /\ \A i \in 0 .. bs - 1 : r.data[j * bs + i] = Source[(r.firstBlockIdx + j) * bs + i]
    BY <1>8, <1>11
  <2>3. "input" \notin disturbed => \A j \in 0 .. r.blocksCount - 1 : r.firstBlockIdx + j \in Settled
    BY <1>8, <1>12
  <2>. QED  BY <1>5, <2>1, <2>2, <2>3 DEF GoodFrames, bs, n
<1>. QED  BY <1>6, <1>8, <1>13 DEF r, n

(* A copy has the bytes of the blocks of its original. *)
LEMMA CopyGood ==
  ASSUME Control, NEW f \in GoodFrames
  PROVE  CopyOf(f) \in GoodFrames /\ CopyOf(f).firstBlockIdx = f.firstBlockIdx
<1>. DEFINE c == CopyOf(f)
<1>1. f \in Frame /\ f.blockSize = blockSize /\ blockSize \in Nat \ {0}
      /\ f.blocksCount \in Nat
  BY BlockSizeType DEF GoodFrames, MyFrame, Frame, Control
<1>2. /\ c \in Frame /\ c.firstBlockIdx = f.firstBlockIdx /\ c.blockSize = f.blockSize
      /\ c.blocksCount = f.blocksCount
      /\ \A b \in 0 .. totalSizeOfAllBlocks(f) - 1 : c.data[b] = f.data[b]
  BY <1>1, CopyType
<1>3. c.capacity = f.capacity
  BY <1>1 DEF CopyOf, Frame
<1>. HIDE DEF c
<1>4. \A j \in 0 .. f.blocksCount - 1 : \A i \in 0 .. blockSize - 1 :
        c.data[j * blockSize + i] = f.data[j * blockSize + i]
  <2>1. PICK total \in Nat : total = totalSizeOfAllBlocks(f) /\ f.blocksCount * blockSize <= total
    BY <1>1 DEF totalSizeOfAllBlocks
  <2>2. \A j \in 0 .. f.blocksCount - 1 : \A i \in 0 .. blockSize - 1 :
          j * blockSize + i \in 0 .. total - 1
    BY <1>1, <2>1, BlockPlace
  <2>. QED  BY <1>2, <2>1, <2>2
<1>5. ASSUME NEW j \in 0 .. FrameBlocksMax - 1, f.firstBlockIdx + j \in Settled
      PROVE  /\ j < c.blocksCount
             /\ \A i \in 0 .. blockSize - 1 :
                  c.data[j * blockSize + i] = Source[(f.firstBlockIdx + j) * blockSize + i]
  <2>1. /\ j < f.blocksCount
        /\ \A i \in 0 .. blockSize - 1 :
             f.data[j * blockSize + i] = Source[(f.firstBlockIdx + j) * blockSize + i]
    BY <1>5 DEF GoodFrames
  <2>2. j \in 0 .. f.blocksCount - 1
    BY <1>1, <2>1
  <2>. QED  BY <1>2, <1>4, <2>1, <2>2
<1>6. c \in MyFrame
  BY <1>1, <1>2 DEF MyFrame
<1>. QED  BY <1>2, <1>3, <1>5, <1>6 DEF GoodFrames, c

-----------------------------------------------------------------------------
(* What calculators make of frames. *)

Expected == [b \in Nat |-> ExpectedCrc(scenario.input, b)]

(* The checksums of the blocks passed are there. *)
GoodWork ==
  {w \in Work :
     /\ w.in \in GoodFrames
     /\ \A j \in 0 .. w.block - 1 : w.in.firstBlockIdx + j \in Settled =>
          w.out.data[j] = Expected[w.in.firstBlockIdx + j]}

(* The loop has consumed the beginning of the block at hand. *)
LoopFits ==
  Len(consumed) # 0 =>
    /\ work # None /\ work.block < work.in.blocksCount
    /\ \A i \in 1 .. Len(consumed) :
         consumed[i] = work.in.data[work.block * blockSize + (i - 1)]

LEMMA ExpectedKept ==
  ASSUME scenario' = scenario
  PROVE  Expected' = Expected
BY DEF Expected, ExpectedCrc, PaddedBlock, blockSize

LEMMA GoodWorkKept ==
  ASSUME TypeInv, SourceOK, [Next]_vars, FrameBlocksMax' = FrameBlocksMax
  PROVE  GoodWork \subseteq GoodWork'
<1>1. scenario' = scenario /\ Expected' = Expected
  BY Decided, ExpectedKept
<1>2. Work' = Work
  BY <1>1 DEF Work, MyFrame, blockSize
<1>. QED  BY <1>1, <1>2, GoodFramesKept, SettledKept DEF GoodWork

LEMMA WorkIsNotNone ==
  ASSUME NEW w \in Work, w.in \in GoodFrames
  PROVE  w # None
<1>1. w \in [in : MyFrame, block : Nat, out : Frame] /\ w.in \in GoodFrames
  BY DEF Work
<1>2. /\ w.in \in Frame /\ w.in.capacity \in Nat /\ w.in.capacity <= MaxCapacity
      /\ w.in.blocksCount \in Nat /\ w.in.blockSize \in Nat \ {0}
      /\ w.in.blocksCount * w.in.blockSize <= w.in.capacity
  BY <1>1 DEF GoodFrames, MyFrame, Frame, Fits
<1>3. w.in.blocksCount * 1 <= w.in.blocksCount * w.in.blockSize
  <2>1. \A a \in Nat, b \in Nat \ {0} : 1 * a <= b * a /\ a * b = b * a
    BY MulMonotone
  <2>. QED  BY <1>2, <2>1
<1>4. w.out \in Frame /\ w.out.capacity = w.in.blocksCount
  BY DEF Work
<1>5. MaxCapacity \in Nat
  BY ScenariosAssumption DEF MaxCapacity
<1>6. w.out.capacity \in Nat /\ w.out.capacity <= MaxCapacity
  <2>. DEFINE x == w.in.blocksCount  y == w.in.blocksCount * w.in.blockSize  c == w.in.capacity
  <2>1. x \in Nat /\ y \in Int /\ c \in Nat /\ x <= y /\ y <= c /\ c <= MaxCapacity
    BY <1>2, <1>3
  <2>. HIDE DEF x, y, c
  <2>2. x <= MaxCapacity
    BY <1>5, <2>1
  <2>. QED  BY <1>2, <1>4, <2>2 DEF x
<1>7. ASSUME NEW f \in Frame, f.capacity <= MaxCapacity PROVE f \in FramesUpTo(MaxCapacity)
  <2>1. f.capacity \in 0 .. MaxCapacity
    BY <1>5, <1>7 DEF Frame
  <2>2. f.data \in BytesUpTo(MaxCapacity)
    BY <2>1 DEF Frame, BytesUpTo
  <2>. QED  BY <2>1, <2>2 DEF Frame, FramesUpTo
<1>8. w \in [in : FramesUpTo(MaxCapacity), block : Nat, out : FramesUpTo(MaxCapacity)]
  BY <1>1, <1>2, <1>4, <1>6, <1>7
<1>. QED  BY <1>8, NoneAssumption

LEMMA TakeGood ==
  ASSUME Control, NEW f \in GoodFrames, NEW w,
         w = [in |-> f, block |-> 0,
              out |-> NewFrame(Config(f.firstBlockIdx, Crc8ResultSize, f.blocksCount))]
  PROVE  w \in GoodWork /\ w.in = f
<1>1. w \in Work
  BY TakeType DEF GoodFrames
<1>. QED  BY <1>1 DEF GoodWork

(* The block that has been consumed is the one of the input. *)
LEMMA ConsumedBlock ==
  ASSUME TypeInv, LoopFits, work \in GoodWork, Calculating, Len(consumed) = blockSize,
         work.in.firstBlockIdx + work.block \in Settled
  PROVE  consumed = PaddedBlock(scenario.input, work.in.firstBlockIdx + work.block)
<1>. DEFINE bs == blockSize  f == work.in  j == work.block  b == f.firstBlockIdx + j
            size == scenario.input.size
<1>1. /\ bs \in Nat \ {0} /\ consumed \in Seq(0 .. 255) /\ f.firstBlockIdx \in Nat
      /\ j \in Nat /\ j <= f.blocksCount /\ f.blocksCount \in Nat
      /\ j < f.blocksCount /\ f.blocksCount <= FrameBlocksMax /\ FrameBlocksMax \in Nat
  BY BlockSizeType, ConfigType
  DEF TypeInv, Control, LoopOK, GoodWork, Work, GoodFrames, MyFrame, Frame, Calculating
<1>2. \A i \in 1 .. bs : consumed[i] = f.data[j * bs + (i - 1)]
  BY <1>1 DEF LoopFits
<1>3. \A i \in 0 .. bs - 1 : f.data[j * bs + i] = Source[b * bs + i]
  <2>1. f \in GoodFrames /\ j \in 0 .. FrameBlocksMax - 1 /\ f.firstBlockIdx + j \in Settled
    BY <1>1 DEF GoodWork
  <2>. HIDE DEF f, j
  <2>2. \A i \in 0 .. blockSize - 1 :
          f.data[j * blockSize + i] = Source[(f.firstBlockIdx + j) * blockSize + i]
    BY <2>1 DEF GoodFrames
  <2>. QED  BY <2>2
<1>4. \A i \in 0 .. bs - 1 :
        Source[b * bs + i] = IF b * bs + i < size THEN scenario.input.bytes[b * bs + i] ELSE 0
  <2>1. b * bs \in Nat
    BY <1>1
  <2>. QED  BY <2>1 DEF Source
<1>5. PaddedBlock(scenario.input, b)
        = [i \in 1 .. bs |-> IF b * bs + i - 1 < size THEN scenario.input.bytes[b * bs + i - 1] ELSE 0]
  BY DEF PaddedBlock
<1>. HIDE DEF b, f, j, size
<1>6. \A i \in 1 .. bs :
        consumed[i] = IF b * bs + i - 1 < size THEN scenario.input.bytes[b * bs + i - 1] ELSE 0
  <2>. TAKE i \in 1 .. bs
  <2>0. PICK x \in Nat : x = b * bs
    BY <1>1 DEF b, f, j
  <2>1. i - 1 \in 0 .. bs - 1 /\ x + (i - 1) = x + i - 1
    BY <1>1, <2>0
  <2>2. consumed[i] = Source[x + (i - 1)]
    BY <1>2, <1>3, <2>0, <2>1
  <2>3. Source[x + (i - 1)] = IF x + (i - 1) < size THEN scenario.input.bytes[x + (i - 1)] ELSE 0
    BY <1>4, <2>0, <2>1
  <2>. QED  BY <2>0, <2>1, <2>2, <2>3
<1>7. consumed = [i \in 1 .. bs |-> consumed[i]]
  BY <1>1
<1>. QED  BY <1>5, <1>6, <1>7 DEF b, f, j, size

LEMMA StoreStep ==
  ASSUME TypeInv, StoreCrc
  PROVE  /\ Calculating /\ Len(consumed) = blockSize /\ crc \in 0 .. 255
         /\ work # None /\ work \in Work /\ work.block \in Nat /\ work.in.blocksCount \in Nat
         /\ work.block < work.in.blocksCount
         /\ HasStored(work, work', crc)
<1>1. /\ Calculating /\ Len(consumed) = blockSize /\ work # None
      /\ work' = [work EXCEPT !.block = @ + 1, !.out.data[work.block] = crc]
  BY DEF StoreCrc, Calculating
<1>2. work \in Work
  BY <1>1 DEF TypeInv, FramesOK
<1>3. /\ work.block \in Nat /\ work.block < work.in.blocksCount /\ work.in.blocksCount \in Nat
      /\ crc \in 0 .. 255
  BY <1>1, <1>2 DEF Work, MyFrame, Frame, Calculating, TypeInv, LoopOK
<1>4. HasStored(work, work', crc)
  <2>1. /\ work \in Work /\ work.block < work.in.blocksCount /\ crc \in 0 .. 255
        /\ work' = [work EXCEPT !.block = @ + 1, !.out.data[work.block] = crc]
    BY <1>1, <1>2, <1>3
  <2>. QED  BY <2>1, StoreType
<1>. QED  BY <1>1, <1>2, <1>3, <1>4

LEMMA StoreGood ==
  ASSUME TypeInv, LoopFits, IsRemainder, StoreCrc, work \in GoodWork
  PROVE  work' \in GoodWork
<1>1. /\ Calculating /\ Len(consumed) = blockSize /\ work.block \in Nat
      /\ work.in.blocksCount \in Nat /\ work.block < work.in.blocksCount
      /\ HasStored(work, work', crc)
  BY StoreStep
<1>2. work.in \in GoodFrames
  BY DEF GoodWork
<1>3. /\ work' \in Work /\ work'.in = work.in /\ work'.block = work.block + 1
      /\ work'.out.data[work.block] = crc
      /\ \A b \in 0 .. work.in.blocksCount - 1 : b # work.block => work'.out.data[b] = work.out.data[b]
  BY <1>1 DEF HasStored
<1>4. ASSUME work.in.firstBlockIdx + work.block \in Settled
      PROVE  crc = Expected[work.in.firstBlockIdx + work.block]
  <2>1. consumed = PaddedBlock(scenario.input, work.in.firstBlockIdx + work.block)
    BY <1>1, <1>4, ConsumedBlock
  <2>2. crc = ExpectedCrc(scenario.input, work.in.firstBlockIdx + work.block)
    BY <2>1 DEF IsRemainder, Loop!IsRemainder, ExpectedCrc
  <2>3. work.in.firstBlockIdx + work.block \in Nat
    BY <1>4 DEF Settled
  <2>. QED  BY <2>2, <2>3 DEF Expected
<1>5. ASSUME NEW j \in 0 .. work'.block - 1, work.in.firstBlockIdx + j \in Settled
      PROVE  work'.out.data[j] = Expected[work.in.firstBlockIdx + j]
  <2>1. CASE j = work.block
    BY <1>3, <1>4, <1>5, <2>1
  <2>2. CASE j # work.block
    <3>1. j \in 0 .. work.block - 1 /\ j \in 0 .. work.in.blocksCount - 1
      BY <1>1, <1>3, <2>2
    <3>2. work.out.data[j] = Expected[work.in.firstBlockIdx + j]
      BY <1>5, <3>1 DEF GoodWork
    <3>. QED  BY <1>3, <2>2, <3>1, <3>2
  <2>. QED  BY <2>1, <2>2
<1>. QED  BY <1>2, <1>3, <1>5 DEF GoodWork


-----------------------------------------------------------------------------
(* The way of the frames. *)

Flow ==
  /\ inFrame # None => /\ inFrame \in GoodFrames
                       /\ inFrame.firstBlockIdx = next * FrameBlocksMax
  /\ pushed \subseteq GoodFrames
  /\ work # None => work.in \in GoodFrames
  /\ LoopFits

(* The frames are cut for the size that was asked for once. *)
LEMMA CutKept ==
  ASSUME TypeInv, [Next]_vars, ~MeasureInput
  PROVE  FrameBlocksMax' = FrameBlocksMax /\ fileSize' = fileSize
<1>1. blockSize' = blockSize
  BY Decided DEF blockSize
<1>2. fileSize' = fileSize
  BY SourceSteps
<1>. QED  BY <1>1, <1>2 DEF FrameBlocksMax

(* And while there is nothing to cut yet. *)
LEMMA NothingToCut ==
  ASSUME TypeInv, MeasureInput
  PROVE  /\ reader = "idle" /\ next = 0 /\ queue = {} /\ pushed = {} /\ inFrame = None /\ work = None
         /\ UNCHANGED <<next, queue, pushed, inFrame, work>>
BY DEF MeasureInput, TypeInv, TasksOK, flow, inVars

LEMMA LoopFitsKept ==
  ASSUME TypeInv, LoopFits, [Next]_vars
  PROVE  LoopFits'
<1>0. FramesOK /\ LoopOK /\ blockSize' = blockSize
  BY Decided DEF TypeInv, blockSize
<1>1. CASE UNCHANGED <<work, loopVars>>
  BY <1>0, <1>1 DEF LoopFits, loopVars
<1>2. CASE (work = None \/ Calculated) /\ UNCHANGED loopVars
  <2>1. ~(work # None /\ work.block < work.in.blocksCount) /\ consumed' = consumed
    <3>1. CASE work = None
      BY <1>2, <3>1 DEF loopVars
    <3>2. CASE Calculated
      <4>1. work.block = work.in.blocksCount /\ work # None /\ consumed' = consumed
        BY <1>2, <3>2 DEF Calculated, loopVars
      <4>2. work.block \in Nat
        BY <1>0, <4>1 DEF FramesOK, Work
      <4>. QED  BY <4>1, <4>2
    <3>. QED  BY <1>2, <3>1, <3>2
  <2>2. Len(consumed) = 0
    BY <2>1 DEF LoopFits
  <2>. QED  BY <2>1, <2>2 DEF LoopFits
<1>3. CASE StoreCrc
  <2>1. consumed' = <<>>
    BY <1>3 DEF StoreCrc
  <2>. QED  BY <2>1 DEF LoopFits
<1>4. CASE Calculate
  <2>1. PICK byte : /\ byte = blockAsRange(work.in, work.block)[Len(consumed)]
                    /\ Loop!Consume(byte) /\ Len(consumed) < blockSize /\ Calculating
    BY <1>4 DEF Calculate
  <2>2. /\ byte = work.in.data[work.block * blockSize + Len(consumed)] /\ byte \in 0 .. 255
    BY <2>1, NextByte
  <2>3. consumed' = Append(consumed, byte)
    BY <2>1 DEF Loop!Consume
  <2>4. UNCHANGED work /\ work # None /\ work.block < work.in.blocksCount
    BY <1>4, <2>1 DEF Calculate, Calculating, flow
  <2>. DEFINE t == consumed'
  <2>5. /\ Len(consumed) \in Nat /\ Len(t) = Len(consumed) + 1
        /\ \A i \in 1 .. Len(consumed) : t[i] = consumed[i]
        /\ t[Len(consumed) + 1] = byte
    <3>1. consumed \in Seq(0 .. 255) /\ byte \in 0 .. 255 /\ t = Append(consumed, byte)
      BY <1>0, <2>2, <2>3 DEF LoopOK
    <3>. HIDE DEF t
    <3>. QED  BY <3>1, Appended, SMTT(30)
  <2>6. \A i \in 1 .. Len(consumed) :
          consumed[i] = work.in.data[work.block * blockSize + (i - 1)]
    <3>. TAKE i \in 1 .. Len(consumed)
    <3>1. Len(consumed) # 0
      BY <2>5
    <3>. QED  BY <3>1 DEF LoopFits
  <2>7. \A i \in 1 .. Len(consumed') :
          consumed'[i] = work.in.data[work.block * blockSize + (i - 1)]
    <3>. TAKE i \in 1 .. Len(consumed')
    <3>1. CASE i \in 1 .. Len(consumed)
      <4>1. consumed'[i] = consumed[i]
        BY <2>5, <3>1
      <4>. QED  BY <2>6, <3>1, <4>1
    <3>2. CASE i \notin 1 .. Len(consumed)
      <4>1. i = Len(consumed) + 1 /\ i - 1 = Len(consumed)
        BY <2>5, <3>2
      <4>2. consumed'[i] = byte
        BY <2>5, <4>1
      <4>. QED  BY <2>2, <4>1, <4>2
    <3>. QED  BY <3>1, <3>2
  <2>. QED  BY <1>0, <2>4, <2>7 DEF LoopFits
<1>5. ASSUME Read \/ Push PROVE UNCHANGED <<work, loopVars>>
  BY <1>5 DEF Read, Push, flow
<1>6. ASSUME TakeFrame \/ CalculationFails \/ Write \/ LeaveInQueue
      PROVE  (work = None \/ Calculated) /\ UNCHANGED loopVars
  BY <1>6 DEF TakeFrame, CalculationFails, Write, LeaveInQueue
<1>. QED
  BY <1>1, <1>2, <1>3, <1>4, <1>5, <1>6, FlowSteps

LEMMA FlowKept ==
  ASSUME TypeInv, SourceOK, Flow, [Next]_vars
  PROVE  Flow'
<1>0. Control /\ FramesOK /\ LoopFits'
  BY LoopFitsKept DEF TypeInv, Flow
<1>. SUFFICES /\ inFrame' # None => /\ inFrame' \in GoodFrames'
                                    /\ inFrame'.firstBlockIdx = next' * FrameBlocksMax'
              /\ pushed' \subseteq GoodFrames'
              /\ work' # None => work'.in \in GoodFrames'
  BY <1>0 DEF Flow
<1>1. CASE MeasureInput
  BY <1>1, NothingToCut
<1>2. CASE ~MeasureInput
  <2>1. FrameBlocksMax' = FrameBlocksMax
    BY <1>2, CutKept
  <2>2. GoodFrames \subseteq GoodFrames'
    BY <2>1, GoodFramesKept
  <2>3. CASE UNCHANGED <<next, queue, pushed, inFrame, work, loopVars>>
    BY <2>1, <2>2, <2>3 DEF Flow
  <2>4. CASE Read
    <3>1. UNCHANGED <<next, pushed, work>>
      BY <2>4 DEF Read, flow
    <3>2. CASE inFrame' = In!FrameRead(input, ConfigOf(next))
      <4>1. inFrame' \in GoodFrames /\ inFrame'.firstBlockIdx = next * FrameBlocksMax
        BY <2>4, <3>2, ReadGood
      <4>. QED  BY <2>1, <2>2, <3>1, <4>1 DEF Flow
    <3>3. CASE UNCHANGED inFrame
      BY <2>1, <2>2, <3>1, <3>3 DEF Flow
    <3>. QED  BY <2>4, <3>2, <3>3 DEF Read
  <2>5. CASE Push
    <3>1. /\ inFrame' = None /\ work' = work /\ inFrame # None
          /\ pushed' = pushed \cup {IF scenario.copies THEN CopyOf(inFrame) ELSE inFrame}
      BY <2>5 DEF Push
    <3>2. inFrame \in GoodFrames /\ CopyOf(inFrame) \in GoodFrames
      BY <1>0, <3>1, CopyGood DEF Flow
    <3>. QED  BY <2>2, <3>1, <3>2 DEF Flow
  <2>6. CASE TakeFrame
    <3>1. PICK f \in queue :
            work' = [in |-> f, block |-> 0,
                     out |-> NewFrame(Config(f.firstBlockIdx, Crc8ResultSize, f.blocksCount))]
      BY <2>6 DEF TakeFrame
    <3>2. f \in GoodFrames
      BY <1>0 DEF Flow, FramesOK
    <3>3. work'.in \in GoodFrames
      BY <3>1, <3>2
    <3>4. UNCHANGED <<inFrame, next, pushed>>
      BY <2>6 DEF TakeFrame, inVars
    <3>. QED  BY <2>1, <2>2, <3>3, <3>4 DEF Flow
  <2>7. CASE Calculate \/ CalculationFails
    <3>1. UNCHANGED <<inFrame, next, pushed, work>>
      BY <2>7 DEF Calculate, CalculationFails, inVars, flow
    <3>. QED  BY <2>1, <2>2, <3>1 DEF Flow
  <2>8. CASE StoreCrc
    <3>1. UNCHANGED <<inFrame, next, pushed>> /\ work # None
      BY <2>8 DEF StoreCrc, Calculating, inVars
    <3>2. work'.in \in GoodFrames
      BY <2>8, <3>1, StoreStep DEF Flow, HasStored
    <3>. QED  BY <2>1, <2>2, <3>1, <3>2 DEF Flow
  <2>9. CASE Write \/ LeaveInQueue
    <3>1. UNCHANGED <<inFrame, next, pushed>> /\ work' = None
      BY <2>9 DEF Write, LeaveInQueue, inVars
    <3>. QED  BY <2>1, <2>2, <3>1 DEF Flow
  <2>. QED  BY <2>3, <2>4, <2>5, <2>6, <2>7, <2>8, <2>9, FlowSteps
<1>. QED  BY <1>1, <1>2

(* Every frame read has been handed over, the last one perhaps not yet. *)
Waiting == \A k \in Nat : k < next => \E f \in pushed : f.firstBlockIdx = k * FrameBlocksMax

(* Only Push turns to the next frame. *)
LEMMA PushSteps ==
  ASSUME [Next]_vars
  PROVE  Push \/ UNCHANGED <<next, pushed>>
BY FlowSteps DEF Read, TakeFrame, CalculationFails, Calculate, StoreCrc, Write, LeaveInQueue,
                 flow, inVars

LEMMA WaitingKept ==
  ASSUME TypeInv, Flow, Waiting, [Next]_vars
  PROVE  Waiting'
<1>1. CASE MeasureInput
  <2>1. \A k \in Nat : ~(k < next')
    BY <1>1, NothingToCut
  <2>. QED  BY <2>1 DEF Waiting
<1>2. CASE ~MeasureInput
  <2>1. FrameBlocksMax' = FrameBlocksMax
    BY <1>2, CutKept
  <2>2. \A k \in Nat : k < next => \E f \in pushed : f.firstBlockIdx = k * FrameBlocksMax
    BY DEF Waiting
  <2>3. CASE UNCHANGED <<next, pushed>>
    BY <2>1, <2>2, <2>3 DEF Waiting
  <2>4. CASE Push
    <3>1. /\ inFrame \in GoodFrames /\ inFrame.firstBlockIdx = next * FrameBlocksMax
          /\ pushed' = pushed \cup {IF scenario.copies THEN CopyOf(inFrame) ELSE inFrame}
          /\ next' = next + 1 /\ next \in Nat
      BY <2>4 DEF Push, Flow, TypeInv, Control
    <3>2. CopyOf(inFrame).firstBlockIdx = inFrame.firstBlockIdx
      BY <3>1, CopyGood DEF TypeInv
    <3>3. ASSUME NEW k \in Nat, k < next' PROVE \E f \in pushed' : f.firstBlockIdx = k * FrameBlocksMax
      <4>1. k < next \/ k = next
        BY <3>1, <3>3
      <4>. QED  BY <2>2, <3>1, <3>2, <4>1
    <3>. QED  BY <2>1, <3>3 DEF Waiting
  <2>. QED  BY <2>3, <2>4, PushSteps
<1>. QED  BY <1>1, <1>2

(* A reader that has ended well has read all of them. *)
Complete ==
  reader = "done" /\ "reader" \notin failed =>
    next >= dataFramesInFile(fileSize, blockSize, OptimalDataFrameSize)

(* Only the end of the last frame, or a failure, ends the reader. *)
LEMMA ReaderSteps ==
  ASSUME [Next]_vars, reader' = "done", "reader" \notin failed'
  PROVE  \/ CloseInput /\ next \notin Frames /\ UNCHANGED <<fileSize, next>>
         \/ reader = "done" /\ "reader" \notin failed
<1>. USE DEF tasks
<1>1. CASE MeasureInput \/ OpenInput \/ CloseInput \/ Read
  BY <1>1 DEF MeasureInput, OpenInput, CloseInput, Read, numbers
<1>2. CASE OpenOutput \/ CalculationFails \/ CloseOutput \/ Write
  BY <1>2 DEF OpenOutput, CalculationFails, CloseOutput, Write
<1>3. CASE UNCHANGED vars \/ Terminated
  BY <1>3 DEF vars, Terminated
<1>4. CASE getOpenModeForOutputFile \/ LookForOutput \/ MeasureOutput \/ JoinThrows \/ Succeed
  BY <1>4 DEF getOpenModeForOutputFile, LookForOutput, MeasureOutput, JoinThrows, Succeed
<1>5. CASE Push \/ TakeFrame \/ Calculate \/ StoreCrc \/ LeaveInQueue
  BY <1>5 DEF Push, TakeFrame, Calculate, StoreCrc, LeaveInQueue
<1>6. CASE cleanup \/ ResizeInput \/ MeddleOutput
  BY <1>6 DEF cleanup, ResizeInput, MeddleOutput
<1>. QED  BY <1>1, <1>2, <1>3, <1>4, <1>5, <1>6 DEF Next

LEMMA CountType ==
  ASSUME Control
  PROVE  dataFramesInFile(fileSize, blockSize, OptimalDataFrameSize) \in Int
<1>. DEFINE Count == dataFramesInFile(fileSize, blockSize, OptimalDataFrameSize)
<1>1. blockSize \in Nat \ {0} /\ OptimalDataFrameSize \in Nat \ {0} /\ fileSize \in Nat
  BY BlockSizeType, ScenariosAssumption DEF Control
<1>2. CASE fileSize = 0
  BY <1>2 DEF dataFramesInFile
<1>3. CASE fileSize # 0
  <2>. DEFINE n == dataBlocksInFile(fileSize, blockSize)
              k == dataBlocksInFrame(fileSize, blockSize, OptimalDataFrameSize)
  <2>1. Cut(fileSize, blockSize, OptimalDataFrameSize, n, k, Count)
    BY <1>1, <1>3 DEF Cut
  <2>. HIDE DEF n, k, Count
  <2>2. Count \in Nat
    BY <2>1, CutTypes
  <2>. QED  BY <2>2 DEF Count
<1>. QED  BY <1>2, <1>3

LEMMA CompleteKept ==
  ASSUME TypeInv, Complete, [Next]_vars
  PROVE  Complete'
<1>. DEFINE Count == dataFramesInFile(fileSize, blockSize, OptimalDataFrameSize)
<1>0. Control /\ scenario' = scenario
  BY Decided DEF TypeInv
<1>. SUFFICES ASSUME reader' = "done", "reader" \notin failed' PROVE next' >= Count'
  BY DEF Complete
<1>1. CASE CloseInput /\ next \notin Frames /\ UNCHANGED <<fileSize, next>>
  <2>1. next \notin 0 .. Count - 1 /\ next' = next /\ Count' = Count
    BY <1>0, <1>1 DEF Frames, blockSize
  <2>. QED  BY <1>0, <2>1, CountType DEF Control
<1>2. CASE reader = "done" /\ "reader" \notin failed
  <2>1. ~MeasureInput /\ ~Push
    BY <1>2, NothingToCut DEF Push
  <2>2. fileSize' = fileSize /\ next' = next
    BY <2>1, CutKept, PushSteps
  <2>3. Count' = Count
    BY <1>0, <2>2 DEF blockSize
  <2>. QED  BY <1>2, <2>2, <2>3 DEF Complete
<1>. QED  BY <1>1, <1>2, ReaderSteps

FlowInv == TypeInv /\ SourceOK /\ Flow /\ Waiting /\ Complete

LEMMA InitFlow == Init => FlowInv
<1>. SUFFICES ASSUME Init PROVE FlowInv
  OBVIOUS
<1>1. TypeInv /\ scenario \in Scenarios
  BY InitTypes DEF Init
<1>2. scenario.input = NoFile \/ IsFile(scenario.input)
  BY <1>1, ScenariosAssumption
<1>3. input = scenario.input /\ least = IF input = NoFile THEN 0 ELSE input.size
  BY DEF Init
<1>4. SourceOK
  <2>1. CASE scenario.input = NoFile
    BY <1>3, <2>1 DEF Init, SourceOK
  <2>2. CASE scenario.input # NoFile
    <3>1. IsFile(input) /\ IsFile(scenario.input) /\ scenario.input.size \in Nat
      BY <1>2, <1>3, <2>2 DEF IsFile
    <3>2. input # NoFile
      BY <1>3, <2>2
    <3>3. least = scenario.input.size
      BY <1>3, <3>2
    <3>4. SameSource
      BY <1>3, <3>1, <3>3 DEF SameSource
    <3>. QED  BY <3>4 DEF Init, SourceOK
  <2>. QED  BY <2>1, <2>2
<1>5. Len(consumed) = 0
  BY DEF Init, Loop!Init
<1>6. Flow
  BY <1>5 DEF Init, Flow, LoopFits
<1>7. Waiting /\ Complete
  BY DEF Init, Waiting, Complete
<1>. QED  BY <1>1, <1>4, <1>6, <1>7 DEF FlowInv

LEMMA FlowHolds == Spec => []FlowInv
<1>1. FlowInv /\ [Next]_vars => FlowInv'
  BY TypesKept, SourceKept, FlowKept, WaitingKept, CompleteKept DEF FlowInv
<1>. QED  BY <1>1, InitFlow, PTL DEF Spec

(* A block of the file as it was measured lies in one of the frames. *)
LEMMA FrameOfBlock ==
  ASSUME Control, NEW b \in Nat, b * blockSize < fileSize
  PROVE  /\ FrameBlocksMax \in Nat \ {0}
         /\ \E k \in Nat : \E j \in 0 .. FrameBlocksMax - 1 :
              /\ k < dataFramesInFile(fileSize, blockSize, OptimalDataFrameSize)
              /\ b = k * FrameBlocksMax + j
<1>. DEFINE fs == fileSize  bs == blockSize  opt == OptimalDataFrameSize
            n == dataBlocksInFile(fs, bs)  k == FrameBlocksMax  m == dataFramesInFile(fs, bs, opt)
<1>1. fs \in Nat /\ bs \in Nat \ {0} /\ opt \in Nat \ {0}
  BY BlockSizeType, ScenariosAssumption DEF Control
<1>2. b * bs \in Nat /\ fs # 0
  BY <1>1
<1>3. Cut(fs, bs, opt, n, k, m)
  BY <1>1, <1>2 DEF Cut, FrameBlocksMax
<1>4. b < n
  BY <1>1, CeilParts DEF dataBlocksInFile
<1>. HIDE DEF fs, bs, opt, n, k, m
<1>5. n \in Nat /\ k \in Nat \ {0} /\ m \in Nat /\ n <= m * k
  BY <1>3, CutTypes
<1>. DEFINE f == b \div k  j == b % k
<1>6. f \in Nat /\ j \in 0 .. k - 1 /\ b = f * k + j
  BY <1>5, DivMod
<1>. HIDE DEF f, j
<1>7. f < m
  <2>. SUFFICES ASSUME m <= f PROVE FALSE
    BY <1>5, <1>6
  <2>1. m * k <= f * k /\ m * k \in Nat /\ f * k \in Nat
    BY <1>5, <1>6, MulMonotone
  <2>. QED  BY <1>4, <1>5, <1>6, <2>1
<1>. QED  BY <1>5, <1>6, <1>7 DEF k, m, fs, bs, opt

LEMMA SettledIsMeasured ==
  ASSUME Control, SourceOK, reader # "idle", NEW b \in Settled
  PROVE  b \in Nat /\ b * blockSize < least /\ b * blockSize < fileSize
<1>1. b \in Nat /\ blockSize \in Nat \ {0} /\ least \in Nat /\ fileSize \in Nat /\ least <= fileSize
  BY BlockSizeType DEF Settled, Control, SourceOK
<1>2. (b + 1) * blockSize = b * blockSize + blockSize /\ b * blockSize \in Nat
  BY <1>1
<1>3. b * blockSize < least
  BY <1>1, <1>2 DEF Settled
<1>. QED  BY <1>1, <1>2, <1>3

-----------------------------------------------------------------------------
(* The frames put together again. *)

begin(f) == f.firstBlockIdx * f.blockSize
range(f) == begin(f) .. begin(f) + totalSizeOfAllBlocks(f) - 1

(* The reader has ended well. *)
AllRead == reader = "done" /\ "reader" \notin failed

LEMMA SettledUndisturbed ==
  ASSUME Control, "input" \notin disturbed
  PROVE  /\ ceilDevision(least, blockSize) \in Nat
         /\ Settled = 0 .. ceilDevision(least, blockSize) - 1
<1>1. least \in Nat /\ blockSize \in Nat \ {0}
  BY BlockSizeType DEF Control
<1>. DEFINE n == ceilDevision(least, blockSize)
<1>2. n \in Nat /\ \A b \in Nat : b < n <=> b * blockSize < least
  BY <1>1, CeilBounds, CeilParts
<1>3. ASSUME NEW b \in Nat PROVE b \in Settled <=> b < n
  <2>1. (b + 1) * blockSize = b * blockSize + blockSize /\ b * blockSize \in Nat
    BY <1>1
  <2>2. b \in Settled <=> b * blockSize < least
    BY <1>1, <2>1 DEF Settled
  <2>. QED  BY <1>2, <2>2
<1>. HIDE DEF n
<1>4. Settled \subseteq Nat
  BY DEF Settled
<1>5. Settled = 0 .. n - 1
  <2>1. n \in Nat
    BY <1>2
  <2>2. \A b \in Nat : b \in Settled <=> b < n
    BY <1>3
  <2>3. ASSUME NEW b \in Settled PROVE b \in 0 .. n - 1
    <3>1. b \in Nat /\ b < n
      BY <1>4, <2>2
    <3>. QED  BY <2>1, <3>1
  <2>4. ASSUME NEW b \in 0 .. n - 1 PROVE b \in Settled
    <3>1. b \in Nat /\ b < n
      BY <2>1
    <3>. QED  BY <2>2, <3>1
  <2>. QED  BY <2>3, <2>4
<1>. QED  BY <1>2, <1>5 DEF n

(* A byte of a frame is the byte of the file at its place. *)
LEMMA FrameBytes ==
  ASSUME Control, "input" \notin disturbed, NEW f \in GoodFrames, NEW p \in range(f)
  PROVE  /\ p \in 0 .. ceilDevision(least, blockSize) * blockSize - 1
         /\ f.data[p - begin(f)] = Source[p]
<1>. DEFINE bs == blockSize  n == ceilDevision(least, blockSize)  first == f.firstBlockIdx
            count == f.blocksCount
<1>1. /\ bs \in Nat \ {0} /\ n \in Nat /\ first \in Nat /\ count \in Nat /\ f.blockSize = bs
      /\ Settled = 0 .. n - 1 /\ count <= FrameBlocksMax /\ FrameBlocksMax \in Nat
  BY BlockSizeType, SettledUndisturbed, ConfigType DEF Control, GoodFrames, MyFrame, Frame
<1>2. /\ \A j \in 0 .. count - 1 : first + j \in Settled
      /\ \A j \in 0 .. FrameBlocksMax - 1 : first + j \in Settled =>
           \A i \in 0 .. bs - 1 : f.data[j * bs + i] = Source[(first + j) * bs + i]
  BY DEF GoodFrames
<1>3. begin(f) = first * bs /\ range(f) = first * bs .. first * bs + count * bs - 1
  BY <1>1 DEF begin, range, totalSizeOfAllBlocks
<1>. HIDE DEF bs, n, first, count
<1>4. PICK s \in Nat, t \in Nat : s = first * bs /\ t = count * bs
  BY <1>1
<1>5. p \in s .. s + t - 1
  BY <1>3, <1>4
<1>. DEFINE x == p - s  j == x \div bs  i == x % bs
<1>6. x \in Nat /\ x < t /\ p = s + x /\ p \in Nat
  BY <1>4, <1>5
<1>. HIDE DEF x
<1>7. j \in Nat /\ i \in 0 .. bs - 1 /\ x = j * bs + i
  BY <1>1, <1>6, DivMod
<1>. HIDE DEF j, i
<1>8. j < count
  <2>. SUFFICES ASSUME count <= j PROVE FALSE
    BY <1>1, <1>7
  <2>1. count * bs <= j * bs /\ j * bs \in Nat
    BY <1>1, <1>7, MulMonotone
  <2>. QED  BY <1>4, <1>6, <1>7, <2>1
<1>9. /\ first + j \in 0 .. n - 1 /\ j \in 0 .. FrameBlocksMax - 1 /\ first + j \in Settled
      /\ f.data[j * bs + i] = Source[(first + j) * bs + i]
  <2>1. j \in 0 .. count - 1 /\ j \in 0 .. FrameBlocksMax - 1
    BY <1>1, <1>7, <1>8
  <2>2. first + j \in Settled
    BY <1>2, <2>1
  <2>. QED  BY <1>1, <1>2, <1>7, <2>1, <2>2
<1>10. /\ (first + j) * bs = s + j * bs /\ (first + j + 1) * bs = s + j * bs + bs
       /\ (first + j + 1) * bs <= n * bs /\ j * bs \in Nat
  <2>1. first + j + 1 <= n /\ first + j + 1 \in Nat
    <3>1. first + j \in 0 .. n - 1 /\ n \in Nat /\ first \in Nat /\ j \in Nat
      BY <1>1, <1>7, <1>9
    <3>. QED  BY <3>1
  <2>. QED  BY <1>1, <1>4, <1>7, <2>1, Distribute, MulMonotone
<1>11. p = (first + j) * bs + i /\ p - s = j * bs + i
  <2>. DEFINE y == j * bs
  <2>1. y \in Nat
    BY <1>10
  <2>. HIDE DEF y
  <2>2. p = s + y + i /\ p - s = y + i
    BY <1>1, <1>4, <1>6, <1>7, <2>1 DEF y
  <2>. QED  BY <1>10, <2>2 DEF y
<1>12. f.data[p - s] = Source[p]
  BY <1>9, <1>11
<1>13. p \in 0 .. n * bs - 1
  <2>. DEFINE y == j * bs  z == n * bs
  <2>1. y \in Nat /\ z \in Nat /\ s + y + bs <= z /\ x = y + i
    BY <1>1, <1>7, <1>10
  <2>. HIDE DEF y, z
  <2>2. p \in 0 .. z - 1
    BY <1>1, <1>4, <1>6, <1>7, <2>1
  <2>. QED  BY <2>2 DEF z
<1>. QED  BY <1>3, <1>4, <1>12, <1>13 DEF n, bs

(* No byte is missing when all frames are read. *)
LEMMA FramesCover ==
  ASSUME FlowInv, AllRead, "input" \notin disturbed,
         NEW p \in 0 .. ceilDevision(least, blockSize) * blockSize - 1
  PROVE  \E f \in pushed : p \in range(f)
<1>. DEFINE bs == blockSize  n == ceilDevision(least, blockSize)  k == FrameBlocksMax
            b == p \div bs  i == p % bs
<1>0. Control /\ SourceOK /\ Flow /\ Waiting /\ Complete
  BY DEF FlowInv, TypeInv, FramesOK
<1>1. /\ bs \in Nat \ {0} /\ n \in Nat /\ n * bs \in Nat /\ Settled = 0 .. n - 1
      /\ k \in Nat
  BY <1>0, BlockSizeType, SettledUndisturbed, ConfigType DEF Control
<1>2. b \in Nat /\ i \in 0 .. bs - 1 /\ p = b * bs + i /\ p < n * bs /\ p \in Nat
  <2>1. p \in Nat /\ p < n * bs
    BY <1>1
  <2>2. bs \in Nat \ {0}
    BY <1>1
  <2>. HIDE DEF bs, n
  <2>. QED  BY <2>1, <2>2, DivMod
<1>. HIDE DEF b, i, n
<1>3. b < n
  <2>. SUFFICES ASSUME n <= b PROVE FALSE
    BY <1>1, <1>2
  <2>1. n * bs <= b * bs /\ b * bs \in Nat
    BY <1>1, <1>2, MulMonotone
  <2>. QED  BY <1>1, <1>2, <2>1
<1>4. b \in Settled
  BY <1>1, <1>2, <1>3
<1>5. b * blockSize < fileSize
  BY <1>0, <1>4, SettledIsMeasured DEF AllRead
<1>6. PICK kk \in Nat, j \in 0 .. k - 1 :
        kk < dataFramesInFile(fileSize, blockSize, OptimalDataFrameSize) /\ b = kk * k + j
  BY <1>0, <1>2, <1>5, FrameOfBlock
<1>7. kk < next
  <2>. DEFINE m == dataFramesInFile(fileSize, blockSize, OptimalDataFrameSize)
  <2>1. next >= m /\ next \in Nat
    BY <1>0 DEF Complete, Control, AllRead
  <2>2. m \in Int
    BY <1>0, CountType
  <2>. HIDE DEF m
  <2>. QED  BY <1>6, <2>1, <2>2 DEF m
<1>8. PICK f \in pushed : f.firstBlockIdx = kk * k
  BY <1>0, <1>6, <1>7 DEF Waiting
<1>9. /\ f \in GoodFrames /\ f.blockSize = bs /\ f.blocksCount \in Nat /\ f.firstBlockIdx \in Nat
      /\ j < f.blocksCount
  <2>1. f \in GoodFrames
    BY <1>0 DEF Flow
  <2>2. j < f.blocksCount
    BY <1>4, <1>6, <1>8, <2>1 DEF GoodFrames
  <2>. QED  BY <2>1, <2>2 DEF GoodFrames, MyFrame, Frame
<1>10. begin(f) = f.firstBlockIdx * bs /\ range(f) = begin(f) .. begin(f) + f.blocksCount * bs - 1
  BY <1>9 DEF begin, range, totalSizeOfAllBlocks
<1>. DEFINE first == f.firstBlockIdx  count == f.blocksCount  s == first * bs  t == count * bs
            y == j * bs
<1>11. /\ s \in Nat /\ t \in Nat /\ y \in Nat /\ b * bs = s + y
       /\ y + i \in 0 .. t - 1
  <2>1. first \in Nat /\ count \in Nat /\ j \in Nat /\ j \in 0 .. count - 1 /\ b = first + j
    BY <1>1, <1>6, <1>8, <1>9
  <2>. HIDE DEF first, count, s, t, y, bs
  <2>2. s \in Nat /\ t \in Nat /\ t = count * bs /\ count * bs <= t
    BY <1>1, <2>1 DEF s, t
  <2>3. b * bs = s + y /\ y \in Nat
    BY <1>1, <2>1, Distribute DEF s, y
  <2>4. y + i \in 0 .. t - 1
    BY <1>1, <1>2, <2>1, <2>2, BlockPlace DEF y
  <2>. QED  BY <2>2, <2>3, <2>4
<1>12. p \in s .. s + t - 1
  <2>. DEFINE z == b * bs
  <2>1. z = s + y /\ p = z + i
    BY <1>2, <1>11
  <2>. HIDE DEF s, t, y, z
  <2>. QED  BY <1>1, <1>2, <1>11, <2>1
<1>. QED  BY <1>10, <1>12

LEMMA VectorOfFrames ==
  ASSUME FlowInv, AllRead, "input" \notin disturbed,
         NEW total, total = ceilDevision(least, blockSize) * blockSize
  PROVE  /\ getAllFramesDataAsVector(pushed).size = total
         /\ \A b \in 0 .. total - 1 : getAllFramesDataAsVector(pushed).bytes[b] = Source[b]
<1>. DEFINE bytes == UNION {range(f) : f \in pushed}
            sizes == {0} \cup {b + 1 : b \in bytes}
            size == CHOOSE n \in sizes : \A b \in bytes : b < n
            owner(b) == CHOOSE f \in pushed : b \in range(f)
            vector == [size |-> size,
                       bytes |-> [b \in 0 .. size - 1 |->
                                    IF b \in bytes THEN owner(b).data[b - begin(owner(b))] ELSE 0]]
<1>0. Control /\ pushed \subseteq GoodFrames
  BY DEF FlowInv, TypeInv, Flow
<1>1. total \in Nat
  <2>1. ceilDevision(least, blockSize) \in Nat /\ blockSize \in Nat
    BY <1>0, BlockSizeType, SettledUndisturbed DEF Control
  <2>. HIDE DEF blockSize
  <2>. QED  BY <2>1
<1>2. getAllFramesDataAsVector(pushed) = vector
  BY DEF getAllFramesDataAsVector, begin, range
<1>3. \A b : b \in bytes <=> b \in 0 .. total - 1
  <2>1. ASSUME NEW f \in pushed, NEW b \in range(f) PROVE b \in 0 .. total - 1
    BY <1>0, <2>1, FrameBytes
  <2>2. ASSUME NEW b \in 0 .. total - 1 PROVE \E f \in pushed : b \in range(f)
    BY <2>2, FramesCover
  <2>. QED  BY <2>1, <2>2
<1>. HIDE DEF bytes
<1>4. size = total
  <2>1. total \in sizes
    <3>1. CASE total = 0
      BY <3>1
    <3>2. CASE total # 0
      <4>1. total - 1 \in bytes /\ (total - 1) + 1 = total
        BY <1>1, <1>3, <3>2
      <4>. QED  BY <4>1
    <3>. QED  BY <3>1, <3>2
  <2>2. \A b \in bytes : b < total
    BY <1>1, <1>3
  <2>3. ASSUME NEW m \in sizes, \A b \in bytes : b < m PROVE m = total
    <3>1. CASE m = 0
      <4>1. total = 0
        <5>. SUFFICES ASSUME total # 0 PROVE FALSE
          OBVIOUS
        <5>1. total - 1 \in bytes /\ ~(total - 1 < 0)
          BY <1>1, <1>3
        <5>. QED  BY <2>3, <3>1, <5>1
      <4>. QED  BY <3>1, <4>1
    <3>2. CASE m # 0
      <4>1. PICK b \in bytes : m = b + 1
        BY <3>2
      <4>2. b \in 0 .. total - 1
        BY <1>3
      <4>3. total - 1 \in bytes
        BY <1>1, <1>3, <4>2
      <4>4. total - 1 < m
        BY <2>3, <4>3
      <4>. QED  BY <1>1, <4>1, <4>2, <4>4
    <3>. QED  BY <3>1, <3>2
  <2>. HIDE DEF sizes
  <2>. QED  BY <2>1, <2>2, <2>3
<1>. HIDE DEF size
<1>5. ASSUME NEW b \in 0 .. total - 1
      PROVE  owner(b).data[b - begin(owner(b))] = Source[b]
  <2>1. \E f \in pushed : b \in range(f)
    BY <1>5, FramesCover
  <2>2. owner(b) \in pushed /\ b \in range(owner(b))
    BY <2>1
  <2>. HIDE DEF owner
  <2>3. owner(b) \in GoodFrames
    BY <1>0, <2>2
  <2>. QED  BY <1>0, <2>2, <2>3, FrameBytes
<1>. HIDE DEF owner
<1>6. vector.size = total /\ \A b \in 0 .. total - 1 : vector.bytes[b] = Source[b]
  BY <1>3, <1>4, <1>5
<1>. QED  BY <1>2, <1>6

LEMMA ReadFromStart ==
  ASSUME NEW f, IsFile(f), NEW size \in Nat \ {0}, NEW n \in Nat, NEW total \in Nat,
         total = size * n
  PROVE  LET r == In!FrameRead(f, Config(0, size, n))
         IN  /\ r \in Frame /\ r.blockSize = size /\ r.blocksCount <= n
             /\ \A j \in 0 .. n - 1 : j < r.blocksCount <=> j * size < f.size
             /\ \A b \in 0 .. total - 1 : r.data[b] = IF b < f.size THEN f.bytes[b] ELSE 0
<1>. DEFINE r == In!FrameRead(f, Config(0, size, n))
<1>1. PICK first \in Nat, from \in Nat : first = 0 /\ from = 0
  OBVIOUS
<1>2. from = first * size /\ r = In!FrameRead(f, Config(first, size, n))
  BY <1>1
<1>. HIDE DEF r
<1>3. ReadRight(f, r, first, from, size, n, total)
  BY <1>2, FrameReadRight
<1>4. /\ r \in Frame /\ r.blockSize = size /\ r.blocksCount <= n
      /\ \A j \in 0 .. n - 1 : j < r.blocksCount <=> from + j * size < f.size
      /\ \A b \in 0 .. total - 1 :
           r.data[b] = IF from + b < f.size THEN f.bytes[from + b] ELSE 0
  BY <1>3, Zenon DEF ReadRight
<1>6. \A j \in 0 .. n - 1 : from + j * size = j * size
  BY <1>1
<1>7. \A b \in 0 .. total - 1 : from + b = b
  BY <1>1
<1>. QED  BY <1>4, <1>6, <1>7 DEF r

LEMMA FrameOfAll ==
  ASSUME FlowInv, AllRead, "input" \notin disturbed,
         NEW total, total = ceilDevision(least, blockSize) * blockSize
  PROVE  /\ totalSizeOfAllBlocks(serialResult(input)) = total
         /\ \A b \in 0 .. total - 1 : serialResult(input).data[b] = Source[b]
<1>. DEFINE n == ceilDevision(least, blockSize)  r == serialResult(input)
<1>0. Control /\ SourceOK
  BY DEF FlowInv, TypeInv
<1>1. /\ IsFile(input) /\ input = scenario.input /\ least = input.size
      /\ blockSize \in Nat \ {0} /\ input.size \in Nat
  BY <1>0, BlockSizeType DEF SourceOK, SameSource, AllRead, Control, IsFile
<1>2. n \in Nat /\ \A b \in Nat : b < n <=> b * blockSize < input.size
  BY <1>1, CeilBounds, CeilParts
<1>3. r = In!FrameRead(input, Config(0, blockSize, n))
  BY <1>1 DEF serialResult
<1>. HIDE DEF n, r
<1>4. total = n * blockSize
  BY DEF n
<1>. HIDE DEF blockSize
<1>5. total \in Nat /\ total = blockSize * n
  BY <1>1, <1>2, <1>4
<1>6. /\ r \in Frame /\ r.blockSize = blockSize /\ r.blocksCount <= n
      /\ \A j \in 0 .. n - 1 : j < r.blocksCount <=> j * blockSize < input.size
      /\ \A b \in 0 .. total - 1 :
           r.data[b] = IF b < input.size THEN input.bytes[b] ELSE 0
  BY <1>1, <1>2, <1>3, <1>5, ReadFromStart
<1>7. r.blocksCount = n
  <2>1. r.blocksCount \in Nat
    BY <1>6 DEF Frame
  <2>2. ASSUME n # 0 PROVE n - 1 < r.blocksCount
    <3>1. n - 1 \in 0 .. n - 1 /\ n - 1 \in Nat /\ n - 1 < n
      BY <1>2, <2>2
    <3>2. (n - 1) * blockSize < input.size /\ (n - 1) * blockSize \in Nat
      BY <1>1, <1>2, <3>1
    <3>. QED  BY <1>6, <3>1, <3>2
  <2>. QED  BY <1>2, <1>6, <2>1, <2>2
<1>8. totalSizeOfAllBlocks(r) = total
  BY <1>4, <1>6, <1>7 DEF totalSizeOfAllBlocks
<1>9. \A b \in 0 .. total - 1 : r.data[b] = Source[b]
  <2>. TAKE b \in 0 .. total - 1
  <2>1. b \in Nat
    BY <1>5
  <2>. QED  BY <1>1, <1>6, <2>1 DEF Source
<1>. QED  BY <1>8, <1>9 DEF r

(* Frames of their own blocks do not lie over each other. *)
LEMMA FramesApart ==
  ASSUME Control, NEW f \in GoodFrames, NEW g \in GoodFrames, f.firstBlockIdx < g.firstBlockIdx
  PROVE  f.firstBlockIdx + f.blocksCount <= g.firstBlockIdx
<1>1. PICK kf \in Nat, kg \in Nat : /\ f.firstBlockIdx = kf * FrameBlocksMax
                                    /\ g.firstBlockIdx = kg * FrameBlocksMax
  BY DEF GoodFrames
<1>2. /\ f.blocksCount \in Nat /\ f.blocksCount <= FrameBlocksMax /\ FrameBlocksMax \in Nat
  BY ConfigType DEF GoodFrames, MyFrame, Frame
<1>. HIDE DEF FrameBlocksMax
<1>3. kf < kg
  <2>. SUFFICES ASSUME kg <= kf PROVE FALSE
    BY <1>1
  <2>1. kg * FrameBlocksMax <= kf * FrameBlocksMax
    BY <1>1, <1>2, MulMonotone
  <2>2. kg * FrameBlocksMax \in Nat /\ kf * FrameBlocksMax \in Nat
    BY <1>1, <1>2
  <2>. QED  BY <1>1, <2>1, <2>2
<1>4. (kf + 1) * FrameBlocksMax <= kg * FrameBlocksMax
  BY <1>1, <1>2, <1>3, MulMonotone
<1>5. /\ (kf + 1) * FrameBlocksMax = kf * FrameBlocksMax + FrameBlocksMax
      /\ kf * FrameBlocksMax \in Nat /\ kg * FrameBlocksMax \in Nat
  BY <1>1, <1>2
<1>. DEFINE a == kf * FrameBlocksMax  b == kg * FrameBlocksMax
<1>6. a \in Nat /\ b \in Nat /\ a + FrameBlocksMax <= b /\ f.firstBlockIdx = a /\ g.firstBlockIdx = b
  BY <1>1, <1>4, <1>5
<1>. HIDE DEF a, b
<1>. QED  BY <1>2, <1>6

(* Read in frames and put together, the file is what one frame of all of   *)
(* it would be, and no two frames lie over each other                      *)
(* (readAllAsDataFrames; DataFile::readDataBlocksAsFrame).                 *)
THEOREM FramesMakeTheFile == Spec => []FramesReassemble
<1>1. ASSUME FlowInv PROVE FramesReassemble
  <2>. SUFFICES ASSUME AllRead, disturbed = {}
                PROVE  /\ getAllFramesDataAsVector(pushed).size
                            = totalSizeOfAllBlocks(serialResult(input))
                       /\ \A b \in 0 .. getAllFramesDataAsVector(pushed).size - 1 :
                            getAllFramesDataAsVector(pushed).bytes[b]
                              = serialResult(input).data[b]
                       /\ \A f, g \in pushed : f.firstBlockIdx < g.firstBlockIdx =>
                            f.firstBlockIdx + f.blocksCount <= g.firstBlockIdx
    BY DEF FramesReassemble, AllRead
  <2>. DEFINE total == ceilDevision(least, blockSize) * blockSize
              vector == getAllFramesDataAsVector(pushed)  serial == serialResult(input)
  <2>1. vector.size = total /\ \A b \in 0 .. total - 1 : vector.bytes[b] = Source[b]
    BY <1>1, VectorOfFrames
  <2>2. totalSizeOfAllBlocks(serial) = total /\ \A b \in 0 .. total - 1 : serial.data[b] = Source[b]
    BY <1>1, FrameOfAll
  <2>3. \A f, g \in pushed : f.firstBlockIdx < g.firstBlockIdx =>
          f.firstBlockIdx + f.blocksCount <= g.firstBlockIdx
    BY <1>1, FramesApart DEF FlowInv, TypeInv, Flow
  <2>. HIDE DEF total, vector, serial
  <2>. QED  BY <2>1, <2>2, <2>3 DEF vector, serial
<1>. QED  BY <1>1, FlowHolds, PTL

-----------------------------------------------------------------------------
(* What has become of the blocks read. *)

Signed == {b \in Nat : /\ writingPosShift + b < Content.size
                       /\ Content.bytes[writingPosShift + b] = Expected[b]}

Computed == work # None => work \in GoodWork

(* Main waits, or has waited, for all of it, and none that hands frames on *)
(* has failed.                                                             *)
Healthy ==
  stage \in {"run", "done"} /\ failed \cap {"calculator", "writer"} = {} /\ writer # "failing"

(* The output has been opened, and everything written went well. *)
Working == stage \in {"run", "done"} /\ "writer" \notin failed /\ writer \in {"busy", "done"}

(* Then every frame handed over is waiting, at work, or in the output. *)
Delivered ==
  Healthy =>
    \A k \in Nat : k < next =>
      \/ \E f \in queue : f.firstBlockIdx = k * FrameBlocksMax
      \/ work # None /\ work.in.firstBlockIdx = k * FrameBlocksMax
      \/ /\ writer \in {"busy", "done"}
         /\ \A j \in 0 .. FrameBlocksMax - 1 :
              k * FrameBlocksMax + j \in Settled => k * FrameBlocksMax + j \in Signed

LEMMA ComputedKept ==
  ASSUME TypeInv, SourceOK, Flow, Computed, IsRemainder, [Next]_vars
  PROVE  Computed'
<1>1. CASE MeasureInput
  BY <1>1, NothingToCut DEF Computed
<1>2. CASE ~MeasureInput
  <2>1. GoodWork \subseteq GoodWork'
    BY <1>2, CutKept, GoodWorkKept
  <2>2. CASE UNCHANGED work
    BY <2>1, <2>2 DEF Computed
  <2>3. CASE TakeFrame
    <3>1. PICK f \in queue :
            work' = [in |-> f, block |-> 0,
                     out |-> NewFrame(Config(f.firstBlockIdx, Crc8ResultSize, f.blocksCount))]
      BY <2>3 DEF TakeFrame
    <3>2. f \in GoodFrames /\ Control
      BY DEF Flow, TypeInv, FramesOK
    <3>3. work' \in GoodWork
      BY <3>1, <3>2, TakeGood
    <3>. QED  BY <2>1, <3>3 DEF Computed
  <2>4. CASE StoreCrc
    <3>1. work' \in GoodWork
      BY <2>4, StoreStep, StoreGood DEF Flow, Computed
    <3>. QED  BY <2>1, <3>1 DEF Computed
  <2>5. CASE Write \/ LeaveInQueue
    BY <2>5 DEF Write, LeaveInQueue, Computed
  <2>. QED
    BY <2>2, <2>3, <2>4, <2>5, FlowSteps DEF Read, Push, CalculationFails, Calculate, flow
<1>. QED  BY <1>1, <1>2

(* How main comes to wait for the tasks. *)
LEMMA RunSteps ==
  ASSUME TypeInv, [Next]_vars, stage' \in {"run", "done"}
  PROVE  MeasureInput \/ stage \in {"run", "done"}
<1>1. CASE UNCHANGED stage
  BY <1>1
<1>2. CASE getOpenModeForOutputFile \/ LookForOutput \/ MeasureOutput
  BY <1>2 DEF getOpenModeForOutputFile, LookForOutput, MeasureOutput
<1>3. CASE JoinThrows \/ Succeed \/ cleanup
  BY <1>3 DEF JoinThrows, Succeed, cleanup, Throw
<1>4. CASE CloseOutput
  BY <1>4 DEF CloseOutput
<1>5. ASSUME OpenInput \/ Read \/ Push \/ CloseInput \/ OpenOutput \/ TakeFrame
             \/ CalculationFails \/ Calculate \/ StoreCrc
      PROVE  UNCHANGED stage
  BY <1>5 DEF OpenInput, Read, Push, CloseInput, OpenOutput, TakeFrame, CalculationFails,
              Calculate, StoreCrc
<1>6. ASSUME Write \/ LeaveInQueue \/ ResizeInput \/ MeddleOutput \/ Terminated \/ UNCHANGED vars
      PROVE  UNCHANGED stage
  BY <1>6 DEF Write, LeaveInQueue, ResizeInput, MeddleOutput, Terminated, vars
<1>. QED  BY <1>1, <1>2, <1>3, <1>4, <1>5, <1>6 DEF Next

(* How it stays so. *)
LEMMA HealthySteps ==
  ASSUME TypeInv, [Next]_vars, Healthy', ~MeasureInput
  PROVE  Healthy /\ ~CalculationFails /\ ~LeaveInQueue
<1>0. TasksOK
  BY DEF TypeInv
<1>1. stage \in {"run", "done"} /\ failed \cap {"calculator", "writer"} = {}
  BY RunSteps, Decided DEF Healthy
<1>2. writer # "failing"
  <2>1. CASE OutputLeft
    BY <2>1 DEF OutputLeft, Healthy
  <2>2. CASE CloseOutput /\ writer' = "done"
    BY <2>2 DEF CloseOutput, Healthy
  <2>3. CASE CloseOutput /\ stage' = "aborted"
    BY <2>3 DEF Healthy
  <2>4. CASE MeddleOutput \/ OpenOutput \/ Write \/ cleanup
    BY <2>4 DEF MeddleOutput, OpenOutput, Write, cleanup, tasks, Healthy
  <2>. QED  BY <2>1, <2>2, <2>3, <2>4, OutputSteps
<1>3. ~CalculationFails
  BY DEF CalculationFails, Healthy
<1>4. ~LeaveInQueue
  BY <1>0, <1>1 DEF LeaveInQueue, Calculated, TasksOK, CalculationFinished
<1>. QED  BY <1>1, <1>2, <1>3, <1>4 DEF Healthy

LEMMA WorkingSteps ==
  ASSUME TypeInv, [Next]_vars, Working'
  PROVE  /\ scenario' = scenario /\ Expected' = Expected /\ writingPosShift' = writingPosShift
         /\ \/ OpenOutput /\ Out!Open(mode)
            \/ Working /\ Content' = Content
            \/ Working /\ Write /\ Out!writeDataFrame(work.out, writingPosShift)
<1>0. TasksOK /\ OutputOK /\ scenario' = scenario /\ failed \subseteq failed'
  BY Decided DEF TypeInv
<1>1. ~MeasureInput
  BY <1>0 DEF MeasureInput, Working, TasksOK
<1>2. stage \in {"run", "done"} /\ "writer" \notin failed
  BY <1>0, <1>1, RunSteps DEF Working
<1>3. UNCHANGED originalSize
  BY <1>2, Decided
<1>4. writingPosShift' = writingPosShift /\ Expected' = Expected
  BY <1>0, <1>3, ExpectedKept DEF writingPosShift
<1>5. CASE OutputLeft
  <2>1. Content' = Content
    BY <1>5 DEF OutputLeft, outVars, Content, Out!Flushed
  <2>2. writer \in {"busy", "done"}
    BY <1>5 DEF OutputLeft, Working
  <2>. QED  BY <1>0, <1>2, <1>4, <2>1, <2>2 DEF Working
<1>6. CASE MeddleOutput \/ (Write /\ writer' = "failing") \/ (CloseOutput /\ stage' = "aborted") \/ cleanup
  BY <1>2, <1>6 DEF MeddleOutput, cleanup, tasks, Working
<1>7. CASE OpenOutput /\ Out!Open(mode)
  BY <1>0, <1>4, <1>7
<1>8. CASE Write /\ Out!writeDataFrame(work.out, writingPosShift)
  BY <1>0, <1>2, <1>4, <1>8 DEF Write, Working
<1>9. CASE CloseOutput /\ Out!Close
  <2>1. Content' = Content
    BY <1>9 DEF Content, Out!Close, Out!Closed, Out!Flushed
  <2>2. writer = "busy"
    BY <1>9 DEF CloseOutput, Working
  <2>. QED  BY <1>0, <1>2, <1>4, <2>1, <2>2 DEF Working
<1>. QED  BY <1>5, <1>6, <1>7, <1>8, <1>9, OutputSteps

LEMMA WriteSigned ==
  ASSUME TypeInv, Computed, Working, Write, Out!writeDataFrame(work.out, writingPosShift),
         writingPosShift' = writingPosShift, Expected' = Expected
  PROVE  /\ Settled \cap Signed \subseteq Signed'
         /\ \A j \in 0 .. work.in.blocksCount - 1 :
              work.in.firstBlockIdx + j \in Settled => work.in.firstBlockIdx + j \in Signed'
<1>. DEFINE shift == writingPosShift  first == work.in.firstBlockIdx
            n == work.in.blocksCount  c == Content  w == Crcs  o == Overlay(c, w)
<1>1. work # None /\ work.block = n
  BY DEF Write, Calculated
<1>2. /\ w \in Writes /\ w.at = shift + first /\ w.size = n /\ w.bytes = work.out.data
      /\ shift \in Nat
  BY <1>1, CrcsType, ShiftType DEF TypeInv
<1>3. first \in Nat /\ n \in Nat /\ work \in GoodWork
  BY <1>1 DEF Computed, GoodWork, Work, MyFrame, Frame
<1>4. IsFile(output) /\ IsFile(c) /\ c.size \in Nat
  <2>1. IsFile(output)
    BY DEF TypeInv, OutputOK, Working, Out!writeDataFrame
  <2>2. IsFile(c)
    BY <2>1, ContentIsFile DEF TypeInv
  <2>. QED  BY <2>1, <2>2 DEF IsFile
<1>5. Content' = o
  BY <1>4, WriteStep
<1>. HIDE DEF shift, first, n, c, w
<1>6. /\ c.size <= o.size /\ o.size \in Nat
      /\ \A b \in 0 .. c.size - 1 : b < w.at \/ b >= w.at + w.size => o.bytes[b] = c.bytes[b]
      /\ \A b \in 0 .. w.size - 1 : w.at + b < o.size /\ o.bytes[w.at + b] = w.bytes[b]
  <2>1. IsFile(c) /\ w \in Writes /\ w.size \in Nat
    BY <1>2, <1>3, <1>4
  <2>2. /\ IsFile(o) /\ c.size <= o.size
        /\ \A b \in 0 .. c.size - 1 : b < w.at \/ b >= w.at + w.size => o.bytes[b] = c.bytes[b]
        /\ \A b \in 0 .. w.size - 1 : w.at + b < o.size /\ o.bytes[w.at + b] = w.bytes[b]
    BY <2>1, OverlayIsFile
  <2>. QED  BY <2>2 DEF IsFile
<1>. HIDE DEF o
<1>7. \A b \in Nat : shift + b < o.size /\ o.bytes[shift + b] = Expected[b] => b \in Signed'
  <2>1. \A b \in Nat : b \in Signed' <=> /\ writingPosShift' + b < Content'.size
                                         /\ Content'.bytes[writingPosShift' + b] = Expected'[b]
    BY DEF Signed
  <2>. QED  BY <1>5, <2>1 DEF shift
<1>8. ASSUME NEW j \in 0 .. n - 1, first + j \in Settled PROVE first + j \in Signed'
  <2>1. w.bytes[j] = Expected[first + j]
    <3>1. j \in 0 .. work.block - 1
      BY <1>1, <1>8
    <3>2. work.out.data[j] = Expected[work.in.firstBlockIdx + j]
      BY <1>3, <1>8, <3>1 DEF GoodWork, first
    <3>. QED  BY <1>2, <3>2 DEF first
  <2>2. shift + (first + j) = w.at + j /\ first + j \in Nat /\ j \in 0 .. w.size - 1
    BY <1>2, <1>3
  <2>3. w.at + j < o.size /\ o.bytes[w.at + j] = w.bytes[j]
    BY <1>6, <2>2
  <2>. QED  BY <1>7, <2>1, <2>2, <2>3
<1>9. ASSUME NEW b \in Settled \cap Signed PROVE b \in Signed'
  <2>1. b \in Nat /\ shift + b < c.size /\ c.bytes[shift + b] = Expected[b]
    BY DEF Signed, shift, c
  <2>2. CASE first <= b /\ b < first + n
    <3>1. b - first \in 0 .. n - 1 /\ first + (b - first) = b
      BY <1>3, <2>1, <2>2
    <3>. QED  BY <1>8, <3>1
  <2>3. CASE b < first \/ b >= first + n
    <3>1. /\ shift + b \in 0 .. c.size - 1
          /\ shift + b < w.at \/ shift + b >= w.at + w.size
      BY <1>2, <1>3, <1>4, <2>1, <2>3
    <3>2. o.bytes[shift + b] = c.bytes[shift + b]
      BY <1>6, <3>1
    <3>3. shift + b < o.size
      BY <1>2, <1>4, <1>6, <2>1
    <3>. QED  BY <1>7, <2>1, <3>2, <3>3
  <2>. QED  BY <1>3, <2>1, <2>2, <2>3
<1>. QED  BY <1>8, <1>9 DEF first, n

LEMMA DeliveredKept ==
  ASSUME TypeInv, SourceOK, Flow, Computed, Delivered, [Next]_vars
  PROVE  Delivered'
<1>. DEFINE Written(k) == \A j \in 0 .. FrameBlocksMax - 1 :
                            k * FrameBlocksMax + j \in Settled => k * FrameBlocksMax + j \in Signed
            Goal(k) == \/ \E f \in queue' : f.firstBlockIdx = k * FrameBlocksMax
                       \/ work' # None /\ work'.in.firstBlockIdx = k * FrameBlocksMax
                       \/ /\ writer' \in {"busy", "done"}
                          /\ \A j \in 0 .. FrameBlocksMax - 1 :
                               k * FrameBlocksMax + j \in Settled'
                                 => k * FrameBlocksMax + j \in Signed'
<1>. SUFFICES ASSUME Healthy' PROVE Delivered'
  BY DEF Delivered
<1>0. FramesOK /\ Control /\ TasksOK /\ Settled' \subseteq Settled
  BY SettledKept DEF TypeInv
<1>1. CASE MeasureInput
  <2>1. \A k \in Nat : ~(k < next')
    BY <1>1, NothingToCut
  <2>. QED  BY <2>1 DEF Delivered
<1>2. CASE ~MeasureInput
  <2>1. FrameBlocksMax' = FrameBlocksMax
    BY <1>2, CutKept
  <2>2. Healthy /\ ~CalculationFails /\ ~LeaveInQueue
    BY <1>2, HealthySteps
  <2>3. ASSUME NEW k \in Nat, k < next
        PROVE  \/ \E f \in queue : f.firstBlockIdx = k * FrameBlocksMax
               \/ work # None /\ work.in.firstBlockIdx = k * FrameBlocksMax
               \/ writer \in {"busy", "done"} /\ Written(k)
    BY <2>2, <2>3 DEF Delivered
  <2>4. ASSUME NEW k \in Nat, \E f \in queue : f.firstBlockIdx = k * FrameBlocksMax
        PROVE  Goal(k)
    <3>1. CASE queue \subseteq queue'
      BY <2>4, <3>1
    <3>2. CASE TakeFrame
      <4>1. PICK f \in queue :
              /\ queue' = queue \ {f}
              /\ work' = [in |-> f, block |-> 0,
                          out |-> NewFrame(Config(f.firstBlockIdx, Crc8ResultSize, f.blocksCount))]
        BY <3>2 DEF TakeFrame
      <4>2. f \in GoodFrames
        BY <1>0 DEF Flow, FramesOK
      <4>3. work' \in Work /\ work'.in = f
        BY <1>0, <4>1, <4>2, TakeGood DEF GoodWork
      <4>4. work' # None
        BY <4>2, <4>3, WorkIsNotNone
      <4>. QED  BY <2>4, <4>1, <4>3, <4>4
    <3>3. CASE Read \/ Push \/ Calculate \/ StoreCrc \/ Write
      BY <2>4, <3>3 DEF Read, Push, Calculate, StoreCrc, Write, flow
    <3>. QED  BY <2>2, <3>1, <3>2, <3>3, FlowSteps
  <2>5. ASSUME NEW k \in Nat, work # None, work.in.firstBlockIdx = k * FrameBlocksMax
        PROVE  Goal(k)
    <3>1. CASE UNCHANGED work
      BY <2>5, <3>1
    <3>2. CASE StoreCrc
      <4>1. work' \in Work /\ work'.in = work.in /\ work.in \in GoodFrames
        BY <2>5, <3>2, StoreStep DEF HasStored, Flow
      <4>2. work' # None
        BY <4>1, WorkIsNotNone
      <4>. QED  BY <2>5, <4>1, <4>2
    <3>3. CASE Write
      <4>1. writer = "busy" /\ writer' # "failing" /\ UNCHANGED <<stage, failed>>
        BY <3>3 DEF Write, Healthy
      <4>2. Working /\ Working' /\ writer' = "busy"
        BY <2>2, <3>3, <4>1 DEF Working, Healthy, Write
      <4>3. /\ Out!writeDataFrame(work.out, writingPosShift)
            /\ writingPosShift' = writingPosShift /\ Expected' = Expected
        BY <3>3, <4>1, <4>2, WorkingSteps DEF Write
      <4>4. \A j \in 0 .. work.in.blocksCount - 1 :
              work.in.firstBlockIdx + j \in Settled => work.in.firstBlockIdx + j \in Signed'
        BY <3>3, <4>2, <4>3, WriteSigned
      <4>5. work.in \in GoodFrames
        BY <2>5 DEF Flow
      <4>6. \A j \in 0 .. FrameBlocksMax - 1 :
              work.in.firstBlockIdx + j \in Settled => j < work.in.blocksCount
        BY <4>5 DEF GoodFrames
      <4>7. work.in.blocksCount \in Nat /\ FrameBlocksMax \in Nat
        BY <1>0, <4>5, ConfigType DEF GoodFrames, MyFrame, Frame
      <4>8. \A j \in 0 .. FrameBlocksMax - 1 :
              work.in.firstBlockIdx + j \in Settled => work.in.firstBlockIdx + j \in Signed'
        BY <4>4, <4>6, <4>7
      <4>. QED  BY <1>0, <2>5, <4>2, <4>8
    <3>4. ~TakeFrame
      BY <2>5 DEF TakeFrame
    <3>5. CASE Read \/ Push \/ Calculate
      BY <3>1, <3>5 DEF Read, Push, Calculate, flow
    <3>. QED  BY <2>2, <3>1, <3>2, <3>3, <3>4, <3>5, FlowSteps
  <2>6. ASSUME NEW k \in Nat, writer \in {"busy", "done"}, Written(k) PROVE Goal(k)
    <3>1. Working /\ Working'
      <4>1. Working
        BY <2>2, <2>6 DEF Working, Healthy
      <4>2. writer' \in {"busy", "done"}
        BY <2>6, OutputSteps
        DEF Healthy, OutputLeft, MeddleOutput, OpenOutput, CloseOutput, cleanup, tasks
      <4>. QED  BY <4>1, <4>2 DEF Working, Healthy
    <3>2. Settled \cap Signed \subseteq Signed'
      <4>1. CASE Content' = Content
        BY <3>1, <4>1, WorkingSteps DEF Signed
      <4>2. CASE Write /\ Out!writeDataFrame(work.out, writingPosShift)
        BY <3>1, <4>2, WorkingSteps, WriteSigned
      <4>3. ~OpenOutput
        BY <2>6 DEF OpenOutput
      <4>. QED  BY <3>1, <4>1, <4>2, <4>3, WorkingSteps
    <3>. QED  BY <1>0, <2>6, <3>1, <3>2 DEF Working
  <2>7. ASSUME NEW k \in Nat, k < next PROVE Goal(k)
    BY <2>3, <2>4, <2>5, <2>6, <2>7
  <2>8. CASE next' = next
    BY <2>1, <2>7, <2>8 DEF Delivered
  <2>9. CASE Push
    <3>1. /\ inFrame \in GoodFrames /\ inFrame.firstBlockIdx = next * FrameBlocksMax
          /\ queue' = queue \cup {IF scenario.copies THEN CopyOf(inFrame) ELSE inFrame}
          /\ next' = next + 1 /\ next \in Nat
      BY <1>0, <2>9 DEF Push, Flow, Control
    <3>2. CopyOf(inFrame).firstBlockIdx = inFrame.firstBlockIdx
      BY <1>0, <3>1, CopyGood
    <3>3. Goal(next)
      BY <3>1, <3>2
    <3>4. ASSUME NEW k \in Nat, k < next' PROVE Goal(k)
      <4>1. k < next \/ k = next
        BY <3>1, <3>4
      <4>. QED  BY <2>7, <3>3, <4>1
    <3>. QED  BY <2>1, <3>4 DEF Delivered
  <2>. QED  BY <2>8, <2>9, PushSteps
<1>. QED  BY <1>1, <1>2

SignedInv == FlowInv /\ Computed /\ Delivered

LEMMA SignedHolds == Spec => []SignedInv
<1>1. Init => Computed /\ Delivered
  BY DEF Init, Computed, Delivered
<1>2. FlowInv /\ Computed /\ Delivered /\ IsRemainder /\ [Next]_vars => (Computed /\ Delivered)'
  BY ComputedKept, DeliveredKept DEF FlowInv
<1>. QED  BY <1>1, <1>2, FlowHolds, ChecksumsAreRemainders, PTL DEF Spec, SignedInv


LEMMA SettledIsSigned ==
  ASSUME SignedInv, stage = "done"
  PROVE  Settled \subseteq Signed /\ Content = output
<1>1. /\ Control /\ OutputOK /\ SourceOK /\ Delivered /\ Complete
      /\ CalculationFinished /\ writer = "done" /\ failed = {} /\ reader # "idle"
  BY DEF SignedInv, FlowInv, TypeInv, TasksOK
<1>2. ASSUME NEW b \in Settled PROVE b \in Signed
  <2>1. b \in Nat /\ b * blockSize < fileSize
    BY <1>1, SettledIsMeasured
  <2>2. PICK k \in Nat, j \in 0 .. FrameBlocksMax - 1 :
          /\ k < dataFramesInFile(fileSize, blockSize, OptimalDataFrameSize)
          /\ b = k * FrameBlocksMax + j
    BY <1>1, <2>1, FrameOfBlock
  <2>3. k < next
    <3>. DEFINE m == dataFramesInFile(fileSize, blockSize, OptimalDataFrameSize)
    <3>1. next >= m /\ next \in Nat /\ m \in Int
      BY <1>1, CountType DEF Complete, CalculationFinished, Control
    <3>. HIDE DEF m
    <3>. QED  BY <2>2, <3>1 DEF m
  <2>4. queue = {} /\ work = None /\ Healthy
    BY <1>1 DEF CalculationFinished, Healthy
  <2>. QED  BY <1>1, <1>2, <2>2, <2>3, <2>4 DEF Delivered
<1>3. outStream.mode = "closed" /\ outStream.pending = None
  BY <1>1 DEF OutputOK
<1>4. Content = output
  BY <1>3 DEF Content, Out!Flushed
<1>. QED  BY <1>2, <1>4

(* In every run that succeeds, each block that the input has had all the   *)
(* time has its checksum at its place, whatever others do to the files, in *)
(* whatever order the frames are taken (datafilewrapper.cpp,               *)
(* crcsignatureoffile.cpp).                                                *)
THEOREM StableBlocksAreSigned == Spec => []WhatStaysIsSigned
<1>1. ASSUME SignedInv PROVE WhatStaysIsSigned
  <2>. SUFFICES ASSUME stage = "done", NEW block \in 0 .. (least \div blockSize) - 1
                PROVE  /\ writingPosShift + block < output.size
                       /\ output.bytes[writingPosShift + block] = ExpectedCrc(scenario.input, block)
    BY DEF WhatStaysIsSigned
  <2>1. least \in Nat /\ blockSize \in Nat \ {0}
    BY <1>1, BlockSizeType DEF SignedInv, FlowInv, TypeInv, Control
  <2>. DEFINE q == least \div blockSize
  <2>2. q \in Nat /\ q * blockSize <= least
    <3>1. q \in Nat /\ least % blockSize \in Nat /\ least = q * blockSize + (least % blockSize)
      BY <2>1, DivMod
    <3>. DEFINE x == q * blockSize  r == least % blockSize
    <3>2. x \in Nat
      BY <2>1, <3>1
    <3>. HIDE DEF q, x, r
    <3>3. x <= least
      BY <3>1, <3>2 DEF x, r
    <3>. QED  BY <3>1, <3>3 DEF x
  <2>. HIDE DEF q
  <2>3. block \in Nat /\ block + 1 <= q
    BY <2>2 DEF q
  <2>4. (block + 1) * blockSize <= q * blockSize
    BY <2>1, <2>2, <2>3, MulMonotone
  <2>5. (block + 1) * blockSize <= least
    BY <2>1, <2>2, <2>3, <2>4
  <2>6. block \in Settled
    BY <2>3, <2>5 DEF Settled
  <2>7. block \in Signed /\ Content = output
    BY <1>1, <2>6, SettledIsSigned
  <2>. QED  BY <2>3, <2>7 DEF Signed, Expected
<1>. QED  BY <1>1, SignedHolds, PTL

-----------------------------------------------------------------------------
(* A run without disturbance. *)

(* Behind the old content there is only what belongs to settled blocks. *)
Extent ==
  Working /\ disturbed = {} =>
    /\ IsFile(Content) /\ writingPosShift <= Content.size
    /\ \A p \in 0 .. Content.size - 1 : writingPosShift <= p => p - writingPosShift \in Settled

LEMMA ShiftIsOldSize ==
  ASSUME RInv, "output" \notin disturbed, stage \notin Unmeasured
  PROVE  IsFile(Before) /\ writingPosShift = Before.size
<1>1. originalSize = IF scenario.original = NoFile THEN None ELSE scenario.original.size
  BY DEF RInv, Restorable
<1>2. scenario.original = NoFile \/ IsFile(scenario.original)
  BY OriginalType DEF RInv, TypeInv
<1>3. CASE scenario.original = NoFile
  BY <1>1, <1>3, EmptyIsFile DEF Before, writingPosShift
<1>4. CASE scenario.original # NoFile
  <2>1. Before = scenario.original /\ IsFile(scenario.original) /\ originalSize = scenario.original.size
    BY <1>1, <1>2, <1>4 DEF Before
  <2>2. originalSize # None
    BY <2>1, NoneAssumption DEF IsFile
  <2>. QED  BY <2>1, <2>2 DEF writingPosShift
<1>. QED  BY <1>3, <1>4

(* Where a frame of checksums ends, a settled block ends, so that not even *)
(* a gap before it lies behind the settled blocks.                         *)
LEMMA WriteExtends ==
  ASSUME FlowInv, Extent, Working, disturbed = {}, work # None
  PROVE  /\ IsFile(Overlay(Content, Crcs)) /\ writingPosShift <= Overlay(Content, Crcs).size
         /\ \A p \in 0 .. Overlay(Content, Crcs).size - 1 :
              writingPosShift <= p => p - writingPosShift \in Settled
<1>. DEFINE c == Content  w == Crcs  o == Overlay(c, w)  shift == writingPosShift
            first == work.in.firstBlockIdx  n == work.in.blocksCount
            m == ceilDevision(least, blockSize)
<1>1. /\ w \in Writes /\ w.at = shift + first /\ w.size = n /\ shift \in Nat
  BY CrcsType, ShiftType DEF FlowInv, TypeInv
<1>2. work.in \in GoodFrames
  BY DEF FlowInv, Flow
<1>3. first \in Nat /\ n \in Nat
  BY <1>2 DEF GoodFrames, MyFrame, Frame
<1>4. m \in Nat /\ Settled = 0 .. m - 1
  BY SettledUndisturbed DEF FlowInv, TypeInv
<1>5. \A j \in 0 .. n - 1 : first + j \in Settled
  BY <1>2 DEF GoodFrames
<1>6. /\ IsFile(c) /\ shift <= c.size
      /\ \A p \in 0 .. c.size - 1 : shift <= p => p - shift \in Settled
  BY DEF Extent
<1>7. c.size \in Nat
  BY <1>6 DEF IsFile
<1>8. /\ IsFile(o) /\ c.size <= o.size
      /\ w.size = 0 => o = c
      /\ w.size # 0 => o.size = Greatest(c.size, w.at + w.size)
  BY <1>1, <1>6, OverlayIsFile
<1>9. o.size \in Nat
  BY <1>8 DEF IsFile
<1>. HIDE DEF c, w, o, shift, first, n, m
<1>10. shift <= o.size
  BY <1>1, <1>6, <1>7, <1>8, <1>9
<1>11. ASSUME NEW p \in 0 .. o.size - 1, shift <= p PROVE p - shift \in Settled
  <2>1. CASE p < c.size
    <3>1. p \in 0 .. c.size - 1
      BY <1>7, <1>9, <2>1
    <3>. QED  BY <1>6, <1>11, <3>1
  <2>2. CASE ~(p < c.size)
    <3>1. n # 0
      BY <1>1, <1>7, <1>8, <1>9, <2>2
    <3>2. o.size = c.size \/ o.size = shift + first + n
      BY <1>1, <1>8, <3>1 DEF Greatest
    <3>3. p < shift + first + n
      BY <1>1, <1>3, <1>7, <1>9, <2>2, <3>2
    <3>4. first + (n - 1) < m
      <4>1. n - 1 \in 0 .. n - 1
        BY <1>3, <3>1
      <4>2. first + (n - 1) \in 0 .. m - 1
        BY <1>4, <1>5, <4>1
      <4>. QED  BY <1>3, <1>4, <4>2
    <3>5. p - shift \in 0 .. m - 1
      BY <1>1, <1>3, <1>4, <1>9, <1>11, <3>3, <3>4
    <3>. QED  BY <1>4, <3>5
  <2>. QED  BY <2>1, <2>2
<1>. QED  BY <1>8, <1>10, <1>11 DEF o, c, w, shift

LEMMA ExtentKept ==
  ASSUME FlowInv, RInv, Extent, [Next]_vars
  PROVE  Extent'
<1>. SUFFICES ASSUME Working', disturbed' = {}
              PROVE  /\ IsFile(Content') /\ writingPosShift' <= Content'.size
                     /\ \A p \in 0 .. Content'.size - 1 :
                          writingPosShift' <= p => p - writingPosShift' \in Settled'
  BY DEF Extent
<1>0. TypeInv /\ Control /\ OutputOK /\ SourceOK /\ TasksOK
  BY DEF FlowInv, TypeInv
<1>1. /\ disturbed = {} /\ Settled' = Settled /\ writingPosShift' = writingPosShift
  BY <1>0, Decided, SettledKept, WorkingSteps
<1>2. CASE OpenOutput /\ Out!Open(mode)
  <2>1. writer = "posted" /\ stage \notin Unmeasured
    BY <1>0, <1>2 DEF OpenOutput, TasksOK, Unmeasured
  <2>2. IsFile(Before) /\ writingPosShift = Before.size /\ Before.size \in Nat
    BY <1>1, <2>1, ShiftIsOldSize DEF IsFile
  <2>3. /\ output = scenario.original /\ (mode = "out" <=> scenario.original = NoFile)
    BY <1>1, <2>1 DEF RInv, Restorable, Unmeasured
  <2>4. output' = Before
    BY <1>2, <2>3, SharedByOutput DEF Out!Open, Before
  <2>5. outStream'.pending = None
    BY <1>2 DEF Out!Open, Out!Closed
  <2>6. Content' = Before
    BY <2>4, <2>5 DEF Content, Out!Flushed
  <2>. QED  BY <1>1, <2>2, <2>6
<1>3. CASE Working /\ Content' = Content
  BY <1>1, <1>3 DEF Extent
<1>4. CASE Working /\ Write /\ Out!writeDataFrame(work.out, writingPosShift)
  <2>1. work # None
    BY <1>4 DEF Write, Calculated
  <2>2. IsFile(output)
    BY <1>0, <1>4 DEF OutputOK, Working, Out!writeDataFrame
  <2>3. Content' = Overlay(Content, Crcs)
    BY <1>0, <1>4, <2>2, WriteStep
  <2>. QED  BY <1>1, <1>4, <2>1, <2>3, WriteExtends
<1>. QED  BY <1>0, <1>2, <1>3, <1>4, WorkingSteps

(* The signature behind the old content, byte by byte. *)
LEMMA OutputIsSerial ==
  ASSUME SignedInv, RInv, Extent, stage = "done", disturbed = {}
  PROVE  output = Overlay(Before, [simpleCalculateCrcSignatureOfFile(scenario.input)
                                     EXCEPT !.at = Before.size])
<1>. DEFINE n == ceilDevision(least, blockSize)  old == Before  out == output
            sums == [block \in 0 .. n - 1 |-> ExpectedCrc(scenario.input, block)]
            sig == [at |-> Before.size, size |-> n, bytes |-> sums]
            o == Overlay(old, sig)
<1>0. /\ Control /\ SourceOK /\ SameSource /\ TasksOK /\ Working /\ stage \notin Unmeasured
  BY DEF SignedInv, FlowInv, TypeInv, TasksOK, SourceOK, Working, Unmeasured
<1>1. least = scenario.input.size
  BY <1>0 DEF SameSource
<1>2. [simpleCalculateCrcSignatureOfFile(scenario.input) EXCEPT !.at = Before.size] = sig
  <2>1. simpleCalculateCrcSignatureOfFile(scenario.input) = [at |-> 0, size |-> n, bytes |-> sums]
    BY <1>1, Zenon DEF simpleCalculateCrcSignatureOfFile
  <2>. HIDE DEF n, sums
  <2>. QED  BY <2>1
<1>3. n \in Nat /\ Settled = 0 .. n - 1
  BY <1>0, SettledUndisturbed
<1>4. IsFile(old) /\ old.size \in Nat /\ writingPosShift = old.size
  BY <1>0, ShiftIsOldSize DEF IsFile
<1>5. Settled \subseteq Signed /\ Content = out
  BY SettledIsSigned
<1>6. /\ IsFile(out) /\ out.size \in Nat /\ old.size <= out.size
      /\ \A p \in 0 .. out.size - 1 : old.size <= p => p - old.size \in Settled
  BY <1>0, <1>4, <1>5 DEF Extent, IsFile
<1>7. ASSUME NEW b \in 0 .. n - 1
      PROVE  /\ old.size + b \in 0 .. out.size - 1
             /\ out.bytes[old.size + b] = ExpectedCrc(scenario.input, b)
  <2>1. b \in Signed /\ b \in Nat
    BY <1>3, <1>5, <1>7
  <2>2. old.size + b < out.size /\ out.bytes[old.size + b] = Expected[b]
    BY <1>4, <1>5, <2>1 DEF Signed
  <2>3. old.size + b \in 0 .. out.size - 1
    BY <1>4, <1>6, <2>1, <2>2
  <2>. QED  BY <2>1, <2>2, <2>3 DEF Expected
<1>8. \A b \in 0 .. old.size - 1 : out.bytes[b] = old.bytes[b]
  <2>1. CASE scenario.original = NoFile
    <3>1. old.size = 0
      BY <2>1, EmptyIsFile DEF Before
    <3>. QED  BY <3>1
  <2>2. CASE scenario.original # NoFile
    <3>1. old = scenario.original
      BY <2>2 DEF Before
    <3>2. KeepsOld(out)
      BY <2>2 DEF RInv, Restorable
    <3>. QED  BY <3>1, <3>2 DEF KeepsOld
  <2>. QED  BY <2>1, <2>2
<1>9. sig \in Writes
  <2>1. \A b \in 0 .. n - 1 : sums[b] \in 0 .. 255
    BY <1>6, <1>7 DEF IsFile
  <2>2. sums \in [0 .. n - 1 -> 0 .. 255]
    BY <2>1
  <2>. HIDE DEF sums, n
  <2>3. sums \in Data
    BY <1>3, <2>2 DEF Data
  <2>. QED  BY <1>3, <1>4, <2>2, <2>3 DEF Writes
<1>10. sig.at = old.size /\ sig.size = n /\ sig.bytes = sums
  OBVIOUS
<1>11. \A b \in 0 .. n - 1 : sums[b] = ExpectedCrc(scenario.input, b)
  OBVIOUS
<1>. HIDE DEF n, sums, old, out, sig
<1>12. /\ IsFile(o)
       /\ sig.size = 0 => o = old
       /\ sig.size # 0 => o.size = Greatest(old.size, sig.at + sig.size)
       /\ \A b \in 0 .. old.size - 1 : b < sig.at \/ b >= sig.at + sig.size
                                        => o.bytes[b] = old.bytes[b]
       /\ \A b \in 0 .. sig.size - 1 : o.bytes[sig.at + b] = sig.bytes[b]
  BY <1>4, <1>9, OverlayIsFile
<1>. HIDE DEF o
<1>13. o.size = old.size + n
  BY <1>3, <1>4, <1>10, <1>12 DEF Greatest
<1>14. out.size = old.size + n
  <2>1. CASE out.size > old.size + n
    <3>1. old.size + n \in 0 .. out.size - 1 /\ (old.size + n) - old.size = n
      BY <1>3, <1>4, <1>6, <2>1
    <3>2. n \in 0 .. n - 1
      BY <1>3, <1>4, <1>6, <3>1, SMTT(30)
    <3>. QED  BY <1>3, <3>2
  <2>2. CASE out.size < old.size + n
    <3>1. n - 1 \in 0 .. n - 1
      BY <1>3, <1>4, <1>6, <2>2
    <3>2. old.size + (n - 1) \in 0 .. out.size - 1
      BY <1>7, <3>1
    <3>. QED  BY <1>3, <1>4, <1>6, <2>2, <3>2
  <2>. QED  BY <1>3, <1>4, <1>6, <2>1, <2>2
<1>15. ASSUME NEW b \in 0 .. out.size - 1 PROVE out.bytes[b] = o.bytes[b]
  <2>1. CASE b < old.size
    <3>1. b \in 0 .. old.size - 1 /\ b < sig.at
      BY <1>4, <1>6, <1>10, <2>1
    <3>. QED  BY <1>8, <1>12, <3>1
  <2>2. CASE ~(b < old.size)
    <3>1. b - old.size \in 0 .. n - 1 /\ old.size + (b - old.size) = b
      BY <1>3, <1>4, <1>6, <1>14, <2>2
    <3>2. out.bytes[b] = ExpectedCrc(scenario.input, b - old.size)
      BY <1>7, <3>1
    <3>3. o.bytes[b] = sums[b - old.size]
      BY <1>10, <1>12, <3>1
    <3>. QED  BY <1>11, <3>1, <3>2, <3>3
  <2>. QED  BY <2>1, <2>2
<1>16. out = o
  BY <1>6, <1>12, <1>13, <1>14, <1>15, SameFile
<1>. QED  BY <1>2, <1>16 DEF o, old, out

(* With nobody in the way, a run that succeeds leaves its output with the  *)
(* old content and behind it the signature of the simple algorithm, and    *)
(* nothing else: however long the input, however it is cut into frames and *)
(* in whatever order these are taken (readCalculateAndWrite in             *)
(* crcsignatureoffile.cpp).                                                *)
THEOREM ResultIsSerial == Spec => []SerialSignature
<1>1. Init => Extent
  BY DEF Init, Extent, Working
<1>2. FlowInv /\ RInv /\ Extent /\ [Next]_vars => Extent'
  BY ExtentKept
<1>3. SignedInv /\ RInv /\ Extent => SerialSignature
  BY OutputIsSerial DEF SerialSignature
<1>4. Spec => []Extent
  BY <1>1, <1>2, FlowHolds, RestorableHolds, PTL DEF Spec
<1>. QED  BY <1>3, <1>4, SignedHolds, RestorableHolds, PTL
=============================================================================
