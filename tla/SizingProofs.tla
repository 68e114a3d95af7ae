---------------------------- MODULE SizingProofs ----------------------------
(***************************************************************************)
(* What the arithmetic of Sizing guarantees for inputs of any size.        *)
(***************************************************************************)
EXTENDS Sizing, TLAPS

(* Multiplication by a natural number keeps the order. *)
LEMMA MulMonotone ==
  ASSUME NEW a \in Int, NEW b \in Int, NEW c \in Nat, a <= b
  PROVE  a * c <= b * c
BY SMTT(30)

LEMMA DivMod ==
  ASSUME NEW a \in Nat, NEW b \in Nat \ {0}
  PROVE  /\ a \div b \in Nat
         /\ a % b \in 0 .. b - 1
         /\ a = (a \div b) * b + (a % b)
<1>1. a \div b \in Nat /\ a % b \in 0 .. b - 1
  BY SMTT(30)
<1>2. a = (a \div b) * b + (a % b)
  BY SMTT(30)
<1>. QED  BY <1>1, <1>2

(* ceilDevision(a, b) is the least number of parts of size b that hold a. *)
LEMMA CeilBounds ==
  ASSUME NEW a \in Nat, NEW b \in Nat \ {0}
  PROVE  /\ ceilDevision(a, b) \in Nat
         /\ a <= ceilDevision(a, b) * b
         /\ (ceilDevision(a, b) - 1) * b < a
<1>. DEFINE q == a \div b  r == a % b
<1>1. q \in Nat /\ r \in 0 .. b - 1 /\ a = q * b + r
  BY DivMod
<1>2. q * b \in Nat /\ (q + 1) * b = q * b + b /\ (q - 1) * b = q * b - b
  BY <1>1
<1>3. CASE r = 0
  <2>1. ceilDevision(a, b) = q
    BY <1>1, <1>3 DEF ceilDevision
  <2>. QED  BY <1>1, <1>2, <1>3, <2>1
<1>4. CASE r # 0
  <2>1. ceilDevision(a, b) = q + 1
    BY <1>1, <1>4 DEF ceilDevision
  <2>2. (q + 1) - 1 = q
    BY <1>1
  <2>. QED  BY <1>1, <1>2, <1>4, <2>1, <2>2
<1>. QED  BY <1>3, <1>4

(* ... and the only number with these bounds. *)
LEMMA CeilUnique ==
  ASSUME NEW a \in Nat, NEW b \in Nat \ {0}, NEW n \in Int,
         a <= n * b, (n - 1) * b < a
  PROVE  ceilDevision(a, b) = n
<1>. DEFINE q == ceilDevision(a, b)
<1>1. q \in Nat /\ a <= q * b /\ (q - 1) * b < a
  BY CeilBounds
<1>. HIDE DEF q
<1>2. ~ (n < q)
  <2>. SUFFICES ASSUME n < q PROVE FALSE
    OBVIOUS
  <2>1. n <= q - 1 /\ n * b \in Int /\ (q - 1) * b \in Int
    BY <1>1
  <2>2. n * b <= (q - 1) * b
    BY <1>1, <2>1, MulMonotone
  <2>. QED  BY <1>1, <2>1, <2>2
<1>3. ~ (q < n)
  <2>. SUFFICES ASSUME q < n PROVE FALSE
    OBVIOUS
  <2>1. q <= n - 1 /\ q * b \in Int /\ (n - 1) * b \in Int
    BY <1>1
  <2>2. q * b <= (n - 1) * b
    BY <1>1, <2>1, MulMonotone
  <2>. QED  BY <1>1, <2>1, <2>2
<1>4. q = n
  BY <1>1, <1>2, <1>3
<1>. QED  BY <1>4 DEF q

-----------------------------------------------------------------------------
(* On every machine the pool has a thread left for calculating when all    *)
(* readers and the writer run: the assertion of line 65 cannot fail, so    *)
(* builds without assertions lose nothing.                                 *)
THEOREM ThreadBudgetAlways ==
  \A hardwareConcurrency \in Nat, isSSD \in BOOLEAN :
    readTasksCnt(hardwareConcurrency, isSSD) + 1 < getThreadCnt(hardwareConcurrency)
<1>. TAKE hardwareConcurrency \in Nat, isSSD \in BOOLEAN
<1>. DEFINE t == getThreadCnt(hardwareConcurrency)
<1>1. t \in Nat /\ t >= 3
  BY DEF getThreadCnt, Greatest
<1>. HIDE DEF t
<1>2. ceilDevision(t, 4) + 1 < t
  BY <1>1 DEF ceilDevision
<1>. QED  BY <1>1, <1>2 DEF readTasksCnt, t

(* At least one task calculates, so every queue has a consumer (the        *)
(* assertions of readAllAsDataFrames and calculateForWholeQueue).          *)
THEOREM TaskCountsPositive ==
  \A hardwareConcurrency \in Nat, isSSD \in BOOLEAN :
    /\ readTasksCnt(hardwareConcurrency, isSSD) \in Nat \ {0}
    /\ crcCaclulationTasksCnt(hardwareConcurrency) \in Nat \ {0}
<1>. TAKE hardwareConcurrency \in Nat, isSSD \in BOOLEAN
<1>. DEFINE t == getThreadCnt(hardwareConcurrency)
<1>1. t \in Nat /\ t >= 3
  BY DEF getThreadCnt, Greatest
<1>. HIDE DEF t
<1>2. ceilDevision(t, 4) \in Nat \ {0} /\ ceilDevision(t * 3, 4) \in Nat \ {0}
  BY <1>1 DEF ceilDevision
<1>. QED  BY <1>2 DEF readTasksCnt, crcCaclulationTasksCnt, t

-----------------------------------------------------------------------------
(* The sizes of a file that is not empty, under short names. *)
Cut(fs, bs, opt, n, k, m) ==
  /\ fs \in Nat \ {0} /\ bs \in Nat \ {0} /\ opt \in Nat \ {0}
  /\ n = dataBlocksInFile(fs, bs)
  /\ k = dataBlocksInFrame(fs, bs, opt)
  /\ m = dataFramesInFile(fs, bs, opt)

LEMMA CutTypes ==
  ASSUME NEW fs, NEW bs, NEW opt, NEW n, NEW k, NEW m, Cut(fs, bs, opt, n, k, m)
  PROVE  /\ n \in Nat \ {0} /\ k \in Nat \ {0} /\ m \in Nat \ {0}
         /\ fs <= n * bs /\ (n - 1) * bs < fs
         /\ n <= m * k /\ (m - 1) * k < n
<1>. USE DEF Cut
<1>1. /\ n \in Nat /\ fs <= n * bs /\ (n - 1) * bs < fs
  BY CeilBounds DEF dataBlocksInFile
<1>2. n # 0
  BY <1>1
<1>3. ceilDevision(opt, bs) \in Nat /\ opt <= ceilDevision(opt, bs) * bs
  BY CeilBounds
<1>4. ceilDevision(opt, bs) # 0
  BY <1>3
<1>5. k \in Nat \ {0}
  BY <1>1, <1>2, <1>3, <1>4 DEF dataBlocksInFrame, Least
<1>6. m = ceilDevision(n, k)
  BY DEF dataFramesInFile
<1>7. m \in Nat /\ n <= m * k /\ (m - 1) * k < n
  BY <1>1, <1>5, <1>6, CeilBounds
<1>8. m # 0
  BY <1>1, <1>2, <1>5, <1>7
<1>. QED  BY <1>1, <1>2, <1>5, <1>7, <1>8

(* A frame carries k blocks, the last one what is left. *)
LEMMA FrameCount ==
  ASSUME NEW fs, NEW bs, NEW opt, NEW n, NEW k, NEW m, Cut(fs, bs, opt, n, k, m),
         NEW f \in 0 .. m - 1
  PROVE  /\ f * k \in Nat
         /\ f * k < n
         /\ firstBlockIdx(f, fs, bs, opt) = f * k
         /\ blocksCount(f, fs, bs, opt) = Least(k, n - f * k)
<1>1. /\ n \in Nat \ {0} /\ k \in Nat \ {0} /\ m \in Nat \ {0}
      /\ fs <= n * bs /\ (n - 1) * bs < fs
      /\ n <= m * k /\ (m - 1) * k < n
      /\ fs \in Nat \ {0} /\ bs \in Nat \ {0}
  BY CutTypes DEF Cut
<1>2. f \in Nat /\ f <= m - 1 /\ f * k \in Nat /\ (m - 1) * k \in Int
  BY <1>1
<1>3. f * k <= (m - 1) * k
  BY <1>1, <1>2, MulMonotone
<1>4. f * k < n
  BY <1>1, <1>2, <1>3
<1>5. firstBlockIdx(f, fs, bs, opt) = f * k
  BY DEF firstBlockIdx, Cut
<1>. DEFINE s == f * k
<1>6. s \in Nat /\ s < n /\ s <= n - 1
  BY <1>1, <1>2, <1>4
<1>. HIDE DEF s
<1>7. s * bs <= (n - 1) * bs /\ s * bs \in Nat /\ (n - 1) * bs \in Nat
  BY <1>1, <1>6, MulMonotone
<1>8. fs - s * bs \in Nat \ {0}
  BY <1>1, <1>7
<1>9. ceilDevision(fs - s * bs, bs) = n - s
  <2>1. (n - s) * bs = n * bs - s * bs /\ ((n - s) - 1) * bs = (n - 1) * bs - s * bs
    BY <1>1, <1>6
  <2>2. n * bs \in Nat /\ (n - s) * bs \in Int /\ ((n - s) - 1) * bs \in Int
    BY <1>1, <1>6
  <2>3. fs - s * bs <= (n - s) * bs /\ ((n - s) - 1) * bs < fs - s * bs
    BY <1>1, <1>7, <2>1, <2>2
  <2>. QED  BY <1>1, <1>6, <1>8, <2>3, CeilUnique
<1>10. ceilDevision(k * bs, bs) = k
  <2>1. (k - 1) * bs = k * bs - bs /\ k * bs \in Nat
    BY <1>1
  <2>2. (k - 1) * bs < k * bs
    BY <1>1, <2>1
  <2>. QED  BY <1>1, <2>1, <2>2, CeilUnique
<1>11. readed(f, fs, bs, opt) = Least(k * bs, fs - s * bs)
  BY <1>5 DEF readed, Cut, s
<1>12. blocksCount(f, fs, bs, opt) = Least(k, n - s)
  <2>1. k * bs \in Nat
    BY <1>1
  <2>2. CASE k * bs <= fs - s * bs
    <3>1. blocksCount(f, fs, bs, opt) = k
      BY <1>10, <1>11, <2>2 DEF blocksCount, Least
    <3>2. ~ (n - s < k)
      <4>. SUFFICES ASSUME n - s < k PROVE FALSE
        OBVIOUS
      <4>1. (n - s) * bs <= (k - 1) * bs
        BY <1>1, <1>6, MulMonotone
      <4>2. (k - 1) * bs = k * bs - bs /\ (n - s) * bs = n * bs - s * bs
        BY <1>1, <1>6
      <4>3. n * bs \in Nat
        BY <1>1
      <4>. QED  BY <1>1, <1>7, <2>1, <2>2, <4>1, <4>2, <4>3
    <3>. QED  BY <1>1, <1>6, <3>1, <3>2 DEF Least
  <2>3. CASE ~ (k * bs <= fs - s * bs)
    <3>1. blocksCount(f, fs, bs, opt) = n - s
      BY <1>9, <1>11, <2>3 DEF blocksCount, Least
    <3>2. ~ (k < n - s)
      <4>. SUFFICES ASSUME k < n - s PROVE FALSE
        OBVIOUS
      <4>1. k * bs <= ((n - s) - 1) * bs
        BY <1>1, <1>6, MulMonotone
      <4>2. ((n - s) - 1) * bs = (n - 1) * bs - s * bs
        BY <1>1, <1>6
      <4>. QED  BY <1>1, <1>7, <2>1, <2>3, <4>1, <4>2
    <3>. QED  BY <1>1, <1>6, <3>1, <3>2 DEF Least
  <2>. QED  BY <2>2, <2>3
<1>. QED  BY <1>2, <1>4, <1>5, <1>12 DEF s

(* A frame's blocks: at least one, at most k, none beyond the file. *)
LEMMA FrameBlocks ==
  ASSUME NEW fs, NEW bs, NEW opt, NEW n, NEW k, NEW m, Cut(fs, bs, opt, n, k, m),
         NEW f \in 0 .. m - 1
  PROVE  \A b \in Int : b \in blocksOfFrame(f, fs, bs, opt)
                          <=> f * k <= b /\ b < f * k + k /\ b < n
<1>1. /\ f * k \in Nat /\ f * k < n
      /\ firstBlockIdx(f, fs, bs, opt) = f * k
      /\ blocksCount(f, fs, bs, opt) = Least(k, n - f * k)
  BY FrameCount
<1>2. n \in Nat \ {0} /\ k \in Nat \ {0}
  BY CutTypes
<1>. QED  BY <1>1, <1>2 DEF blocksOfFrame, Least

(* However a file is cut, each of its blocks lies in exactly one frame and *)
(* no frame reaches beyond the file (makeConfigs and the correction of the *)
(* short read): nothing is signed twice or left out.                       *)
THEOREM BlocksPartitionedAlways ==
  ASSUME NEW fs \in Nat \ {0}, NEW bs \in Nat \ {0}, NEW opt \in Nat \ {0}
  PROVE  /\ \A f \in 0 .. dataFramesInFile(fs, bs, opt) - 1 :
              blocksOfFrame(f, fs, bs, opt) \subseteq 0 .. dataBlocksInFile(fs, bs) - 1
         /\ \A b \in 0 .. dataBlocksInFile(fs, bs) - 1 :
              \E f \in 0 .. dataFramesInFile(fs, bs, opt) - 1 :
                /\ b \in blocksOfFrame(f, fs, bs, opt)
                /\ \A g \in 0 .. dataFramesInFile(fs, bs, opt) - 1 :
                     b \in blocksOfFrame(g, fs, bs, opt) => g = f
<1>1. PICK n, k, m : Cut(fs, bs, opt, n, k, m)
  BY DEF Cut
<1>2. /\ n = dataBlocksInFile(fs, bs) /\ m = dataFramesInFile(fs, bs, opt)
      /\ n \in Nat \ {0} /\ k \in Nat \ {0} /\ m \in Nat \ {0} /\ n <= m * k
  BY <1>1, CutTypes DEF Cut
<1>3. ASSUME NEW f \in 0 .. m - 1
      PROVE  blocksOfFrame(f, fs, bs, opt) \subseteq 0 .. n - 1
  <2>1. f * k \in Nat
    BY <1>2
  <2>2. blocksOfFrame(f, fs, bs, opt) \subseteq Int
    BY DEF blocksOfFrame
  <2>3. \A b \in Int : b \in blocksOfFrame(f, fs, bs, opt)
                         <=> f * k <= b /\ b < f * k + k /\ b < n
    BY <1>1, FrameBlocks
  <2>. QED  BY <1>2, <2>1, <2>2, <2>3
<1>4. ASSUME NEW b \in 0 .. n - 1
      PROVE  \E f \in 0 .. m - 1 :
               /\ b \in blocksOfFrame(f, fs, bs, opt)
               /\ \A g \in 0 .. m - 1 : b \in blocksOfFrame(g, fs, bs, opt) => g = f
  <2>. DEFINE f == b \div k
  <2>0. b \in Nat
    BY <1>2
  <2>1a. f \in Nat /\ b % k \in 0 .. k - 1 /\ b = f * k + (b % k)
    BY <1>2, <2>0, DivMod
  <2>. HIDE DEF f
  <2>1b. f * k \in Nat
    BY <1>2, <2>1a
  <2>1. f \in Nat /\ b % k \in 0 .. k - 1 /\ b = f * k + (b % k) /\ f * k \in Nat
    BY <2>1a, <2>1b
  <2>2. f * k <= b /\ b < f * k + k
    BY <1>2, <2>1
  <2>3. f < m
    <3>. SUFFICES ASSUME m <= f PROVE FALSE
      BY <1>2, <2>1
    <3>1. m * k <= f * k
      BY <1>2, <2>1, MulMonotone
    <3>2. m * k \in Nat
      BY <1>2
    <3>. QED  BY <1>2, <2>1, <2>2, <3>1, <3>2
  <2>4. b \in blocksOfFrame(f, fs, bs, opt)
    BY <1>1, <1>2, <2>1, <2>2, <2>3, FrameBlocks
  <2>5. ASSUME NEW g \in 0 .. m - 1, b \in blocksOfFrame(g, fs, bs, opt)
        PROVE  g = f
    <3>1. g * k <= b /\ b < g * k + k
      BY <1>1, <1>2, <2>5, FrameBlocks
    <3>2. /\ g * k \in Int /\ (f + 1) * k = f * k + k
          /\ (g + 1) * k = g * k + k
      BY <1>2, <2>1
    <3>3. ~ (g < f)
      <4>. SUFFICES ASSUME g < f PROVE FALSE
        OBVIOUS
      <4>1. (g + 1) * k <= f * k
        BY <1>2, <2>1, MulMonotone
      <4>. QED  BY <1>2, <2>1, <2>2, <3>1, <3>2, <4>1
    <3>4. ~ (f < g)
      <4>. SUFFICES ASSUME f < g PROVE FALSE
        OBVIOUS
      <4>1. (f + 1) * k <= g * k
        BY <1>2, <2>1, MulMonotone
      <4>. QED  BY <1>2, <2>1, <2>2, <3>1, <3>2, <4>1
    <3>. QED  BY <2>1, <3>3, <3>4
  <2>. QED  BY <1>2, <2>1, <2>3, <2>4, <2>5
<1>. QED  BY <1>2, <1>3, <1>4
=============================================================================
