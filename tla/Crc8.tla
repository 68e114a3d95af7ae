-------------------------------- MODULE Crc8 --------------------------------
(***************************************************************************)
(* crc8 (crchasher.cpp): the checksum of one block, a table look-up for    *)
(* each byte.  A state is a moment of its loop: the bytes consumed so far  *)
(* and the checksum of them.  The checksum is compared with its definition *)
(* as the remainder of a division of polynomials over GF(2).               *)
(***************************************************************************)
EXTENDS Integers, Sequences, SequencesExt

CONSTANT MaxLength     \* bound on the bytes of a block

Bytes == 0 .. 255

VARIABLES consumed,    \* the bytes of the range the loop has passed
          crc          \* crc

vars == <<consumed, crc>>

(* ^ of two numbers of at most nine bits, bit by bit: the operator of      *)
(* Bitwise is recursive, and no proof could look into it.                  *)
Differ(a, b, bit) == IF (a \div bit) % 2 = (b \div bit) % 2 THEN 0 ELSE bit

Xor(a, b) ==
  Differ(a, b, 1) + Differ(a, b, 2) + Differ(a, b, 4) + Differ(a, b, 8)
    + Differ(a, b, 16) + Differ(a, b, 32) + Differ(a, b, 64) + Differ(a, b, 128)
    + Differ(a, b, 256)

(* Crc8Table; index 0 is the first element. *)
Crc8Table ==
  <<
     0,  49,  98,  83, 196, 245, 166, 151, 185, 136, 219, 234, 125,  76,  31,  46,
    67, 114,  33,  16, 135, 182, 229, 212, 250, 203, 152, 169,  62,  15,  92, 109,
   134, 183, 228, 213,  66, 115,  32,  17,  63,  14,  93, 108, 251, 202, 153, 168,
   197, 244, 167, 150,   1,  48,  99,  82, 124,  77,  30,  47, 184, 137, 218, 235,
    61,  12,  95, 110, 249, 200, 155, 170, 132, 181, 230, 215,  64, 113,  34,  19,
   126,  79,  28,  45, 186, 139, 216, 233, 199, 246, 165, 148,   3,  50,  97,  80,
   187, 138, 217, 232, 127,  78,  29,  44,   2,  51,  96,  81, 198, 247, 164, 149,
   248, 201, 154, 171,  60,  13,  94, 111,  65, 112,  35,  18, 133, 180, 231, 214,
   122,  75,  24,  41, 190, 143, 220, 237, 195, 242, 161, 144,   7,  54, 101,  84,
    57,   8,  91, 106, 253, 204, 159, 174, 128, 177, 226, 211,  68, 117,  38,  23,
   252, 205, 158, 175,  56,   9,  90, 107,  69, 116,  39,  22, 129, 176, 227, 210,
   191, 142, 221, 236, 123,  74,  25,  40,   6,  55, 100,  85, 194, 243, 160, 145,
    71, 118,  37,  20, 131, 178, 225, 208, 254, 207, 156, 173,  58,  11,  88, 105,
     4,  53, 102,  87, 192, 241, 162, 147, 189, 140, 223, 238, 121,  72,  27,  42,
   193, 240, 163, 146,   5,  52, 103,  86, 120,  73,  26,  43, 188, 141, 222, 239,
   130, 179, 224, 209,  70, 119,  36,  21,  59,  10,  89, 104, 255, 206, 157, 172>>

(* A slip: the byte is combined after the look-up. *)
LookUpFirst(c, byte) == Xor(Crc8Table[c + 1], byte)

(* A slip: the checksum of the bytes before is forgotten. *)
LookUpByteOnly(c, byte) == Crc8Table[byte + 1]

LookUp(c, byte) == Crc8Table[Xor(c, byte) + 1]

Init == consumed = <<>> /\ crc = 0

Consume(byte) == /\ Len(consumed) < MaxLength
                 /\ consumed' = Append(consumed, byte)
                 /\ crc' = LookUp(crc, byte)

Next == \E byte \in Bytes : Consume(byte)

Spec == Init /\ [][Next]_vars

-----------------------------------------------------------------------------
(* Bit i of a byte, 1 being the most significant. *)
Weight == <<128, 64, 32, 16, 8, 4, 2, 1>>
Bit(byte, i) == (byte \div Weight[i]) % 2

(* The bits of a block from the first byte's most significant bit on. *)
Bits(block) == [i \in 1 .. 8 * Len(block) |->
                  Bit(block[((i - 1) \div 8) + 1], ((i - 1) % 8) + 1)]

(* The remainder of a polynomial, its coefficients from the highest power  *)
(* down, divided by x^8 + x^5 + x^4 + 1: bits 1 0011 0001.  What is left   *)
(* of the first n coefficients goes on with the next one.                  *)
Divided(rest, bit) == LET s == 2 * rest + bit IN IF s >= 256 THEN Xor(s, 305) ELSE s

Rests(bits) ==
  LET rest[n \in 0 .. Len(bits)] == IF n = 0 THEN 0 ELSE Divided(rest[n - 1], bits[n])
  IN  rest

Remainder(bits) == Rests(bits)[Len(bits)]

Zeros(n) == [i \in 1 .. n |-> 0]

(* The loop computes the remainder of the block times x^8: the table is    *)
(* right in each of its 256 entries, and look-ups chain correctly over the *)
(* bytes of a block (crchasher.cpp lines 7-33).                            *)
IsRemainder == crc = Remainder(Bits(consumed) \o Zeros(8))

(* The distance between the first and the last bit that is set. *)
BurstLength(bits) ==
  LET set == {i \in DOMAIN bits : bits[i] = 1}
  IN  IF set = {} THEN 0
      ELSE (CHOOSE m \in set : \A i \in set : i <= m)
             - (CHOOSE m \in set : \A i \in set : i >= m) + 1

(* What a signature is for: a change of a block confined to eight          *)
(* neighbouring bits changes its checksum.  The checksum being linear, it  *)
(* is enough that no difference of this kind has checksum 0.               *)
DetectsBursts == BurstLength(Bits(consumed)) \in 1 .. 8 => crc # 0

(* CRC-8-Dallas/Maxim, which the comments name: the same polynomial, but   *)
(* bits are processed from the least significant one on.                   *)
ReversedBits(block) == [i \in 1 .. 8 * Len(block) |->
                          Bit(block[((i - 1) \div 8) + 1], 8 - ((i - 1) % 8))]
Reflect(byte) == FoldLeft(LAMBDA r, i : r + Bit(byte, i) * Weight[9 - i], 0,
                          <<1, 2, 3, 4, 5, 6, 7, 8>>)
DallasMaxim(block) == Reflect(Remainder(ReversedBits(block) \o Zeros(8)))

(* "NOTE: CRC-8-Dallas/Maxim" (crchasher.h:13, crchasher.cpp:26). *)
IsDallasMaxim == crc = DallasMaxim(consumed)
=============================================================================
