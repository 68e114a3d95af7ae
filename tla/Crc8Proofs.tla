----------------------------- MODULE Crc8Proofs -----------------------------
(***************************************************************************)
(* Theorems about crc8 for blocks of any length: the loop over the table   *)
(* computes the remainder of the division, and blocks that differ only     *)
(* within eight neighbouring bits never have the same checksum.            *)
(***************************************************************************)
EXTENDS Crc8, WellFoundedInduction, TLAPS

-----------------------------------------------------------------------------
(* Induction, with a set in the place of a predicate: what holds of no     *)
(* number first holds of none.                                             *)
LEMMA SetInduction ==
  ASSUME NEW S, 0 \in S, \A n \in Nat : n \in S => n + 1 \in S
  PROVE  Nat \subseteq S
<1>. SUFFICES ASSUME Nat \ S # {} PROVE FALSE
  OBVIOUS
<1>. DEFINE T == Nat \ S
<1>1. PICK x \in T : \A y \in T : ~(<<y, x>> \in OpToRel(<, Nat))
  BY WFMin, NatLessThanWellFounded, Zenon
<1>2. \A y \in T : ~(y < x)
  BY <1>1, Zenon DEF OpToRel
<1>3. x \in Nat /\ x \notin S /\ x # 0
  OBVIOUS
<1>4. x - 1 \in Nat /\ (x - 1) + 1 = x /\ x - 1 < x
  BY <1>3
<1>5. x - 1 \notin T
  BY <1>2, <1>4
<1>. QED  BY <1>3, <1>4, <1>5

(* The recursive definition of the rests is one.                           *)
LEMMA RestsAreDefined ==
  ASSUME NEW bits, Len(bits) \in Nat
  PROVE  Rests(bits) = [n \in 0 .. Len(bits) |->
                          IF n = 0 THEN 0 ELSE Divided(Rests(bits)[n - 1], bits[n])]
<1>. DEFINE L == Len(bits)
            Are(g, m) == g = [n \in 0 .. m |-> IF n = 0 THEN 0 ELSE Divided(g[n - 1], bits[n])]
            S == {m \in Nat : \E g : Are(g, m)}
<1>1. 0 \in S
  <2>1. Are([n \in 0 .. 0 |-> 0], 0)
    OBVIOUS
  <2>. QED  BY <2>1
<1>2. ASSUME NEW m \in Nat, m \in S PROVE m + 1 \in S
  <2>1. PICK g : Are(g, m)
    BY <1>2
  <2>. DEFINE h == [n \in 0 .. m + 1 |-> IF n <= m THEN g[n] ELSE Divided(g[m], bits[m + 1])]
  <2>2. Are(h, m + 1)
    <3>1. \A n \in 0 .. m + 1 :
            h[n] = IF n = 0 THEN 0 ELSE Divided(h[n - 1], bits[n])
      <4>. TAKE n \in 0 .. m + 1
      <4>1. CASE n = 0
        BY <2>1, <4>1
      <4>2. CASE n \in 1 .. m
        <5>1. h[n] = g[n] /\ h[n - 1] = g[n - 1]
          BY <4>2
        <5>2. g[n] = Divided(g[n - 1], bits[n])
          BY <2>1, <4>2
        <5>. QED  BY <4>2, <5>1, <5>2
      <4>3. CASE n = m + 1
        <5>1. h[n] = Divided(g[m], bits[n]) /\ h[n - 1] = g[m]
          BY <4>3
        <5>. QED  BY <4>3, <5>1
      <4>. QED  BY <4>1, <4>2, <4>3
    <3>. QED  BY <3>1
  <2>. HIDE DEF h, Are
  <2>. QED  BY <2>2
<1>. HIDE DEF S
<1>3. L \in S
  BY <1>1, <1>2, SetInduction
<1>4. \E g : Are(g, L)
  BY <1>3 DEF S
<1>5. Are(CHOOSE g : Are(g, L), L)
  BY <1>4, Zenon
<1>. QED  BY <1>5, Zenon DEF Rests

(* Each rest goes on from the one before.                                  *)
LEMMA NextRest ==
  ASSUME NEW bits, Len(bits) \in Nat
  PROVE  /\ Rests(bits)[0] = 0
         /\ \A n \in 0 .. Len(bits) - 1 :
              Rests(bits)[n + 1] = Divided(Rests(bits)[n], bits[n + 1])
<1>. DEFINE L == Len(bits)  r == Rests(bits)
<1>1. r = [n \in 0 .. L |-> IF n = 0 THEN 0 ELSE Divided(r[n - 1], bits[n])]
  BY RestsAreDefined
<1>. HIDE DEF L, r
<1>2. L \in Nat
  BY DEF L
<1>3. r[0] = 0
  BY <1>1, <1>2
<1>4. ASSUME NEW n \in 0 .. L - 1 PROVE r[n + 1] = Divided(r[n], bits[n + 1])
  <2>1. n + 1 \in 0 .. L /\ n + 1 # 0 /\ (n + 1) - 1 = n
    BY <1>2
  <2>. QED  BY <1>1, <2>1
<1>. QED  BY <1>3, <1>4 DEF L, r

-----------------------------------------------------------------------------
(* Numbers of nine bits, and what Xor and Divided make of their bits.      *)

Digits == [0 .. 8 -> {0, 1}]

Value(d) == d[0] + 2 * d[1] + 4 * d[2] + 8 * d[3] + 16 * d[4] + 32 * d[5] + 64 * d[6]
              + 128 * d[7] + 256 * d[8]

Digit(n) == [i \in 0 .. 8 |-> CASE i = 0 -> (n \div 1) % 2
                                [] i = 1 -> (n \div 2) % 2
                                [] i = 2 -> (n \div 4) % 2
                                [] i = 3 -> (n \div 8) % 2
                                [] i = 4 -> (n \div 16) % 2
                                [] i = 5 -> (n \div 32) % 2
                                [] i = 6 -> (n \div 64) % 2
                                [] i = 7 -> (n \div 128) % 2
                                [] i = 8 -> (n \div 256) % 2]

LEMMA HasDigits ==
  ASSUME NEW n \in 0 .. 511
  PROVE  Digit(n) \in Digits /\ Value(Digit(n)) = n
<1>1. Digit(n) \in Digits
  BY SMTT(30) DEF Digit, Digits
<1>2. Value(Digit(n)) = n
  BY DEF Digit, Value
<1>. QED  BY <1>1, <1>2

LEMMA DigitsOfValue ==
  ASSUME NEW d \in Digits
  PROVE  /\ Value(d) \in 0 .. 511
         /\ (Value(d) \div 1) % 2 = d[0] /\ (Value(d) \div 2) % 2 = d[1]
         /\ (Value(d) \div 4) % 2 = d[2] /\ (Value(d) \div 8) % 2 = d[3]
         /\ (Value(d) \div 16) % 2 = d[4] /\ (Value(d) \div 32) % 2 = d[5]
         /\ (Value(d) \div 64) % 2 = d[6] /\ (Value(d) \div 128) % 2 = d[7]
         /\ (Value(d) \div 256) % 2 = d[8]
<1>. DEFINE v == Value(d)
<1>1. PICK a \in {0, 1}, b \in {0, 1}, c \in {0, 1}, e \in {0, 1}, f \in {0, 1},
           g \in {0, 1}, h \in {0, 1}, i \in {0, 1}, j \in {0, 1} :
        /\ d[0] = a /\ d[1] = b /\ d[2] = c /\ d[3] = e /\ d[4] = f
        /\ d[5] = g /\ d[6] = h /\ d[7] = i /\ d[8] = j
  BY DEF Digits
<1>2. v = a + 2 * b + 4 * c + 8 * e + 16 * f + 32 * g + 64 * h + 128 * i + 256 * j
  BY <1>1 DEF Value
<1>. HIDE DEF v
<1>3. v \in 0 .. 511
  BY <1>2
<1>4. (v \div 1) % 2 = a
  <2>1. PICK low \in 0 .. 0, high \in Nat : low = 0 /\ high = b + 2 * c + 4 * e + 8 * f + 16 * g + 32 * h + 64 * i + 128 * j
    OBVIOUS
  <2>2. v \div 1 = a + 2 * high
    BY <1>2, <2>1
  <2>3. (a + 2 * high) % 2 = a
    OBVIOUS
  <2>. QED  BY <2>2, <2>3
<1>5. (v \div 2) % 2 = b
  <2>1. PICK low \in 0 .. 1, high \in Nat : low = a /\ high = c + 2 * e + 4 * f + 8 * g + 16 * h + 32 * i + 64 * j
    OBVIOUS
  <2>2. v \div 2 = b + 2 * high
    BY <1>2, <2>1
  <2>3. (b + 2 * high) % 2 = b
    OBVIOUS
  <2>. QED  BY <2>2, <2>3
<1>6. (v \div 4) % 2 = c
  <2>1. PICK low \in 0 .. 3, high \in Nat : low = a + 2 * b /\ high = e + 2 * f + 4 * g + 8 * h + 16 * i + 32 * j
    OBVIOUS
  <2>2. v \div 4 = c + 2 * high
    BY <1>2, <2>1
  <2>3. (c + 2 * high) % 2 = c
    OBVIOUS
  <2>. QED  BY <2>2, <2>3
<1>7. (v \div 8) % 2 = e
  <2>1. PICK low \in 0 .. 7, high \in Nat : low = a + 2 * b + 4 * c /\ high = f + 2 * g + 4 * h + 8 * i + 16 * j
    OBVIOUS
  <2>2. v \div 8 = e + 2 * high
    BY <1>2, <2>1
  <2>3. (e + 2 * high) % 2 = e
    OBVIOUS
  <2>. QED  BY <2>2, <2>3
<1>8. (v \div 16) % 2 = f
  <2>1. PICK low \in 0 .. 15, high \in Nat : low = a + 2 * b + 4 * c + 8 * e /\ high = g + 2 * h + 4 * i + 8 * j
    OBVIOUS
  <2>2. v \div 16 = f + 2 * high
    BY <1>2, <2>1
  <2>3. (f + 2 * high) % 2 = f
    OBVIOUS
  <2>. QED  BY <2>2, <2>3
<1>9. (v \div 32) % 2 = g
  <2>1. PICK low \in 0 .. 31, high \in Nat : low = a + 2 * b + 4 * c + 8 * e + 16 * f /\ high = h + 2 * i + 4 * j
    OBVIOUS
  <2>2. v \div 32 = g + 2 * high
    BY <1>2, <2>1
  <2>3. (g + 2 * high) % 2 = g
    OBVIOUS
  <2>. QED  BY <2>2, <2>3
<1>10. (v \div 64) % 2 = h
  <2>1. PICK low \in 0 .. 63, high \in Nat : low = a + 2 * b + 4 * c + 8 * e + 16 * f + 32 * g /\ high = i + 2 * j
    OBVIOUS
  <2>2. v \div 64 = h + 2 * high
    BY <1>2, <2>1
  <2>3. (h + 2 * high) % 2 = h
    OBVIOUS
  <2>. QED  BY <2>2, <2>3
<1>11. (v \div 128) % 2 = i
  <2>1. PICK low \in 0 .. 127, high \in Nat : low = a + 2 * b + 4 * c + 8 * e + 16 * f + 32 * g + 64 * h /\ high = j
    OBVIOUS
  <2>2. v \div 128 = i + 2 * high
    BY <1>2, <2>1
  <2>3. (i + 2 * high) % 2 = i
    OBVIOUS
  <2>. QED  BY <2>2, <2>3
<1>12. (v \div 256) % 2 = j
  <2>1. PICK low \in 0 .. 255, high \in Nat : low = a + 2 * b + 4 * c + 8 * e + 16 * f + 32 * g + 64 * h + 128 * i /\ high = 0
    OBVIOUS
  <2>2. v \div 256 = j + 2 * high
    BY <1>2, <2>1
  <2>3. (j + 2 * high) % 2 = j
    OBVIOUS
  <2>. QED  BY <2>2, <2>3
<1>. QED  BY <1>1, <1>3, <1>4, <1>5, <1>6, <1>7, <1>8, <1>9, <1>10, <1>11, <1>12, Zenon DEF v

Sum(d, e) == [i \in 0 .. 8 |-> IF d[i] = e[i] THEN 0 ELSE 1]

LEMMA XorValues ==
  ASSUME NEW d \in Digits, NEW e \in Digits
  PROVE  Sum(d, e) \in Digits /\ Xor(Value(d), Value(e)) = Value(Sum(d, e))
<1>1. Sum(d, e) \in Digits
  BY DEF Sum, Digits
<1>. DEFINE x == Value(d)  y == Value(e)
<1>2. /\ Differ(x, y, 1) = Sum(d, e)[0] /\ Differ(x, y, 2) = 2 * Sum(d, e)[1]
      /\ Differ(x, y, 4) = 4 * Sum(d, e)[2] /\ Differ(x, y, 8) = 8 * Sum(d, e)[3]
      /\ Differ(x, y, 16) = 16 * Sum(d, e)[4] /\ Differ(x, y, 32) = 32 * Sum(d, e)[5]
      /\ Differ(x, y, 64) = 64 * Sum(d, e)[6] /\ Differ(x, y, 128) = 128 * Sum(d, e)[7]
      /\ Differ(x, y, 256) = 256 * Sum(d, e)[8]
  BY DigitsOfValue DEF Differ, Sum
<1>. HIDE DEF x, y
<1>3. Xor(x, y) = Value(Sum(d, e))
  BY <1>2 DEF Xor, Value
<1>. QED  BY <1>1, <1>3 DEF x, y

(* What Divided makes of eight bits and one more.                          *)
Shift(d, bit) ==
  [i \in 0 .. 8 |-> CASE i = 0 -> IF bit = d[7] THEN 0 ELSE 1
                      [] i \in {4, 5} -> IF d[i - 1] = d[7] THEN 0 ELSE 1
                      [] i = 8 -> 0
                      [] OTHER -> d[i - 1]]

LEMMA DividedValue ==
  ASSUME NEW d \in Digits, d[8] = 0, NEW bit \in {0, 1}
  PROVE  /\ Shift(d, bit) \in Digits /\ Shift(d, bit)[8] = 0
         /\ Divided(Value(d), bit) = Value(Shift(d, bit))
<1>0. \A i \in 0 .. 8 : d[i] \in {0, 1}
  BY DEF Digits
<1>1. Shift(d, bit) \in Digits /\ Shift(d, bit)[8] = 0
  BY <1>0 DEF Shift, Digits
<1>. DEFINE e == [i \in 0 .. 8 |-> IF i = 0 THEN bit ELSE d[i - 1]]
            divisor == [i \in 0 .. 8 |-> IF i \in {0, 4, 5, 8} THEN 1 ELSE 0]
<1>2. e \in Digits /\ divisor \in Digits /\ Value(divisor) = 305
  BY <1>0 DEF Digits, Value
<1>3. Value(e) = 2 * Value(d) + bit
  BY <1>0, SMTT(30) DEF Value
<1>4. Value(e) >= 256 <=> d[7] = 1
  BY <1>0 DEF Value
<1>5. d[7] = 1 => Sum(e, divisor) = Shift(d, bit)
  BY <1>0 DEF Sum, Shift
<1>6. d[7] = 0 => e = Shift(d, bit)
  BY <1>0 DEF Shift
<1>7. Xor(Value(e), 305) = Value(Sum(e, divisor))
  BY <1>2, XorValues
<1>. HIDE DEF e, divisor
<1>8. Divided(Value(d), bit) = IF Value(e) >= 256 THEN Xor(Value(e), 305) ELSE Value(e)
  BY <1>3 DEF Divided
<1>. QED  BY <1>0, <1>1, <1>4, <1>5, <1>6, <1>7, <1>8

(* A byte has no ninth bit.                                                *)
LEMMA ByteDigits ==
  ASSUME NEW n \in Bytes
  PROVE  \E d \in Digits : d[8] = 0 /\ n = Value(d)
<1>1. n \in 0 .. 511
  BY DEF Bytes
<1>2. Digit(n) \in Digits /\ Value(Digit(n)) = n
  BY <1>1, HasDigits
<1>3. Digit(n)[8] = 0
  BY DEF Digit, Bytes
<1>. QED  BY <1>2, <1>3

LEMMA ValueIsByte ==
  ASSUME NEW d \in Digits, d[8] = 0
  PROVE  Value(d) \in Bytes
<1>1. \A i \in 0 .. 8 : d[i] \in {0, 1}
  BY DEF Digits
<1>. QED  BY <1>1 DEF Value, Bytes

-----------------------------------------------------------------------------
(* Division is linear.                                                     *)

LEMMA XorIsByte ==
  ASSUME NEW a \in Bytes, NEW b \in Bytes
  PROVE  Xor(a, b) \in Bytes
<1>1. PICK d \in Digits : d[8] = 0 /\ a = Value(d)
  BY ByteDigits
<1>2. PICK e \in Digits : e[8] = 0 /\ b = Value(e)
  BY ByteDigits
<1>3. Sum(d, e)[8] = 0
  BY <1>1, <1>2 DEF Sum
<1>. QED  BY <1>1, <1>2, <1>3, XorValues, ValueIsByte

LEMMA DividedIsByte ==
  ASSUME NEW a \in Bytes, NEW bit \in {0, 1}
  PROVE  Divided(a, bit) \in Bytes
<1>1. PICK d \in Digits : d[8] = 0 /\ a = Value(d)
  BY ByteDigits
<1>. QED  BY <1>1, DividedValue, ValueIsByte

LEMMA DividedIsLinear ==
  ASSUME NEW a \in Bytes, NEW b \in Bytes, NEW bit \in {0, 1}
  PROVE  Divided(Xor(a, b), bit) = Xor(Divided(a, 0), Divided(b, bit))
<1>1. PICK d \in Digits : d[8] = 0 /\ a = Value(d)
  BY ByteDigits
<1>2. PICK e \in Digits : e[8] = 0 /\ b = Value(e)
  BY ByteDigits
<1>3. Sum(d, e) \in Digits /\ Sum(d, e)[8] = 0 /\ Xor(a, b) = Value(Sum(d, e))
  BY <1>1, <1>2, XorValues DEF Sum
<1>4. Divided(Xor(a, b), bit) = Value(Shift(Sum(d, e), bit))
  BY <1>3, DividedValue
<1>5. /\ Shift(d, 0) \in Digits /\ Divided(a, 0) = Value(Shift(d, 0))
      /\ Shift(e, bit) \in Digits /\ Divided(b, bit) = Value(Shift(e, bit))
  BY <1>1, <1>2, DividedValue
<1>6. Xor(Divided(a, 0), Divided(b, bit)) = Value(Sum(Shift(d, 0), Shift(e, bit)))
  BY <1>5, XorValues
<1>7. Shift(Sum(d, e), bit) = Sum(Shift(d, 0), Shift(e, bit))
  <2>1. \A i \in 0 .. 8 : d[i] \in {0, 1} /\ e[i] \in {0, 1}
    BY DEF Digits
  <2>2. \A i \in 0 .. 8 : Shift(Sum(d, e), bit)[i] = Sum(Shift(d, 0), Shift(e, bit))[i]
    BY <2>1 DEF Shift, Sum
  <2>. QED  BY <2>2 DEF Shift, Sum
<1>. QED  BY <1>4, <1>6, <1>7

(* As long as the rest is short, nothing is subtracted.                    *)
LEMMA DividedShort ==
  ASSUME NEW b \in 0 .. 127, NEW bit \in {0, 1}
  PROVE  Divided(b, bit) = 2 * b + bit
BY DEF Divided

LEMMA XorZero ==
  ASSUME NEW a \in Bytes
  PROVE  Xor(a, 0) = a
<1>1. PICK d \in Digits : d[8] = 0 /\ a = Value(d)
  BY ByteDigits
<1>. DEFINE zero == [i \in 0 .. 8 |-> 0]
<1>2. zero \in Digits /\ Value(zero) = 0
  BY DEF Digits, Value
<1>3. Sum(d, zero) = d
  <2>1. \A i \in 0 .. 8 : d[i] \in {0, 1}
    BY DEF Digits
  <2>. QED  BY <2>1 DEF Sum, Digits
<1>. QED  BY <1>1, <1>2, <1>3, XorValues

-----------------------------------------------------------------------------
(* The table.                                                              *)

Shifted(a) == Divided(a, 0)

(* Times x^8.                                                              *)
Eight(a) == Shifted(Shifted(Shifted(Shifted(Shifted(Shifted(Shifted(Shifted(a))))))))

LEMMA ShiftedIsByte == ASSUME NEW a \in Bytes PROVE Shifted(a) \in Bytes
BY DividedIsByte DEF Shifted

LEMMA EightIsByte == ASSUME NEW a \in Bytes PROVE Eight(a) \in Bytes
BY ShiftedIsByte DEF Eight

LEMMA ShiftedIsLinear ==
  ASSUME NEW a \in Bytes, NEW b \in Bytes
  PROVE  Shifted(Xor(a, b)) = Xor(Shifted(a), Shifted(b))
BY DividedIsLinear DEF Shifted

LEMMA EightIsLinear ==
  ASSUME NEW a \in Bytes, NEW b \in Bytes
  PROVE  Eight(Xor(a, b)) = Xor(Eight(a), Eight(b))
BY ShiftedIsByte, ShiftedIsLinear DEF Eight

Flipped(w) == w + (IF w % 2 = 0 THEN 1 ELSE -1)
                + (IF (w \div 16) % 2 = 0 THEN 16 ELSE -16)
                + (IF (w \div 32) % 2 = 0 THEN 32 ELSE -32)

(* Subtracting the divisor flips three bits.                               *)
LEMMA FlippedIsXor ==
  ASSUME NEW w \in Bytes
  PROVE  Xor(w, 49) = Flipped(w)
<1>. DEFINE d == Digit(w)
            e == [i \in 0 .. 8 |-> IF i \in {0, 4, 5} THEN 1 ELSE 0]
<1>1. d \in Digits /\ Value(d) = w
  BY HasDigits DEF Bytes
<1>2. d[0] = w % 2 /\ d[4] = (w \div 16) % 2 /\ d[5] = (w \div 32) % 2
  BY DEF Digit, Bytes
<1>3. e \in Digits /\ Value(e) = 49
  BY DEF Digits, Value
<1>4. Xor(w, 49) = Value(Sum(d, e))
  BY <1>1, <1>3, XorValues
<1>5. \A i \in 0 .. 8 : d[i] \in {0, 1}
  BY <1>1 DEF Digits
<1>6. Sum(d, e) = [i \in 0 .. 8 |-> IF i \in {0, 4, 5} THEN 1 - d[i] ELSE d[i]]
  BY <1>5 DEF Sum
<1>. HIDE DEF d, e
<1>7. Value(Sum(d, e)) = w + (1 - 2 * d[0]) + 16 * (1 - 2 * d[4]) + 32 * (1 - 2 * d[5])
  <2>. DEFINE x == Sum(d, e)
  <2>. DEFINE a == d[0]  b == d[1]  c == d[2]  f == d[3]  g == d[4]  h == d[5]  i == d[6]
              j == d[7]  k == d[8]
  <2>1. /\ a \in Int /\ b \in Int /\ c \in Int /\ f \in Int /\ g \in Int
        /\ h \in Int /\ i \in Int /\ j \in Int /\ k \in Int
    BY <1>5
  <2>2. /\ x[0] = 1 - a /\ x[1] = b /\ x[2] = c /\ x[3] = f /\ x[4] = 1 - g
        /\ x[5] = 1 - h /\ x[6] = i /\ x[7] = j /\ x[8] = k
    BY <1>6
  <2>. HIDE DEF x
  <2>3. Value(x) = (1 - a) + 2 * b + 4 * c + 8 * f + 16 * (1 - g) + 32 * (1 - h) + 64 * i
                     + 128 * j + 256 * k
    BY <2>2, Zenon DEF Value
  <2>4. Value(d) = a + 2 * b + 4 * c + 8 * f + 16 * g + 32 * h + 64 * i + 128 * j + 256 * k
    BY Zenon DEF Value
  <2>. HIDE DEF a, b, c, f, g, h, i, j, k
  <2>5. Value(x) = w + (1 - 2 * a) + 16 * (1 - 2 * g) + 32 * (1 - 2 * h)
    BY <1>1, <2>1, <2>3, <2>4
  <2>. QED  BY <2>5 DEF x, a, g, h
<1>. QED  BY <1>2, <1>4, <1>5, <1>7 DEF Flipped, Bytes

LEMMA ShiftedLong ==
  ASSUME NEW a \in 128 .. 255
  PROVE  Shifted(a) = Flipped(2 * (a - 128))
<1>. DEFINE s == 2 * a  d == Digit(s)  w == 2 * (a - 128)
            e == [i \in 0 .. 8 |-> IF i \in {0, 4, 5, 8} THEN 1 ELSE 0]
<1>1. d \in Digits /\ Value(d) = s
  BY HasDigits
<1>2. d[0] = 0 /\ w % 2 = 0 /\ d[8] = 1 /\ d[4] = (w \div 16) % 2 /\ d[5] = (w \div 32) % 2
  BY DEF Digit
<1>3. e \in Digits /\ Value(e) = 305
  BY DEF Digits, Value
<1>4. Xor(s, 305) = Value(Sum(d, e))
  BY <1>1, <1>3, XorValues
<1>5. \A i \in 0 .. 8 : d[i] \in {0, 1}
  BY <1>1 DEF Digits
<1>6. Sum(d, e) = [i \in 0 .. 8 |-> IF i \in {0, 4, 5, 8} THEN 1 - d[i] ELSE d[i]]
  BY <1>5 DEF Sum
<1>7. Shifted(a) = Xor(s, 305) /\ s = w + 256 /\ w \in Nat /\ s \in Nat
  BY DEF Shifted, Divided
<1>. HIDE DEF d, e, s, w
<1>8. Value(Sum(d, e)) = Value(d) - 256 + 1 + 16 * (1 - 2 * d[4]) + 32 * (1 - 2 * d[5])
  BY <1>2, <1>5, <1>6 DEF Value
<1>9. Shifted(a) = w + 1 + 16 * (1 - 2 * d[4]) + 32 * (1 - 2 * d[5])
  BY <1>1, <1>4, <1>5, <1>7, <1>8
<1>10. Shifted(a) = Flipped(w)
  BY <1>2, <1>5, <1>7, <1>9 DEF Flipped
<1>. QED  BY <1>10 DEF w

(* The table: each entry but the first follows from one before it.         *)
LEMMA TableEntries ==
  /\ Crc8Table[1] = 0
  /\ \A i \in 0 .. 255 : Crc8Table[i + 1] \in 0 .. 255
  /\ \A i \in 0 .. 127 :
       /\ Crc8Table[2 * i + 1] = IF Crc8Table[i + 1] < 128 THEN 2 * Crc8Table[i + 1]
                                 ELSE Flipped(2 * (Crc8Table[i + 1] - 128))
       /\ Crc8Table[2 * i + 2] = Flipped(Crc8Table[2 * i + 1])
<1>1. Crc8Table[1] = 0
  BY DEF Crc8Table
<1>2. \A i \in 0 .. 255 : Crc8Table[i + 1] \in 0 .. 255
  BY SMTT(60) DEF Crc8Table
<1>3. \A i \in 0 .. 127 :
        /\ Crc8Table[2 * i + 1] = IF Crc8Table[i + 1] < 128 THEN 2 * Crc8Table[i + 1]
                                  ELSE Flipped(2 * (Crc8Table[i + 1] - 128))
        /\ Crc8Table[2 * i + 2] = Flipped(Crc8Table[2 * i + 1])
  BY SMTT(60) DEF Flipped, Crc8Table
<1>. QED  BY <1>1, <1>2, <1>3

(* The entries that are right.                                             *)
Right == {i \in 0 .. 255 : Crc8Table[i + 1] = Eight(i)}

LEMMA EvenIsRight ==
  ASSUME NEW i \in 0 .. 127, i \in Right
  PROVE  2 * i \in Right
<1>. DEFINE t == Crc8Table[i + 1]
<1>1. t \in 0 .. 255 /\ t = Eight(i)
  BY TableEntries DEF Right
<1>2. Crc8Table[2 * i + 1] = IF t < 128 THEN 2 * t ELSE Flipped(2 * (t - 128))
  BY TableEntries
<1>. HIDE DEF t
<1>3. Shifted(t) = IF t < 128 THEN 2 * t ELSE Flipped(2 * (t - 128))
  <2>1. CASE t < 128
    <3>1. t \in 0 .. 127 /\ 0 \in {0, 1}
      BY <1>1, <2>1
    <3>2. Divided(t, 0) = 2 * t + 0
      BY <3>1, DividedShort
    <3>. QED  BY <1>1, <2>1, <3>2 DEF Shifted
  <2>2. CASE ~(t < 128)
    <3>1. t \in 128 .. 255
      BY <1>1, <2>2
    <3>. QED  BY <2>2, <3>1, ShiftedLong
  <2>. QED  BY <2>1, <2>2
<1>4. Shifted(i) = 2 * i
  BY DividedShort DEF Shifted
<1>5. Eight(2 * i) = Shifted(Eight(i))
  BY <1>4 DEF Eight
<1>. QED  BY <1>1, <1>2, <1>3, <1>5 DEF Right

LEMMA EightOfOne == Eight(1) = 49
<1>1. /\ Shifted(1) = 2 /\ Shifted(2) = 4 /\ Shifted(4) = 8 /\ Shifted(8) = 16
      /\ Shifted(16) = 32 /\ Shifted(32) = 64 /\ Shifted(64) = 128
  BY DEF Shifted, Divided
<1>2. Shifted(128) = Flipped(0)
  BY ShiftedLong
<1>3. Flipped(0) = 49
  BY DEF Flipped
<1>. QED  BY <1>1, <1>2, <1>3 DEF Eight

LEMMA XorOfBit ==
  ASSUME NEW p \in 0 .. 127, NEW bit \in {0, 1}
  PROVE  Xor(2 * p, bit) = 2 * p + bit
<1>. DEFINE d == Digit(2 * p)  e == [i \in 0 .. 8 |-> IF i = 0 THEN bit ELSE 0]
<1>1. d \in Digits /\ Value(d) = 2 * p
  BY HasDigits
<1>2. d[0] = 0
  BY DEF Digit
<1>3. e \in Digits /\ Value(e) = bit
  BY DEF Digits, Value
<1>4. \A i \in 0 .. 8 : d[i] \in {0, 1}
  BY <1>1 DEF Digits
<1>5. Sum(d, e) = [i \in 0 .. 8 |-> IF i = 0 THEN bit ELSE d[i]]
  BY <1>2, <1>4 DEF Sum
<1>. HIDE DEF d, e
<1>6. Value(Sum(d, e)) = Value(d) + bit
  BY <1>2, <1>4, <1>5 DEF Value
<1>. QED  BY <1>1, <1>3, <1>6, XorValues

LEMMA OddIsRight ==
  ASSUME NEW i \in 0 .. 127, 2 * i \in Right
  PROVE  2 * i + 1 \in Right
<1>1. Crc8Table[2 * i + 1] = Eight(2 * i) /\ Crc8Table[2 * i + 1] \in Bytes
  BY TableEntries DEF Right, Bytes
<1>2. Crc8Table[2 * i + 2] = Flipped(Crc8Table[2 * i + 1])
  BY TableEntries
<1>3. Crc8Table[2 * i + 2] = Xor(Eight(2 * i), Eight(1))
  BY <1>1, <1>2, FlippedIsXor, EightOfOne
<1>4. 2 * i \in Bytes /\ 1 \in Bytes
  BY DEF Bytes
<1>5. Eight(2 * i + 1) = Xor(Eight(2 * i), Eight(1))
  BY <1>4, EightIsLinear, XorOfBit
<1>. QED  BY <1>3, <1>5 DEF Right

LEMMA TableIsRight ==
  ASSUME NEW a \in Bytes
  PROVE  Crc8Table[a + 1] = Eight(a)
<1>1. 0 \in Right
  <2>1. Shifted(0) = 0
    BY DEF Shifted, Divided
  <2>2. Eight(0) = 0
    BY <2>1 DEF Eight
  <2>3. Crc8Table[1] = 0
    BY TableEntries, Zenon
  <2>. QED  BY <2>2, <2>3 DEF Right
<1>2. ASSUME NEW n \in 0 .. 127, 0 .. n \subseteq Right PROVE 0 .. 2 * n + 1 \subseteq Right
  <2>. SUFFICES ASSUME NEW m \in 0 .. 2 * n + 1 PROVE m \in Right
    OBVIOUS
  <2>1. PICK i \in 0 .. n : m = 2 * i \/ m = 2 * i + 1
    <3>1. m \div 2 \in 0 .. n /\ (m = 2 * (m \div 2) \/ m = 2 * (m \div 2) + 1)
      OBVIOUS
    <3>. QED  BY <3>1
  <2>2. i \in 0 .. 127 /\ i \in Right
    BY <1>2
  <2>. QED  BY <2>1, <2>2, EvenIsRight, OddIsRight
<1>. DEFINE S == {n \in 0 .. 255 : 0 .. n \subseteq Right}
<1>3. 0 \in S
  BY <1>1
<1>4. \A n \in 0 .. 127 : n \in S => 2 * n + 1 \in S
  <2>. SUFFICES ASSUME NEW n \in 0 .. 127, n \in S PROVE 2 * n + 1 \in S
    OBVIOUS
  <2>1. 2 * n + 1 \in 0 .. 255
    OBVIOUS
  <2>. QED  BY <1>2, <2>1
<1>. HIDE DEF S
<1>5. 1 \in S /\ 3 \in S /\ 7 \in S
  BY <1>3, <1>4
<1>6. 15 \in S /\ 31 \in S /\ 63 \in S
  BY <1>4, <1>5
<1>7. 127 \in S /\ 255 \in S
  BY <1>4, <1>6
<1>8. 0 .. 255 \subseteq Right
  BY <1>7 DEF S
<1>. QED  BY <1>8 DEF Right, Bytes

-----------------------------------------------------------------------------
(* One more byte.                                                          *)

LEMMA BitType ==
  ASSUME NEW byte \in Bytes, NEW i \in 1 .. 8
  PROVE  Bit(byte, i) \in {0, 1}
<1>1. Weight[i] \in {1, 2, 4, 8, 16, 32, 64, 128}
  BY DEF Weight
<1>2. byte \in Nat
  BY DEF Bytes
<1>3. \A w \in {1, 2, 4, 8, 16, 32, 64, 128} : (byte \div w) % 2 \in {0, 1}
  BY <1>2
<1>. QED  BY <1>1, <1>3 DEF Bit

LEMMA BitsOfBlock ==
  ASSUME NEW block \in Seq(Bytes)
  PROVE  /\ Bits(block) \in [1 .. 8 * Len(block) -> {0, 1}]
         /\ \A k \in 0 .. Len(block) - 1 : \A i \in 1 .. 8 :
              Bits(block)[8 * k + i] = Bit(block[k + 1], i)
<1>. DEFINE L == Len(block)
<1>0. L \in Nat
  OBVIOUS
<1>1. ASSUME NEW i \in 1 .. 8 * L
      PROVE  Bit(block[((i - 1) \div 8) + 1], ((i - 1) % 8) + 1) \in {0, 1}
  <2>1. ((i - 1) \div 8) + 1 \in 1 .. L /\ ((i - 1) % 8) + 1 \in 1 .. 8
    BY <1>0
  <2>2. block[((i - 1) \div 8) + 1] \in Bytes
    BY <2>1
  <2>. QED  BY <2>1, <2>2, BitType
<1>2. ASSUME NEW k \in 0 .. L - 1, NEW i \in 1 .. 8
      PROVE  /\ 8 * k + i \in 1 .. 8 * L
             /\ ((8 * k + i - 1) \div 8) = k /\ ((8 * k + i - 1) % 8) + 1 = i
  BY <1>0
<1>. HIDE DEF L
<1>3. Bits(block) = [i \in 1 .. 8 * L |-> Bit(block[((i - 1) \div 8) + 1], ((i - 1) % 8) + 1)]
  BY DEF Bits, L
<1>4. Bits(block) \in [1 .. 8 * L -> {0, 1}]
  BY <1>1, <1>3
<1>5. ASSUME NEW k \in 0 .. L - 1, NEW i \in 1 .. 8
      PROVE  Bits(block)[8 * k + i] = Bit(block[k + 1], i)
  <2>. DEFINE x == 8 * k + i
  <2>1. x \in 1 .. 8 * L /\ (x - 1) \div 8 = k /\ ((x - 1) % 8) + 1 = i
    BY <1>0, <1>2
  <2>. HIDE DEF x
  <2>2. Bits(block)[x] = Bit(block[((x - 1) \div 8) + 1], ((x - 1) % 8) + 1)
    BY <1>0, <1>3, <2>1
  <2>3. Bits(block)[x] = Bit(block[k + 1], i)
    BY <2>1, <2>2
  <2>. QED  BY <2>3 DEF x
<1>. QED  BY <1>4, <1>5 DEF L

(* What is left of the first coefficients depends on no others.            *)
LEMMA RestsAgree ==
  ASSUME NEW a, NEW b, Len(a) \in Nat, Len(b) \in Nat, NEW N \in Nat,
         N <= Len(a), N <= Len(b), \A n \in 1 .. N : a[n] = b[n]
  PROVE  \A n \in 0 .. N : Rests(a)[n] = Rests(b)[n]
<1>. DEFINE S == {n \in Nat : n <= N => Rests(a)[n] = Rests(b)[n]}
<1>1. 0 \in S
  BY NextRest
<1>2. ASSUME NEW n \in Nat, n \in S PROVE n + 1 \in S
  <2>. SUFFICES ASSUME n + 1 <= N PROVE Rests(a)[n + 1] = Rests(b)[n + 1]
    OBVIOUS
  <2>1. Rests(a)[n] = Rests(b)[n] /\ a[n + 1] = b[n + 1]
    BY <1>2
  <2>2. n \in 0 .. Len(a) - 1 /\ n \in 0 .. Len(b) - 1
    OBVIOUS
  <2>3. /\ Rests(a)[n + 1] = Divided(Rests(a)[n], a[n + 1])
        /\ Rests(b)[n + 1] = Divided(Rests(b)[n], b[n + 1])
    BY <2>2, NextRest
  <2>. QED  BY <2>1, <2>3
<1>. HIDE DEF S
<1>3. Nat \subseteq S
  BY <1>1, <1>2, SetInduction
<1>. QED  BY <1>3 DEF S

LEMMA RestIsByte ==
  ASSUME NEW bits \in Seq({0, 1})
  PROVE  \A n \in 0 .. Len(bits) : Rests(bits)[n] \in Bytes
<1>. DEFINE S == {n \in Nat : n <= Len(bits) => Rests(bits)[n] \in Bytes}
<1>0. Len(bits) \in Nat
  OBVIOUS
<1>1. 0 \in S
  BY <1>0, NextRest DEF Bytes
<1>2. ASSUME NEW n \in Nat, n \in S PROVE n + 1 \in S
  <2>. SUFFICES ASSUME n + 1 <= Len(bits) PROVE Rests(bits)[n + 1] \in Bytes
    OBVIOUS
  <2>1. Rests(bits)[n] \in Bytes /\ bits[n + 1] \in {0, 1} /\ n \in 0 .. Len(bits) - 1
    BY <1>0, <1>2
  <2>2. Rests(bits)[n + 1] = Divided(Rests(bits)[n], bits[n + 1])
    BY <1>0, <2>1, NextRest
  <2>. QED  BY <2>1, <2>2, DividedIsByte
<1>. HIDE DEF S
<1>3. Nat \subseteq S
  BY <1>1, <1>2, SetInduction
<1>. QED  BY <1>0, <1>3 DEF S

LEMMA EightZeros ==
  ASSUME NEW bits \in Seq({0, 1}), NEW N \in Nat, N + 8 <= Len(bits),
         \A i \in 1 .. 8 : bits[N + i] = 0
  PROVE  Rests(bits)[N + 8] = Eight(Rests(bits)[N])
<1>. DEFINE r == Rests(bits)
<1>0. Len(bits) \in Nat
  OBVIOUS
<1>1. ASSUME NEW i \in 0 .. 7 PROVE r[N + (i + 1)] = Shifted(r[N + i])
  <2>1. N + i \in 0 .. Len(bits) - 1 /\ (N + i) + 1 = N + (i + 1) /\ i + 1 \in 1 .. 8
    BY <1>0
  <2>2. r[(N + i) + 1] = Divided(r[N + i], bits[(N + i) + 1])
    BY <1>0, <2>1, NextRest
  <2>. QED  BY <2>1, <2>2 DEF Shifted
<1>. HIDE DEF r
<1>2. /\ r[N + 1] = Shifted(r[N + 0]) /\ r[N + 2] = Shifted(r[N + 1])
      /\ r[N + 3] = Shifted(r[N + 2]) /\ r[N + 4] = Shifted(r[N + 3])
      /\ r[N + 5] = Shifted(r[N + 4]) /\ r[N + 6] = Shifted(r[N + 5])
      /\ r[N + 7] = Shifted(r[N + 6]) /\ r[N + 8] = Shifted(r[N + 7])
  BY <1>1
<1>3. N + 0 = N
  OBVIOUS
<1>. QED  BY <1>2, <1>3 DEF Eight, r

(* One more bit, of a byte of which p is known.                            *)
LEMMA OneBit ==
  ASSUME NEW a \in Bytes, NEW p \in 0 .. 127, NEW bit \in {0, 1}
  PROVE  Divided(Xor(a, p), bit) = Xor(Shifted(a), 2 * p + bit)
<1>1. p \in Bytes
  BY DEF Bytes
<1>2. Divided(Xor(a, p), bit) = Xor(Divided(a, 0), Divided(p, bit))
  BY <1>1, DividedIsLinear
<1>3. Divided(p, bit) = 2 * p + bit
  BY DividedShort
<1>. QED  BY <1>2, <1>3 DEF Shifted

(* A byte grows bit by bit, and while it does so a rest is shifted.        *)
LEMMA BitByBit ==
  ASSUME NEW byte \in Bytes
  PROVE  \E p \in [0 .. 8 -> Bytes] :
           /\ p[0] = 0 /\ p[8] = byte
           /\ \A i \in 0 .. 7 : p[i] \in 0 .. 127 /\ p[i + 1] = 2 * p[i] + Bit(byte, i + 1)
<1>1. /\ Bit(byte, 1) = (byte \div 128) % 2 /\ Bit(byte, 2) = (byte \div 64) % 2
      /\ Bit(byte, 3) = (byte \div 32) % 2 /\ Bit(byte, 4) = (byte \div 16) % 2
      /\ Bit(byte, 5) = (byte \div 8) % 2 /\ Bit(byte, 6) = (byte \div 4) % 2
      /\ Bit(byte, 7) = (byte \div 2) % 2 /\ Bit(byte, 8) = (byte \div 1) % 2
  BY DEF Bit, Weight
<1>. DEFINE p == [i \in 0 .. 8 |-> CASE i = 0 -> 0
                                     [] i = 1 -> byte \div 128
                                     [] i = 2 -> byte \div 64
                                     [] i = 3 -> byte \div 32
                                     [] i = 4 -> byte \div 16
                                     [] i = 5 -> byte \div 8
                                     [] i = 6 -> byte \div 4
                                     [] i = 7 -> byte \div 2
                                     [] i = 8 -> byte]
<1>2. /\ p[0] \in 0 .. 127 /\ p[1] \in 0 .. 127 /\ p[2] \in 0 .. 127 /\ p[3] \in 0 .. 127
      /\ p[4] \in 0 .. 127 /\ p[5] \in 0 .. 127 /\ p[6] \in 0 .. 127 /\ p[7] \in 0 .. 127
  BY DEF Bytes
<1>3. \A i \in 0 .. 7 : p[i] \in 0 .. 127
  <2>. HIDE DEF p
  <2>. QED  BY <1>2
<1>4. \A i \in 0 .. 7 : p[i + 1] = 2 * p[i] + Bit(byte, i + 1)
  BY <1>1 DEF Bytes
<1>5. p[0] = 0 /\ p[8] = byte
  OBVIOUS
<1>6. p \in [0 .. 8 -> Bytes]
  <2>1. p = [i \in 0 .. 8 |-> p[i]]
    OBVIOUS
  <2>. HIDE DEF p
  <2>2. \A i \in 0 .. 8 : p[i] \in Bytes
    BY <1>3, <1>5 DEF Bytes
  <2>. QED  BY <2>1, <2>2
<1>. HIDE DEF p
<1>. QED  BY <1>3, <1>4, <1>5, <1>6

LEMMA ShiftByShift ==
  ASSUME NEW a \in Bytes
  PROVE  \E s \in [0 .. 8 -> Bytes] :
           s[0] = a /\ s[8] = Eight(a) /\ \A i \in 0 .. 7 : s[i + 1] = Shifted(s[i])
<1>. DEFINE a1 == Shifted(a)  a2 == Shifted(a1)  a3 == Shifted(a2)  a4 == Shifted(a3)
            a5 == Shifted(a4)  a6 == Shifted(a5)  a7 == Shifted(a6)  a8 == Shifted(a7)
            s == [i \in 0 .. 8 |-> CASE i = 0 -> a
                                     [] i = 1 -> a1
                                     [] i = 2 -> a2
                                     [] i = 3 -> a3
                                     [] i = 4 -> a4
                                     [] i = 5 -> a5
                                     [] i = 6 -> a6
                                     [] i = 7 -> a7
                                     [] i = 8 -> a8]
<1>1. a8 = Eight(a)
  BY DEF Eight
<1>2. /\ a1 \in Bytes /\ a2 \in Bytes /\ a3 \in Bytes /\ a4 \in Bytes /\ a5 \in Bytes
      /\ a6 \in Bytes /\ a7 \in Bytes /\ a8 \in Bytes
  BY ShiftedIsByte
<1>3. /\ a1 = Shifted(a) /\ a2 = Shifted(a1) /\ a3 = Shifted(a2) /\ a4 = Shifted(a3)
      /\ a5 = Shifted(a4) /\ a6 = Shifted(a5) /\ a7 = Shifted(a6) /\ a8 = Shifted(a7)
  OBVIOUS
<1>. HIDE DEF a1, a2, a3, a4, a5, a6, a7, a8
<1>4. s \in [0 .. 8 -> Bytes]
  BY <1>2
<1>5. \A i \in 0 .. 7 : s[i + 1] = Shifted(s[i])
  BY <1>3
<1>6. s[0] = a /\ s[8] = a8
  OBVIOUS
<1>. HIDE DEF s
<1>. QED  BY <1>1, <1>4, <1>5, <1>6

LEMMA EightBits ==
  ASSUME NEW bits \in Seq({0, 1}), NEW N \in Nat, N + 8 <= Len(bits), NEW byte \in Bytes,
         \A i \in 1 .. 8 : bits[N + i] = Bit(byte, i)
  PROVE  Rests(bits)[N + 8] = Xor(Eight(Rests(bits)[N]), byte)
<1>. DEFINE r == Rests(bits)  a == r[N]
<1>0. Len(bits) \in Nat
  OBVIOUS
<1>1. ASSUME NEW i \in 0 .. 7 PROVE r[N + (i + 1)] = Divided(r[N + i], Bit(byte, i + 1))
  <2>1. N + i \in 0 .. Len(bits) - 1 /\ (N + i) + 1 = N + (i + 1) /\ i + 1 \in 1 .. 8
    BY <1>0
  <2>2. r[(N + i) + 1] = Divided(r[N + i], bits[(N + i) + 1])
    BY <1>0, <2>1, NextRest
  <2>. QED  BY <2>1, <2>2
<1>2. a \in Bytes
  BY <1>0, RestIsByte
<1>. HIDE DEF r, a
<1>3. PICK p \in [0 .. 8 -> Bytes] :
        /\ p[0] = 0 /\ p[8] = byte
        /\ \A i \in 0 .. 7 : p[i] \in 0 .. 127 /\ p[i + 1] = 2 * p[i] + Bit(byte, i + 1)
  BY BitByBit
<1>4. PICK s \in [0 .. 8 -> Bytes] :
        s[0] = a /\ s[8] = Eight(a) /\ \A i \in 0 .. 7 : s[i + 1] = Shifted(s[i])
  BY <1>2, ShiftByShift
<1>. DEFINE Done(i) == r[N + i] = Xor(s[i], p[i])
<1>5. ASSUME NEW i \in 0 .. 7, Done(i) PROVE Done(i + 1)
  <2>1. Bit(byte, i + 1) \in {0, 1}
    BY BitType
  <2>2. s[i] \in Bytes
    BY <1>4, SMTT(30)
  <2>3. Divided(Xor(s[i], p[i]), Bit(byte, i + 1)) = Xor(Shifted(s[i]), 2 * p[i] + Bit(byte, i + 1))
    BY <1>3, <2>1, <2>2, OneBit
  <2>. QED  BY <1>1, <1>3, <1>4, <1>5, <2>3
<1>6. Done(0)
  BY <1>2, <1>3, <1>4, XorZero DEF a
<1>. HIDE DEF Done
<1>7. Done(0 + 1) /\ Done(1 + 1) /\ Done(2 + 1) /\ Done(3 + 1)
  BY <1>5, <1>6
<1>8. Done(4 + 1) /\ Done(5 + 1) /\ Done(6 + 1) /\ Done(7 + 1)
  BY <1>5, <1>7
<1>9. Done(8)
  BY <1>8
<1>. QED  BY <1>3, <1>4, <1>9 DEF Done, r, a

Dividend(block) == Bits(block) \o Zeros(8)

LEMMA BitsJoined ==
  ASSUME NEW b \in Seq({0, 1}), NEW z \in Seq({0, 1})
  PROVE  /\ b \o z \in Seq({0, 1}) /\ Len(b \o z) = Len(b) + Len(z)
         /\ \A n \in 1 .. Len(b) : (b \o z)[n] = b[n]
         /\ \A i \in 1 .. Len(z) : (b \o z)[Len(b) + i] = z[i]
<1>1. Len(b) \in Nat /\ Len(z) \in Nat
  OBVIOUS
<1>2. b \o z \in Seq({0, 1}) /\ Len(b \o z) = Len(b) + Len(z)
  OBVIOUS
<1>3. \A n \in 1 .. Len(b) : (b \o z)[n] = b[n]
  OBVIOUS
<1>4. ASSUME NEW i \in 1 .. Len(z) PROVE (b \o z)[Len(b) + i] = z[i]
  BY <1>1
<1>. QED  BY <1>2, <1>3, <1>4

LEMMA DividendBits ==
  ASSUME NEW block \in Seq(Bytes)
  PROVE  /\ Dividend(block) \in Seq({0, 1}) /\ Len(Dividend(block)) = 8 * Len(block) + 8
         /\ \A k \in 0 .. Len(block) - 1 : \A i \in 1 .. 8 :
              Dividend(block)[8 * k + i] = Bit(block[k + 1], i)
         /\ \A i \in 1 .. 8 : Dividend(block)[8 * Len(block) + i] = 0
<1>. DEFINE L == Len(block)  N == 8 * L  b == Bits(block)  z == Zeros(8)
<1>0. L \in Nat /\ N \in Nat
  OBVIOUS
<1>1. b \in [1 .. N -> {0, 1}] /\ \A k \in 0 .. L - 1 : \A i \in 1 .. 8 : b[8 * k + i] = Bit(block[k + 1], i)
  BY BitsOfBlock
<1>2. b \in Seq({0, 1}) /\ Len(b) = N
  <2>. HIDE DEF N, b
  <2>. QED  BY <1>0, <1>1
<1>3. z \in Seq({0, 1}) /\ Len(z) = 8 /\ \A i \in 1 .. 8 : z[i] = 0
  BY DEF Zeros
<1>4. ASSUME NEW k \in 0 .. L - 1, NEW i \in 1 .. 8 PROVE 8 * k + i \in 1 .. N
  BY <1>0
<1>5. Dividend(block) = b \o z
  BY DEF Dividend
<1>. HIDE DEF L, N, b, z
<1>6. /\ b \o z \in Seq({0, 1}) /\ Len(b \o z) = Len(b) + Len(z)
      /\ \A n \in 1 .. Len(b) : (b \o z)[n] = b[n]
      /\ \A i \in 1 .. Len(z) : (b \o z)[Len(b) + i] = z[i]
  BY <1>2, <1>3, BitsJoined
<1>7. \A n \in 1 .. N : (b \o z)[n] = b[n]
  BY <1>2, <1>6
<1>8. \A i \in 1 .. 8 : (b \o z)[N + i] = 0
  BY <1>2, <1>3, <1>6, Zenon
<1>9. b \o z \in Seq({0, 1}) /\ Len(b \o z) = N + 8
  BY <1>2, <1>3, <1>6, Zenon
<1>10. ASSUME NEW k \in 0 .. L - 1, NEW i \in 1 .. 8
       PROVE  (b \o z)[8 * k + i] = Bit(block[k + 1], i)
  BY <1>1, <1>4, <1>7
<1>. QED  BY <1>5, <1>8, <1>9, <1>10 DEF L, N

(* Dividing goes on byte by byte as the loop does.                         *)
LEMMA RemainderOfMore ==
  ASSUME NEW block \in Seq(Bytes), NEW byte \in Bytes
  PROVE  /\ Remainder(Dividend(block)) \in Bytes
         /\ Remainder(Dividend(Append(block, byte))) = LookUp(Remainder(Dividend(block)), byte)
<1>. DEFINE more == Append(block, byte)  N == 8 * Len(block)
            d == Dividend(block)  e == Dividend(more)
<1>0. N \in Nat /\ Len(block) \in Nat /\ N = 8 * Len(block)
  OBVIOUS
<1>1. more \in Seq(Bytes) /\ Len(more) = Len(block) + 1 /\ more[Len(block) + 1] = byte
      /\ \A k \in 1 .. Len(block) : more[k] = block[k]
  OBVIOUS
<1>. HIDE DEF more
<1>2. /\ d \in Seq({0, 1}) /\ Len(d) = N + 8
      /\ \A k \in 0 .. Len(block) - 1 : \A i \in 1 .. 8 : d[8 * k + i] = Bit(block[k + 1], i)
      /\ \A i \in 1 .. 8 : d[N + i] = 0
  BY DividendBits
<1>3. /\ e \in Seq({0, 1}) /\ Len(e) = N + 16
      /\ \A k \in 0 .. Len(block) : \A i \in 1 .. 8 : e[8 * k + i] = Bit(more[k + 1], i)
      /\ \A i \in 1 .. 8 : e[(N + 8) + i] = 0
  <2>1. /\ e \in Seq({0, 1}) /\ Len(e) = 8 * Len(more) + 8
        /\ \A k \in 0 .. Len(more) - 1 : \A i \in 1 .. 8 : e[8 * k + i] = Bit(more[k + 1], i)
        /\ \A i \in 1 .. 8 : e[8 * Len(more) + i] = 0
    BY <1>1, DividendBits
  <2>2. 8 * Len(more) = N + 8 /\ 8 * Len(more) + 8 = N + 16 /\ Len(more) - 1 = Len(block)
    BY <1>0, <1>1
  <2>. HIDE DEF N, e
  <2>. QED  BY <2>1, <2>2
<1>. HIDE DEF N, d, e
<1>4. ASSUME NEW n \in 1 .. N PROVE d[n] = e[n]
  <2>. DEFINE k == (n - 1) \div 8  i == ((n - 1) % 8) + 1
  <2>1. k \in 0 .. Len(block) - 1 /\ i \in 1 .. 8 /\ n = 8 * k + i
    BY <1>0
  <2>. HIDE DEF k, i
  <2>2. more[k + 1] = block[k + 1]
    BY <1>0, <1>1, <2>1
  <2>3. d[8 * k + i] = Bit(block[k + 1], i)
    BY <1>2, <2>1
  <2>4. k \in 0 .. Len(block)
    BY <1>0, <2>1
  <2>5. e[8 * k + i] = Bit(more[k + 1], i)
    BY <1>3, <2>1, <2>4
  <2>. QED  BY <2>1, <2>2, <2>3, <2>5
<1>5. Rests(d)[N] = Rests(e)[N]
  <2>1. N \in Nat /\ Len(d) = N + 8 /\ Len(e) = N + 16
    BY <1>0, <1>2, <1>3
  <2>2. /\ Len(d) \in Nat /\ Len(e) \in Nat /\ N <= Len(d) /\ N <= Len(e) /\ N \in 0 .. N
    BY <2>1
  <2>. QED  BY <1>0, <1>4, <2>2, RestsAgree
<1>6. \A i \in 1 .. 8 : e[N + i] = Bit(byte, i)
  <2>1. Len(block) \in 0 .. Len(block)
    BY <1>0
  <2>. QED  BY <1>0, <1>1, <1>3, <2>1
<1>. DEFINE r == Rests(d)[N]
<1>7. r \in Bytes
  BY <1>0, <1>2, RestIsByte
<1>8. Rests(d)[N + 8] = Eight(r) /\ Remainder(d) = Rests(d)[N + 8]
  <2>1. N + 8 <= Len(d)
    BY <1>0, <1>2
  <2>2. Rests(d)[N + 8] = Eight(r)
    BY <1>0, <1>2, <2>1, EightZeros
  <2>. QED  BY <1>2, <2>2 DEF Remainder
<1>9. Rests(e)[N + 8] = Xor(Eight(r), byte)
  <2>1. N + 8 <= Len(e)
    BY <1>0, <1>3
  <2>2. Rests(e)[N + 8] = Xor(Eight(Rests(e)[N]), byte)
    BY <1>0, <1>3, <1>6, <2>1, EightBits
  <2>. QED  BY <1>5, <2>2
<1>10. Rests(e)[(N + 8) + 8] = Eight(Rests(e)[N + 8])
  <2>1. N + 8 \in Nat /\ (N + 8) + 8 <= Len(e) /\ \A i \in 1 .. 8 : e[(N + 8) + i] = 0
    BY <1>0, <1>3
  <2>. QED  BY <1>3, <2>1, EightZeros
<1>11. Remainder(e) = Rests(e)[(N + 8) + 8]
  BY <1>0, <1>3 DEF Remainder
<1>. HIDE DEF r
<1>12. Eight(r) \in Bytes /\ Xor(Eight(r), byte) \in Bytes
  BY <1>7, EightIsByte, XorIsByte
<1>13. Remainder(e) = Crc8Table[Xor(Eight(r), byte) + 1]
  BY <1>9, <1>10, <1>11, <1>12, TableIsRight
<1>14. Remainder(d) \in Bytes /\ Remainder(e) = LookUp(Remainder(d), byte)
  BY <1>8, <1>12, <1>13 DEF LookUp
<1>. QED  BY <1>14 DEF d, e, more

LEMMA RemainderOfNothing == Remainder(Dividend(<<>>)) = 0
<1>. DEFINE d == Dividend(<<>>)
<1>1. <<>> \in Seq(Bytes) /\ Len(<<>>) = 0
  OBVIOUS
<1>2. d \in Seq({0, 1}) /\ Len(d) = 8 /\ \A i \in 1 .. 8 : d[0 + i] = 0
  <2>1. d \in Seq({0, 1}) /\ Len(d) = 8 * 0 + 8 /\ \A i \in 1 .. 8 : d[8 * 0 + i] = 0
    BY <1>1, DividendBits, ZenonT(30)
  <2>. QED  BY <2>1
<1>. HIDE DEF d
<1>3. Rests(d)[0 + 8] = Eight(Rests(d)[0]) /\ Rests(d)[0] = 0
  <2>1. Len(d) \in Nat /\ 0 \in Nat /\ 0 + 8 <= Len(d)
    BY <1>2
  <2>2. Rests(d)[0] = 0
    BY <2>1, NextRest
  <2>. QED  BY <1>2, <2>1, <2>2, EightZeros
<1>4. Eight(0) = 0
  <2>1. Shifted(0) = 0
    BY DEF Shifted, Divided
  <2>. QED  BY <2>1 DEF Eight
<1>5. Remainder(d) = 0
  BY <1>2, <1>3, <1>4 DEF Remainder
<1>. QED  BY <1>5 DEF d

-----------------------------------------------------------------------------
TypeOK == consumed \in Seq(Bytes) /\ crc \in Bytes

LoopInv == TypeOK /\ IsRemainder

LEMMA LoopHolds == Spec => []LoopInv
<1>1. Init => LoopInv
  BY RemainderOfNothing DEF Init, LoopInv, TypeOK, IsRemainder, Dividend, Bytes
<1>2. LoopInv /\ [Next]_vars => LoopInv'
  <2>. SUFFICES ASSUME LoopInv, [Next]_vars PROVE LoopInv'
    OBVIOUS
  <2>1. CASE UNCHANGED vars
    BY <2>1 DEF vars, LoopInv, TypeOK, IsRemainder
  <2>2. ASSUME NEW byte \in Bytes, Consume(byte) PROVE LoopInv'
    <3>1. consumed' = Append(consumed, byte) /\ crc' = LookUp(crc, byte) /\ consumed \in Seq(Bytes)
      BY <2>2 DEF Consume, LoopInv, TypeOK
    <3>2. crc = Remainder(Dividend(consumed))
      BY DEF LoopInv, IsRemainder, Dividend
    <3>3. crc' = Remainder(Dividend(consumed'))
      BY <3>1, <3>2, RemainderOfMore
    <3>4. consumed' \in Seq(Bytes)
      BY <3>1
    <3>5. crc' \in Bytes
      BY <3>3, <3>4, RemainderOfMore
    <3>. QED  BY <3>3, <3>4, <3>5 DEF LoopInv, TypeOK, IsRemainder, Dividend
  <2>. QED  BY <2>1, <2>2 DEF Next
<1>. QED  BY <1>1, <1>2, PTL DEF Spec

(* For blocks of any length, the loop over the table computes the          *)
(* remainder of the block times x^8: every entry is right, and so is how   *)
(* look-ups follow each other (crchasher.cpp lines 7-33).                  *)
THEOREM LoopDivides == Spec => []IsRemainder
<1>1. LoopInv => IsRemainder
  BY DEF LoopInv
<1>. QED  BY <1>1, LoopHolds, PTL

-----------------------------------------------------------------------------
(* Bursts.                                                                 *)

LEMMA HasFirst ==
  ASSUME NEW N \in Nat, NEW T \in SUBSET (1 .. N), T # {}
  PROVE  \E m \in T : \A i \in T : i >= m
<1>. SUFFICES ASSUME ~\E m \in T : \A i \in T : i >= m PROVE FALSE
  OBVIOUS
<1>. DEFINE S == {n \in Nat : \A i \in T : i > n}
<1>1. 0 \in S
  OBVIOUS
<1>2. ASSUME NEW n \in Nat, n \in S PROVE n + 1 \in S
  <2>1. \A i \in T : i >= n + 1
    BY <1>2
  <2>2. n + 1 \notin T
    BY <2>1
  <2>. QED  BY <2>1, <2>2
<1>. HIDE DEF S
<1>3. N \in S
  BY <1>1, <1>2, SetInduction
<1>4. \A i \in T : i > N
  BY <1>3 DEF S
<1>5. PICK i \in T : TRUE
  OBVIOUS
<1>. QED  BY <1>4, <1>5

LEMMA HasLast ==
  ASSUME NEW N \in Nat, NEW T \in SUBSET (1 .. N), T # {}
  PROVE  \E m \in T : \A i \in T : i <= m
<1>. SUFFICES ASSUME ~\E m \in T : \A i \in T : i <= m PROVE FALSE
  OBVIOUS
<1>. DEFINE S == {n \in Nat : \E i \in T : i >= n}
<1>1. 0 \in S
  <2>1. PICK i \in T : TRUE
    OBVIOUS
  <2>2. i >= 0
    OBVIOUS
  <2>. QED  BY <2>2
<1>2. ASSUME NEW n \in Nat, n \in S PROVE n + 1 \in S
  <2>1. PICK i \in T : i >= n
    BY <1>2
  <2>2. PICK j \in T : ~(j <= i)
    OBVIOUS
  <2>. QED  BY <2>1, <2>2
<1>. HIDE DEF S
<1>3. N + 1 \in S
  BY <1>1, <1>2, SetInduction
<1>. QED  BY <1>3 DEF S

(* A rest once there does not vanish.                                      *)
LEMMA RestStays ==
  ASSUME NEW a \in 1 .. 255
  PROVE  Divided(a, 0) # 0
<1>1. CASE a < 128
  BY <1>1, DividedShort
<1>2. CASE ~(a < 128)
  <2>1. Divided(a, 0) = Flipped(2 * (a - 128))
    BY <1>2, ShiftedLong DEF Shifted
  <2>. QED  BY <2>1 DEF Flipped
<1>. QED  BY <1>1, <1>2

Power == <<2, 4, 8, 16, 32, 64, 128, 256>>

(* The bits from the first to the last that is set are the rest behind     *)
(* them, and then it is only shifted.                                      *)
LEMMA RestOfBurst ==
  ASSUME NEW bits \in Seq({0, 1}), NEW first \in 1 .. Len(bits), NEW last \in first .. first + 7,
         bits[first] = 1,
         \A i \in 1 .. Len(bits) : bits[i] = 1 => first <= i /\ i <= last
  PROVE  Rests(bits)[Len(bits)] # 0
<1>. DEFINE L == Len(bits)  r == Rests(bits)
            S == {n \in Nat : n <= L =>
                    /\ n < first => r[n] = 0
                    /\ n >= first => r[n] # 0
                    /\ n \in first .. last => r[n] < Power[n - first + 1]}
<1>0. L \in Nat /\ first \in Nat /\ last \in Nat /\ first <= last /\ last <= first + 7
  OBVIOUS
<1>1. \A n \in 0 .. L : r[n] \in 0 .. 255
  BY RestIsByte DEF Bytes
<1>2. /\ r[0] = 0
      /\ \A n \in 0 .. L - 1 : r[n + 1] = Divided(r[n], bits[n + 1])
  BY <1>0, NextRest
<1>3. \A n \in 0 .. L - 1 : bits[n + 1] \in {0, 1}
  BY <1>0
<1>. HIDE DEF L, r
<1>4. 0 \in S
  BY <1>0, <1>2
<1>5. ASSUME NEW n \in Nat, n \in S PROVE n + 1 \in S
  <2>. SUFFICES ASSUME n + 1 <= L
                PROVE  /\ n + 1 < first => r[n + 1] = 0
                       /\ n + 1 >= first => r[n + 1] # 0
                       /\ n + 1 \in first .. last => r[n + 1] < Power[n + 1 - first + 1]
    OBVIOUS
  <2>1. n \in 0 .. L - 1 /\ n \in 0 .. L
    BY <1>0
  <2>. DEFINE a == r[n]  bit == bits[n + 1]
  <2>2. r[n + 1] = Divided(a, bit) /\ a \in 0 .. 255 /\ bit \in {0, 1}
    BY <1>1, <1>2, <1>3, <2>1
  <2>3. /\ n < first => a = 0
        /\ n >= first => a # 0
        /\ n \in first .. last => a < Power[n - first + 1]
    BY <1>0, <1>5, <2>1
  <2>4. /\ n + 1 = first => bit = 1
        /\ ~(first <= n + 1 /\ n + 1 <= last) => bit = 0
    <3>1. n + 1 \in 1 .. Len(bits)
      BY <2>1, <1>0 DEF L
    <3>. QED  BY <2>2, <3>1
  <2>. HIDE DEF a, bit
  <2>5. CASE n + 1 < first
    BY <1>0, <2>2, <2>3, <2>4, <2>5, DividedShort
  <2>6. CASE n + 1 = first
    <3>1. r[n + 1] = 1
      BY <1>0, <2>2, <2>3, <2>4, <2>6, DividedShort
    <3>2. Power[n + 1 - first + 1] = 2
      BY <1>0, <2>6 DEF Power
    <3>. QED  BY <1>0, <2>6, <3>1, <3>2
  <2>7. CASE n \in first .. last - 1
    <3>. DEFINE k == n - first + 1
    <3>1. k \in 1 .. 7 /\ n + 1 - first + 1 = k + 1 /\ n \in first .. last /\ n >= first
      BY <1>0, <2>7
    <3>. DEFINE p == Power[k]
    <3>2. p \in 0 .. 128 /\ Power[k + 1] = 2 * p
      BY <3>1, SMTT(30) DEF Power
    <3>3. a < p /\ a # 0
      BY <2>3, <3>1
    <3>. HIDE DEF k, p
    <3>4. a \in 1 .. 127
      BY <2>2, <3>2, <3>3, SMTT(30)
    <3>5. r[n + 1] = 2 * a + bit
      <4>1. a \in 0 .. 127 /\ bit \in {0, 1}
        BY <2>2, <3>4
      <4>. QED  BY <2>2, <4>1, DividedShort
    <3>6. 2 * a + bit # 0 /\ 2 * a + bit < 2 * p
      BY <2>2, <3>2, <3>3, <3>4
    <3>7. r[n + 1] # 0 /\ r[n + 1] < Power[k + 1]
      BY <3>2, <3>5, <3>6
    <3>. QED  BY <1>0, <2>7, <3>1, <3>7
  <2>8. CASE n >= last
    <3>1. bit = 0 /\ a \in 1 .. 255
      BY <1>0, <2>2, <2>3, <2>4, <2>8
    <3>2. r[n + 1] # 0
      BY <2>2, <3>1, RestStays
    <3>. QED  BY <1>0, <2>8, <3>2
  <2>. QED  BY <1>0, <2>5, <2>6, <2>7, <2>8
<1>. HIDE DEF S
<1>6. L \in S
  BY <1>0, <1>4, <1>5, SetInduction
<1>7. L >= first
  BY DEF L
<1>. QED  BY <1>0, <1>6, <1>7 DEF S, L, r

(* A burst of at most eight bits is not divided without a rest.            *)
LEMMA BurstLeavesRest ==
  ASSUME NEW N \in Nat, NEW b \in [1 .. N -> {0, 1}], BurstLength(b) \in 1 .. 8
  PROVE  Remainder(b \o Zeros(8)) # 0
<1>. DEFINE z == Zeros(8)  d == b \o z
            set == {i \in DOMAIN b : b[i] = 1}
            last == CHOOSE m \in set : \A i \in set : i <= m
            first == CHOOSE m \in set : \A i \in set : i >= m
<1>2. BurstLength(b) = IF set = {} THEN 0 ELSE last - first + 1
  BY DEF BurstLength
<1>3. BurstLength(b) \in 1 .. 8
  OBVIOUS
<1>5. set # {} /\ last - first + 1 \in 1 .. 8
  <2>. HIDE DEF set, last, first
  <2>. QED  BY <1>2, <1>3
<1>6. set \in SUBSET (1 .. N)
  OBVIOUS
<1>7. last \in set /\ \A i \in set : i <= last
  <2>. HIDE DEF set
  <2>1. \E m \in set : \A i \in set : i <= m
    BY <1>5, <1>6, HasLast
  <2>. QED  BY <2>1, Zenon
<1>8. first \in set /\ \A i \in set : i >= first
  <2>. HIDE DEF set
  <2>1. \E m \in set : \A i \in set : i >= m
    BY <1>5, <1>6, HasFirst
  <2>. QED  BY <2>1, Zenon
<1>. HIDE DEF last, first
<1>9. b \in Seq({0, 1}) /\ Len(b) = N /\ DOMAIN b = 1 .. N
  OBVIOUS
<1>10. z \in Seq({0, 1}) /\ Len(z) = 8 /\ \A i \in 1 .. 8 : z[i] = 0
  BY DEF Zeros
<1>. HIDE DEF z
<1>11. /\ b \o z \in Seq({0, 1}) /\ Len(b \o z) = Len(b) + Len(z)
       /\ \A n \in 1 .. Len(b) : (b \o z)[n] = b[n]
       /\ \A i \in 1 .. Len(z) : (b \o z)[Len(b) + i] = z[i]
  BY <1>9, <1>10, BitsJoined
<1>12. /\ d \in Seq({0, 1}) /\ Len(d) = N + 8
       /\ \A n \in 1 .. N : d[n] = b[n]
       /\ \A i \in 1 .. 8 : d[N + i] = 0
  BY <1>9, <1>10, <1>11, Zenon
<1>. HIDE DEF d
<1>13. \A n \in 1 .. Len(d) : d[n] = 1 => n \in set
  <2>. SUFFICES ASSUME NEW n \in 1 .. N + 8, d[n] = 1 PROVE n \in set
    BY <1>12
  <2>1. CASE n <= N
    <3>1. n \in 1 .. N
      BY <2>1
    <3>. QED  BY <1>9, <1>12, <3>1
  <2>2. CASE ~(n <= N)
    <3>1. n - N \in 1 .. 8 /\ N + (n - N) = n
      BY <2>2
    <3>2. d[N + (n - N)] = 0
      BY <1>12, <3>1
    <3>. QED  BY <3>1, <3>2
  <2>. QED  BY <2>1, <2>2
<1>14. /\ first \in 1 .. N /\ last \in 1 .. N /\ b[first] = 1
  BY <1>6, <1>7, <1>8
<1>. HIDE DEF set
<1>15. first \in 1 .. Len(d) /\ last \in first .. first + 7
  BY <1>5, <1>7, <1>8, <1>12, <1>14
<1>16. d[first] = 1
  BY <1>12, <1>14
<1>17. \A i \in 1 .. Len(d) : d[i] = 1 => first <= i /\ i <= last
  BY <1>7, <1>8, <1>12, <1>13, <1>14
<1>18. Rests(d)[Len(d)] # 0
  BY <1>12, <1>15, <1>16, <1>17, RestOfBurst
<1>19. Remainder(d) # 0
  BY <1>18 DEF Remainder
<1>. QED  BY <1>19 DEF d, z

(* Division is linear in all its arguments.                                *)
LEMMA DividedAdds ==
  ASSUME NEW a \in Bytes, NEW b \in Bytes, NEW p \in {0, 1}, NEW q \in {0, 1}
  PROVE  Divided(Xor(a, b), IF p = q THEN 0 ELSE 1) = Xor(Divided(a, p), Divided(b, q))
<1>. DEFINE bit == IF p = q THEN 0 ELSE 1
<1>1. PICK d \in Digits : d[8] = 0 /\ a = Value(d)
  BY ByteDigits
<1>2. PICK e \in Digits : e[8] = 0 /\ b = Value(e)
  BY ByteDigits
<1>3. Sum(d, e) \in Digits /\ Sum(d, e)[8] = 0 /\ Xor(a, b) = Value(Sum(d, e))
  BY <1>1, <1>2, XorValues DEF Sum
<1>4. bit \in {0, 1}
  OBVIOUS
<1>5. \A i \in 0 .. 8 : d[i] \in {0, 1} /\ e[i] \in {0, 1}
  BY DEF Digits
<1>6. Shift(Sum(d, e), bit) = Sum(Shift(d, p), Shift(e, q))
  <2>1. \A i \in 0 .. 8 : Shift(Sum(d, e), bit)[i] = Sum(Shift(d, p), Shift(e, q))[i]
    BY <1>5 DEF Shift, Sum
  <2>. QED  BY <2>1 DEF Shift, Sum
<1>. HIDE DEF bit
<1>7. Divided(Xor(a, b), bit) = Value(Shift(Sum(d, e), bit))
  BY <1>3, <1>4, DividedValue
<1>8. /\ Shift(d, p) \in Digits /\ Divided(a, p) = Value(Shift(d, p))
      /\ Shift(e, q) \in Digits /\ Divided(b, q) = Value(Shift(e, q))
  BY <1>1, <1>2, DividedValue
<1>9. Xor(Divided(a, p), Divided(b, q)) = Value(Sum(Shift(d, p), Shift(e, q)))
  BY <1>8, XorValues
<1>10. Divided(Xor(a, b), bit) = Xor(Divided(a, p), Divided(b, q))
  BY <1>6, <1>7, <1>9
<1>. QED  BY <1>10 DEF bit

LEMMA XorSelf ==
  ASSUME NEW a \in Bytes
  PROVE  Xor(a, a) = 0
BY DEF Xor, Differ

(* The coefficients that differ.                                           *)
Difference(d, e) == [i \in DOMAIN d |-> IF d[i] = e[i] THEN 0 ELSE 1]

(* The rests of the difference are the differences of the rests.           *)
LEMMA RestsAdd ==
  ASSUME NEW d \in Seq({0, 1}), NEW e \in Seq({0, 1}), Len(d) = Len(e)
  PROVE  Remainder(Difference(d, e)) = Xor(Remainder(d), Remainder(e))
<1>. DEFINE N == Len(d)  f == Difference(d, e)
            S == {n \in Nat : n <= N => Rests(f)[n] = Xor(Rests(d)[n], Rests(e)[n])}
<1>1. N \in Nat /\ Len(e) = N
  OBVIOUS
<1>2. Len(f) = N /\ \A n \in 1 .. N : f[n] = IF d[n] = e[n] THEN 0 ELSE 1
  BY DEF Difference
<1>3. \A n \in 1 .. N : d[n] \in {0, 1} /\ e[n] \in {0, 1}
  BY <1>1
<1>. HIDE DEF N, f
<1>4. /\ Rests(d)[0] = 0
      /\ \A n \in 0 .. N - 1 : Rests(d)[n + 1] = Divided(Rests(d)[n], d[n + 1])
  BY <1>1, NextRest DEF N
<1>5. /\ Rests(e)[0] = 0
      /\ \A n \in 0 .. N - 1 : Rests(e)[n + 1] = Divided(Rests(e)[n], e[n + 1])
  BY <1>1, NextRest
<1>6. /\ Rests(f)[0] = 0
      /\ \A n \in 0 .. N - 1 : Rests(f)[n + 1] = Divided(Rests(f)[n], f[n + 1])
  BY <1>1, <1>2, NextRest
<1>7. \A n \in 0 .. N : Rests(d)[n] \in Bytes /\ Rests(e)[n] \in Bytes
  BY <1>1, RestIsByte DEF N
<1>8. 0 \in S
  <2>1. 0 \in Bytes
    BY DEF Bytes
  <2>. QED  BY <1>4, <1>5, <1>6, <2>1, XorSelf
<1>9. ASSUME NEW n \in Nat, n \in S PROVE n + 1 \in S
  <2>. SUFFICES ASSUME n + 1 <= N PROVE Rests(f)[n + 1] = Xor(Rests(d)[n + 1], Rests(e)[n + 1])
    OBVIOUS
  <2>1. n \in 0 .. N - 1 /\ n \in 0 .. N /\ n + 1 \in 1 .. N
    BY <1>1
  <2>2. Rests(f)[n] = Xor(Rests(d)[n], Rests(e)[n])
    BY <1>1, <1>9, <2>1
  <2>3. f[n + 1] = IF d[n + 1] = e[n + 1] THEN 0 ELSE 1
    BY <1>2, <2>1
  <2>4. Divided(Rests(f)[n], f[n + 1]) = Xor(Divided(Rests(d)[n], d[n + 1]), Divided(Rests(e)[n], e[n + 1]))
    BY <1>3, <1>7, <2>1, <2>2, <2>3, DividedAdds
  <2>. QED  BY <1>4, <1>5, <1>6, <2>1, <2>4
<1>. HIDE DEF S
<1>10. N \in S
  BY <1>1, <1>8, <1>9, SetInduction
<1>11. Rests(f)[N] = Xor(Rests(d)[N], Rests(e)[N])
  BY <1>1, <1>10 DEF S
<1>. QED  BY <1>1, <1>2, <1>11 DEF Remainder, N, f

(* No difference confined to eight neighbouring bits has checksum 0, in a  *)
(* block of any length (crchasher.cpp lines 7-33).                         *)
THEOREM BurstsAreDetected == Spec => []DetectsBursts
<1>1. ASSUME LoopInv, BurstLength(Bits(consumed)) \in 1 .. 8 PROVE crc # 0
  <2>1. consumed \in Seq(Bytes) /\ crc = Remainder(Bits(consumed) \o Zeros(8))
    BY <1>1 DEF LoopInv, TypeOK, IsRemainder
  <2>. DEFINE N == 8 * Len(consumed)
  <2>2. N \in Nat /\ Bits(consumed) \in [1 .. N -> {0, 1}]
    BY <2>1, BitsOfBlock
  <2>. HIDE DEF N
  <2>. QED  BY <1>1, <2>1, <2>2, BurstLeavesRest
<1>2. LoopInv => DetectsBursts
  BY <1>1 DEF DetectsBursts
<1>. QED  BY <1>2, LoopHolds, PTL

(* What that is for: two blocks of the same length, whatever it is, that   *)
(* differ within eight neighbouring bits have different checksums.         *)
THEOREM NearBlocksDiffer ==
  ASSUME NEW x \in Seq(Bytes), NEW y \in Seq(Bytes), Len(x) = Len(y),
         BurstLength(Difference(Bits(x), Bits(y))) \in 1 .. 8
  PROVE  Remainder(Dividend(x)) # Remainder(Dividend(y))
<1>. DEFINE N == 8 * Len(x)  b == Bits(x)  c == Bits(y)  d == Dividend(x)  e == Dividend(y)
            diff == Difference(b, c)
<1>1. N \in Nat /\ N = 8 * Len(y)
  OBVIOUS
<1>2. b \in [1 .. N -> {0, 1}] /\ c \in [1 .. N -> {0, 1}]
  BY <1>1, BitsOfBlock
<1>3. d = b \o Zeros(8) /\ e = c \o Zeros(8)
  BY DEF Dividend
<1>. HIDE DEF N, b, c, d, e
<1>4. diff \in [1 .. N -> {0, 1}] /\ \A i \in 1 .. N : diff[i] = IF b[i] = c[i] THEN 0 ELSE 1
  BY <1>2 DEF Difference
<1>5. BurstLength(diff) \in 1 .. 8
  BY DEF b, c
<1>. HIDE DEF diff
<1>6. Remainder(diff \o Zeros(8)) # 0
  BY <1>1, <1>4, <1>5, BurstLeavesRest
<1>. DEFINE z == Zeros(8)
<1>7. z \in Seq({0, 1}) /\ Len(z) = 8
  BY DEF Zeros
<1>. HIDE DEF z
<1>8. /\ b \in Seq({0, 1}) /\ Len(b) = N
      /\ c \in Seq({0, 1}) /\ Len(c) = N
      /\ diff \in Seq({0, 1}) /\ Len(diff) = N
  <2>1. ASSUME NEW g \in [1 .. N -> {0, 1}] PROVE g \in Seq({0, 1}) /\ Len(g) = N
    BY <1>1
  <2>. QED  BY <1>2, <1>4, <2>1
<1>9. ASSUME NEW g \in Seq({0, 1}), Len(g) = N
      PROVE  /\ g \o z \in Seq({0, 1}) /\ Len(g \o z) = N + 8
             /\ \A n \in 1 .. N : (g \o z)[n] = g[n]
             /\ \A i \in 1 .. 8 : (g \o z)[N + i] = z[i]
  <2>1. /\ g \o z \in Seq({0, 1}) /\ Len(g \o z) = Len(g) + Len(z)
        /\ \A n \in 1 .. Len(g) : (g \o z)[n] = g[n]
        /\ \A i \in 1 .. Len(z) : (g \o z)[Len(g) + i] = z[i]
    BY <1>7, BitsJoined
  <2>. QED  BY <1>7, <1>9, <2>1, Zenon
<1>10. /\ d \in Seq({0, 1}) /\ Len(d) = N + 8
       /\ \A n \in 1 .. N : d[n] = b[n]
       /\ \A i \in 1 .. 8 : d[N + i] = z[i]
  BY <1>3, <1>8, <1>9, Zenon DEF z
<1>11. /\ e \in Seq({0, 1}) /\ Len(e) = N + 8
       /\ \A n \in 1 .. N : e[n] = c[n]
       /\ \A i \in 1 .. 8 : e[N + i] = z[i]
  BY <1>3, <1>8, <1>9, Zenon DEF z
<1>12. /\ diff \o z \in Seq({0, 1}) /\ Len(diff \o z) = N + 8
       /\ \A n \in 1 .. N : (diff \o z)[n] = diff[n]
       /\ \A i \in 1 .. 8 : (diff \o z)[N + i] = z[i]
  BY <1>8, <1>9
<1>13. diff \o z = Difference(d, e)
  <2>. DEFINE w == diff \o z
  <2>1. /\ w \in Seq({0, 1}) /\ Len(w) = N + 8
        /\ \A n \in 1 .. N : w[n] = diff[n]
        /\ \A i \in 1 .. 8 : w[N + i] = z[i]
    BY <1>12, Zenon
  <2>. HIDE DEF w
  <2>2. \A i \in 1 .. 8 : z[i] = 0
    BY DEF z, Zeros
  <2>3. ASSUME NEW n \in 1 .. N + 8 PROVE w[n] = IF d[n] = e[n] THEN 0 ELSE 1
    <3>1. CASE n <= N
      <4>1. n \in 1 .. N
        BY <1>1, <3>1
      <4>. QED  BY <1>4, <1>10, <1>11, <2>1, <4>1
    <3>2. CASE ~(n <= N)
      <4>1. n - N \in 1 .. 8 /\ N + (n - N) = n
        BY <1>1, <3>2, SMTT(30)
      <4>2. w[n] = z[n - N] /\ d[n] = z[n - N] /\ e[n] = z[n - N]
        BY <1>10, <1>11, <2>1, <4>1
      <4>. QED  BY <2>2, <4>1, <4>2
    <3>. QED  BY <3>1, <3>2
  <2>4. w = [n \in 1 .. N + 8 |-> w[n]] /\ DOMAIN d = 1 .. N + 8
    BY <1>1, <1>10, <2>1
  <2>. QED  BY <2>3, <2>4 DEF Difference, w
<1>14. Remainder(diff \o z) = Xor(Remainder(d), Remainder(e))
  BY <1>10, <1>11, <1>13, RestsAdd
<1>15. Remainder(diff \o z) # 0
  BY <1>6 DEF z
<1>16. Remainder(d) \in Bytes
  <2>1. Len(d) \in Nat /\ Len(d) \in 0 .. Len(d)
    BY <1>1, <1>10
  <2>. QED  BY <1>10, <2>1, RestIsByte DEF Remainder
<1>17. Remainder(d) # Remainder(e)
  BY <1>14, <1>15, <1>16, XorSelf
<1>. QED  BY <1>17 DEF d, e
=============================================================================
