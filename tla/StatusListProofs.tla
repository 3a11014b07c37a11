-------------------------- MODULE StatusListProofs --------------------------
(***************************************************************************)
(* A status list is an array of values, for any bytes, indices and widths: *)
(* first the arithmetic of a byte, then where a slot is, then the steps.   *)
(***************************************************************************)
EXTENDS StatusList, TLAPS

(* The shifts that value_at and set_at use.                                *)
Shifts(bits) == IF bits = 1 THEN 0 .. 7 ELSE {0, 2, 4, 6}

(* A byte as eight bits.                                                   *)
Bits == [0 .. 7 -> 0 .. 1]

ByteOf(b) == b[0] + 2 * b[1] + 4 * b[2] + 8 * b[3] + 16 * b[4] + 32 * b[5]
               + 64 * b[6] + 128 * b[7]

(* A number below 256 is the sum of its bits.                              *)
LEMMA SumOfBits ==
  ASSUME NEW byte \in Byte
  PROVE  byte = (byte % 2) + 2 * ((byte \div 2) % 2) + 4 * ((byte \div 4) % 2)
                  + 8 * ((byte \div 8) % 2) + 16 * ((byte \div 16) % 2)
                  + 32 * ((byte \div 32) % 2) + 64 * ((byte \div 64) % 2)
                  + 128 * ((byte \div 128) % 2)
<1>1. byte \div 2 = ((byte \div 2) % 2) + 2 * (byte \div 4) BY DEF Byte
<1>2. byte \div 4 = ((byte \div 4) % 2) + 2 * (byte \div 8) BY DEF Byte
<1>3. byte \div 8 = ((byte \div 8) % 2) + 2 * (byte \div 16) BY DEF Byte
<1>4. byte \div 16 = ((byte \div 16) % 2) + 2 * (byte \div 32) BY DEF Byte
<1>5. byte \div 32 = ((byte \div 32) % 2) + 2 * (byte \div 64) BY DEF Byte
<1>6. byte \div 64 = ((byte \div 64) % 2) + 2 * (byte \div 128) BY DEF Byte
<1>7. byte \div 128 = (byte \div 128) % 2 BY DEF Byte
<1>8. byte = (byte % 2) + 2 * (byte \div 2) BY DEF Byte
<1>9. QED BY <1>1, <1>2, <1>3, <1>4, <1>5, <1>6, <1>7, <1>8 DEF Byte

(* Every byte is made of eight bits.                                       *)
LEMMA ByteHasBits ==
  ASSUME NEW byte \in Byte
  PROVE  \E b \in Bits : byte = ByteOf(b)
<1> DEFINE b == [k \in 0 .. 7 |-> Field(byte, k, 1)]
<1>1. /\ b[0] = byte % 2
      /\ b[1] = (byte \div 2) % 2
      /\ b[2] = (byte \div 4) % 2
      /\ b[3] = (byte \div 8) % 2
      /\ b[4] = (byte \div 16) % 2
      /\ b[5] = (byte \div 32) % 2
      /\ b[6] = (byte \div 64) % 2
      /\ b[7] = (byte \div 128) % 2
  BY DEF Byte, Field, Weight
<1>2. b \in Bits
  BY DEF Byte, Bits, Field, Weight
<1>3. byte = ByteOf(b)
  <2> HIDE DEF b
  <2>1. QED BY <1>1, SumOfBits DEF ByteOf
<1>4. QED BY <1>2, <1>3

(* A field is the bits at its shift.                                       *)
LEMMA FieldOfBits ==
  ASSUME NEW b \in Bits, NEW bits \in {1, 2}, NEW shift \in Shifts(bits)
  PROVE  /\ ByteOf(b) \in Byte
         /\ Field(ByteOf(b), shift, bits)
              = IF bits = 1 THEN b[shift] ELSE b[shift] + 2 * b[shift + 1]
<1> DEFINE x == ByteOf(b)
<1>1. /\ b[0] \in 0 .. 1 /\ b[1] \in 0 .. 1 /\ b[2] \in 0 .. 1 /\ b[3] \in 0 .. 1
      /\ b[4] \in 0 .. 1 /\ b[5] \in 0 .. 1 /\ b[6] \in 0 .. 1 /\ b[7] \in 0 .. 1
  BY DEF Bits
<1>2. x = b[0] + 2 * b[1] + 4 * b[2] + 8 * b[3] + 16 * b[4] + 32 * b[5]
            + 64 * b[6] + 128 * b[7]
  BY DEF ByteOf
<1> HIDE DEF x
<1>3. /\ x \in Byte
      /\ (x \div 1) % 2 = b[0]   /\ (x \div 1) % 4 = b[0] + 2 * b[1]
      /\ (x \div 2) % 2 = b[1]
      /\ (x \div 4) % 2 = b[2]   /\ (x \div 4) % 4 = b[2] + 2 * b[3]
      /\ (x \div 8) % 2 = b[3]
      /\ (x \div 16) % 2 = b[4]  /\ (x \div 16) % 4 = b[4] + 2 * b[5]
      /\ (x \div 32) % 2 = b[5]
      /\ (x \div 64) % 2 = b[6]  /\ (x \div 64) % 4 = b[6] + 2 * b[7]
      /\ (x \div 128) % 2 = b[7]
  <2>1. PICK b0 \in 0 .. 1, b1 \in 0 .. 1, b2 \in 0 .. 1, b3 \in 0 .. 1,
             b4 \in 0 .. 1, b5 \in 0 .. 1, b6 \in 0 .. 1, b7 \in 0 .. 1 :
          /\ b0 = b[0] /\ b1 = b[1] /\ b2 = b[2] /\ b3 = b[3]
          /\ b4 = b[4] /\ b5 = b[5] /\ b6 = b[6] /\ b7 = b[7]
    BY <1>1
  <2>2. PICK y \in Int : y = b0 + 2 * b1 + 4 * b2 + 8 * b3 + 16 * b4 + 32 * b5
                                + 64 * b6 + 128 * b7
    OBVIOUS
  <2>3. y = x
    BY <1>2, <2>1, <2>2
  <2>4. y \in Byte BY <2>2 DEF Byte
  <2>5. (y \div 1) % 2 = b0 /\ (y \div 1) % 4 = b0 + 2 * b1 BY <2>2
  <2>6. (y \div 2) % 2 = b1 BY <2>2
  <2>7. (y \div 4) % 2 = b2 /\ (y \div 4) % 4 = b2 + 2 * b3 BY <2>2
  <2>8. (y \div 8) % 2 = b3 BY <2>2
  <2>9. (y \div 16) % 2 = b4 /\ (y \div 16) % 4 = b4 + 2 * b5 BY <2>2
  <2>10. (y \div 32) % 2 = b5 BY <2>2
  <2>11. (y \div 64) % 2 = b6 /\ (y \div 64) % 4 = b6 + 2 * b7 BY <2>2
  <2>12. (y \div 128) % 2 = b7 BY <2>2
  <2>13. QED
    BY <2>1, <2>3, <2>4, <2>5, <2>6, <2>7, <2>8, <2>9, <2>10, <2>11, <2>12
<1>4. bits = 1 => Field(x, shift, bits) = b[shift]
  <2>1. SUFFICES ASSUME bits = 1 PROVE Field(x, shift, bits) = b[shift]
    OBVIOUS
  <2>2. shift = 0 \/ shift = 1 \/ shift = 2 \/ shift = 3
          \/ shift = 4 \/ shift = 5 \/ shift = 6 \/ shift = 7
    BY <2>1 DEF Shifts
  <2>3. Field(x, shift, bits) = (x \div Weight[shift + 1]) % 2
    BY <2>1 DEF Field, Weight
  <2>4. QED BY <1>3, <2>2, <2>3 DEF Weight
<1>5. bits = 2 => Field(x, shift, bits) = b[shift] + 2 * b[shift + 1]
  <2>1. SUFFICES ASSUME bits = 2
                 PROVE  Field(x, shift, bits) = b[shift] + 2 * b[shift + 1]
    OBVIOUS
  <2>2. shift = 0 \/ shift = 2 \/ shift = 4 \/ shift = 6
    BY <2>1 DEF Shifts
  <2>3. Field(x, shift, bits) = (x \div Weight[shift + 1]) % 4
    BY <2>1 DEF Field, Weight
  <2>4. QED BY <1>3, <2>2, <2>3 DEF Weight
<1>6. QED BY <1>3, <1>4, <1>5 DEF x

(* Replacing one bit moves the sum by the weight of the bit.               *)
LEMMA BitReplaced ==
  ASSUME NEW b \in Bits, NEW k \in 0 .. 7, NEW v \in 0 .. 1
  PROVE  /\ [b EXCEPT ![k] = v] \in Bits
         /\ ByteOf([b EXCEPT ![k] = v]) = ByteOf(b) + (v - b[k]) * Weight[k + 1]
<1> DEFINE r == [b EXCEPT ![k] = v]
<1>1. r \in Bits
  BY DEF Bits
<1>2. PICK b0 \in Int, b1 \in Int, b2 \in Int, b3 \in Int,
           b4 \in Int, b5 \in Int, b6 \in Int, b7 \in Int :
        /\ b0 = b[0] /\ b1 = b[1] /\ b2 = b[2] /\ b3 = b[3]
        /\ b4 = b[4] /\ b5 = b[5] /\ b6 = b[6] /\ b7 = b[7]
  <2>1. /\ b[0] \in Int /\ b[1] \in Int /\ b[2] \in Int /\ b[3] \in Int
        /\ b[4] \in Int /\ b[5] \in Int /\ b[6] \in Int /\ b[7] \in Int
    BY DEF Bits
  <2>2. QED BY <2>1
<1>3. PICK r0 \in Int, r1 \in Int, r2 \in Int, r3 \in Int,
           r4 \in Int, r5 \in Int, r6 \in Int, r7 \in Int :
        /\ r0 = r[0] /\ r1 = r[1] /\ r2 = r[2] /\ r3 = r[3]
        /\ r4 = r[4] /\ r5 = r[5] /\ r6 = r[6] /\ r7 = r[7]
  <2>1. /\ r[0] \in Int /\ r[1] \in Int /\ r[2] \in Int /\ r[3] \in Int
        /\ r[4] \in Int /\ r[5] \in Int /\ r[6] \in Int /\ r[7] \in Int
    BY <1>1 DEF Bits
  <2> HIDE DEF r
  <2>2. QED BY <2>1
<1>4. PICK old \in Int, w \in Int : old = b[k] /\ w = Weight[k + 1]
  <2>1. b[k] \in Int
    BY DEF Bits
  <2>2. Weight[k + 1] \in Int
    BY DEF Weight
  <2>3. QED BY <2>1, <2>2
<1>5. /\ r0 = (IF k = 0 THEN v ELSE b0) /\ r1 = (IF k = 1 THEN v ELSE b1)
      /\ r2 = (IF k = 2 THEN v ELSE b2) /\ r3 = (IF k = 3 THEN v ELSE b3)
      /\ r4 = (IF k = 4 THEN v ELSE b4) /\ r5 = (IF k = 5 THEN v ELSE b5)
      /\ r6 = (IF k = 6 THEN v ELSE b6) /\ r7 = (IF k = 7 THEN v ELSE b7)
  BY <1>2, <1>3 DEF Bits
<1>6. /\ k = 0 => old = b0 /\ w = 1
      /\ k = 1 => old = b1 /\ w = 2
      /\ k = 2 => old = b2 /\ w = 4
      /\ k = 3 => old = b3 /\ w = 8
      /\ k = 4 => old = b4 /\ w = 16
      /\ k = 5 => old = b5 /\ w = 32
      /\ k = 6 => old = b6 /\ w = 64
      /\ k = 7 => old = b7 /\ w = 128
  BY <1>2, <1>4 DEF Weight
<1>7. (v - old) * w = IF k = 0 THEN v - b0 ELSE IF k = 1 THEN 2 * (v - b1)
                      ELSE IF k = 2 THEN 4 * (v - b2) ELSE IF k = 3 THEN 8 * (v - b3)
                      ELSE IF k = 4 THEN 16 * (v - b4) ELSE IF k = 5 THEN 32 * (v - b5)
                      ELSE IF k = 6 THEN 64 * (v - b6) ELSE 128 * (v - b7)
  BY <1>6
<1>8. r0 + 2 * r1 + 4 * r2 + 8 * r3 + 16 * r4 + 32 * r5 + 64 * r6 + 128 * r7
        = b0 + 2 * b1 + 4 * b2 + 8 * b3 + 16 * b4 + 32 * b5 + 64 * b6 + 128 * b7
            + (v - old) * w
  BY <1>5, <1>7
<1>9. ByteOf(r) = ByteOf(b) + (v - old) * w
  <2> HIDE DEF r
  <2>1. QED BY <1>2, <1>3, <1>8 DEF ByteOf
<1>10. QED BY <1>1, <1>4, <1>9

(* The bits of a byte with a field replaced.                               *)
Replace(b, shift, bits, raw) ==
  IF bits = 1 THEN [b EXCEPT ![shift] = raw]
  ELSE [[b EXCEPT ![shift] = raw % 2] EXCEPT ![shift + 1] = raw \div 2]

(* Writing a field is replacing its bits.                                  *)
LEMMA WithFieldOfBits ==
  ASSUME NEW b \in Bits, NEW bits \in {1, 2}, NEW shift \in Shifts(bits),
         NEW raw \in 0 .. MaxRaw(bits)
  PROVE  /\ Replace(b, shift, bits, raw) \in Bits
         /\ WithField(ByteOf(b), shift, bits, raw)
              = ByteOf(Replace(b, shift, bits, raw))
<1>1. shift \in 0 .. 7
  BY DEF Shifts
<1>2. CASE bits = 1
  <2>1. raw \in 0 .. 1 /\ raw % 2 = raw
    BY <1>2 DEF MaxRaw
  <2>2. Field(ByteOf(b), shift, bits) = b[shift]
    BY <1>2, FieldOfBits
  <2>3. WithField(ByteOf(b), shift, bits, raw)
          = ByteOf(b) + (raw - b[shift]) * Weight[shift + 1]
    BY <1>2, <2>1, <2>2 DEF WithField, Weight
  <2>4. /\ [b EXCEPT ![shift] = raw] \in Bits
        /\ ByteOf([b EXCEPT ![shift] = raw])
             = ByteOf(b) + (raw - b[shift]) * Weight[shift + 1]
    BY <1>1, <2>1, BitReplaced
  <2>5. QED BY <1>2, <2>3, <2>4 DEF Replace
<1>3. CASE bits = 2
  <2> DEFINE c == [b EXCEPT ![shift] = raw % 2]
             r == [c EXCEPT ![shift + 1] = raw \div 2]
  <2>1. /\ raw \in 0 .. 3
        /\ raw % 2 \in 0 .. 1 /\ raw \div 2 \in 0 .. 1 /\ raw % 4 = raw
        /\ raw = (raw % 2) + 2 * (raw \div 2)
        /\ shift + 1 \in 0 .. 7
    BY <1>3 DEF MaxRaw, Shifts
  <2>2. c \in Bits /\ ByteOf(c) = ByteOf(b) + ((raw % 2) - b[shift]) * Weight[shift + 1]
    BY <1>1, <2>1, BitReplaced
  <2>3. /\ r \in Bits
        /\ ByteOf(r) = ByteOf(c) + ((raw \div 2) - c[shift + 1]) * Weight[shift + 2]
    <3>1. (shift + 1) + 1 = shift + 2
      BY <1>1
    <3> HIDE DEF c
    <3>2. QED BY <2>1, <2>2, <3>1, BitReplaced
  <2>4. c[shift + 1] = b[shift + 1]
    BY <1>1, <2>1 DEF Bits
  <2>5. Field(ByteOf(b), shift, bits) = b[shift] + 2 * b[shift + 1]
    BY <1>3, FieldOfBits
  <2>6. WithField(ByteOf(b), shift, bits, raw)
          = ByteOf(b) + (raw - (b[shift] + 2 * b[shift + 1])) * Weight[shift + 1]
    BY <1>3, <2>1, <2>5 DEF WithField, Weight
  <2>7. PICK x \in Int, low \in Int, high \in Int, w \in Int :
          /\ x = ByteOf(b) /\ low = b[shift] /\ high = b[shift + 1]
          /\ w = Weight[shift + 1] /\ Weight[shift + 2] = 2 * w
    <3>1. ByteOf(b) \in Int
      BY FieldOfBits DEF Byte
    <3>2. b[shift] \in Int /\ b[shift + 1] \in Int
      BY <1>1, <2>1 DEF Bits
    <3>3. Weight[shift + 1] \in Int /\ Weight[shift + 2] = 2 * Weight[shift + 1]
      BY <1>3 DEF Weight, Shifts
    <3>4. QED BY <3>1, <3>2, <3>3
  <2>8. x + ((raw % 2) - low) * w + ((raw \div 2) - high) * (2 * w)
          = x + (raw - (low + 2 * high)) * w
    <3>1. PICK i \in Int, j \in Int : i = raw % 2 /\ j = raw \div 2 /\ raw = i + 2 * j
      BY <2>1
    <3>2. x + (i - low) * w + (j - high) * (2 * w) = x + (i + 2 * j - (low + 2 * high)) * w
      OBVIOUS
    <3>3. QED BY <3>1, <3>2
  <2>9. ByteOf(r) = WithField(ByteOf(b), shift, bits, raw)
    <3> HIDE DEF c, r
    <3>1. QED BY <2>2, <2>3, <2>4, <2>6, <2>7, <2>8
  <2>10. QED BY <1>3, <2>3, <2>9 DEF Replace
<1>4. QED BY <1>2, <1>3

(* A byte with a field replaced is a byte, holds what was put there, and   *)
(* its other fields are left alone.                                        *)
LEMMA FieldWritten ==
  ASSUME NEW byte \in Byte, NEW bits \in {1, 2}, NEW shift \in Shifts(bits),
         NEW raw \in 0 .. MaxRaw(bits)
  PROVE  /\ WithField(byte, shift, bits, raw) \in Byte
         /\ Field(WithField(byte, shift, bits, raw), shift, bits) = raw
         /\ \A other \in Shifts(bits) \ {shift} :
              Field(WithField(byte, shift, bits, raw), other, bits)
                = Field(byte, other, bits)
<1>1. PICK b \in Bits : byte = ByteOf(b)
  BY ByteHasBits
<1> DEFINE r == Replace(b, shift, bits, raw)
<1>2. r \in Bits /\ WithField(byte, shift, bits, raw) = ByteOf(r)
  BY <1>1, WithFieldOfBits
<1>3. ByteOf(r) \in Byte
  BY <1>2, FieldOfBits
<1>4. Field(ByteOf(r), shift, bits) = raw
  <2>1. Field(ByteOf(r), shift, bits)
          = IF bits = 1 THEN r[shift] ELSE r[shift] + 2 * r[shift + 1]
    BY <1>2, FieldOfBits
  <2>2. CASE bits = 1
    <3>1. r[shift] = raw
      BY <2>2 DEF Replace, Shifts, Bits
    <3>2. QED BY <2>1, <2>2, <3>1
  <2>3. CASE bits = 2
    <3>1. r[shift] = raw % 2 /\ r[shift + 1] = raw \div 2
      BY <2>3 DEF Replace, Shifts, Bits
    <3>2. raw = (raw % 2) + 2 * (raw \div 2)
      BY <2>3 DEF MaxRaw
    <3>3. QED BY <2>1, <2>3, <3>1, <3>2
  <2>4. QED BY <2>2, <2>3
<1>5. ASSUME NEW other \in Shifts(bits) \ {shift}
      PROVE  Field(ByteOf(r), other, bits) = Field(byte, other, bits)
  <2>1. /\ Field(ByteOf(r), other, bits)
             = IF bits = 1 THEN r[other] ELSE r[other] + 2 * r[other + 1]
        /\ Field(byte, other, bits)
             = IF bits = 1 THEN b[other] ELSE b[other] + 2 * b[other + 1]
    BY <1>1, <1>2, FieldOfBits
  <2>2. r[other] = b[other] /\ (bits = 2 => r[other + 1] = b[other + 1])
    <3>1. CASE bits = 1
      BY <3>1 DEF Replace, Shifts, Bits
    <3>2. CASE bits = 2
      <4>1. /\ other \in 0 .. 6 /\ shift \in 0 .. 6
            /\ other # shift /\ other # shift + 1 /\ other + 1 # shift
        BY <3>2 DEF Shifts
      <4>2. QED BY <3>2, <4>1 DEF Replace, Bits
    <3>3. QED BY <3>1, <3>2
  <2>3. QED BY <2>1, <2>2
<1>6. QED BY <1>2, <1>3, <1>4, <1>5

(* What is read from a byte is a number of the width.                      *)
LEMMA FieldFits ==
  ASSUME NEW byte \in Byte, NEW bits \in {1, 2}, NEW shift \in Shifts(bits)
  PROVE  Field(byte, shift, bits) \in 0 .. MaxRaw(bits)
<1>1. PICK b \in Bits : byte = ByteOf(b)
  BY ByteHasBits
<1>2. Field(byte, shift, bits)
        = IF bits = 1 THEN b[shift] ELSE b[shift] + 2 * b[shift + 1]
  BY <1>1, FieldOfBits
<1>3. QED BY <1>2 DEF Shifts, Bits, MaxRaw

-----------------------------------------------------------------------------
(* Where the slots of a list are.                                          *)

(* An index is in bounds when it is below the number of slots, and its     *)
(* shift is one of the width.                                              *)
LEMMA PlaceOfSlot ==
  ASSUME NEW l \in List, NEW idx \in Nat
  PROVE  /\ Slots(l) \in Nat
         /\ InBounds(l, idx) <=> idx < Slots(l)
         /\ ByteIdx(l.bits, idx) \in Nat
         /\ Shift(l.bits, idx) \in Shifts(l.bits)
<1>1. l.bits \in {1, 2} /\ Len(l.bytes) \in Nat
  BY DEF List
<1>2. PICK n \in Nat : n = Len(l.bytes)
  BY <1>1
<1>3. CASE l.bits = 1
  <2>1. SlotsPerByte(1) = 8 BY DEF SlotsPerByte
  <2>2. idx \div 8 \in Nat /\ idx % 8 \in 0 .. 7 /\ (idx \div 8 < n <=> idx < n * 8)
    OBVIOUS
  <2>3. QED BY <1>2, <1>3, <2>1, <2>2 DEF InBounds, Slots, ByteIdx, Shift, Shifts
<1>4. CASE l.bits = 2
  <2>1. SlotsPerByte(2) = 4 BY DEF SlotsPerByte
  <2>2. /\ idx \div 4 \in Nat
        /\ (idx % 4) * 2 \in {0, 2, 4, 6}
        /\ idx \div 4 < n <=> idx < n * 4
    OBVIOUS
  <2>3. QED BY <1>2, <1>4, <2>1, <2>2 DEF InBounds, Slots, ByteIdx, Shift, Shifts
<1>5. QED BY <1>1, <1>3, <1>4

(* Two slots are in two bytes or at two shifts.                            *)
LEMMA PlacesDiffer ==
  ASSUME NEW bits \in {1, 2}, NEW i \in Nat, NEW j \in Nat, i # j,
         ByteIdx(bits, i) = ByteIdx(bits, j)
  PROVE  Shift(bits, i) # Shift(bits, j)
<1>1. CASE bits = 1
  <2>1. SlotsPerByte(1) = 8 BY DEF SlotsPerByte
  <2>2. i \div 8 = j \div 8 => i % 8 # j % 8 OBVIOUS
  <2>3. QED BY <1>1, <2>1, <2>2 DEF ByteIdx, Shift
<1>2. CASE bits = 2
  <2>1. SlotsPerByte(2) = 4 BY DEF SlotsPerByte
  <2>2. i \div 4 = j \div 4 => (i % 4) * 2 # (j % 4) * 2 OBVIOUS
  <2>3. QED BY <1>2, <2>1, <2>2 DEF ByteIdx, Shift
<1>3. QED BY <1>1, <1>2

(* The bytes that are indexed are bytes.                                   *)
LEMMA ByteOfSlot ==
  ASSUME NEW l \in List, NEW idx \in Nat, InBounds(l, idx)
  PROVE  /\ ByteIdx(l.bits, idx) + 1 \in 1 .. Len(l.bytes)
         /\ l.bytes[ByteIdx(l.bits, idx) + 1] \in Byte
<1>1. l.bytes \in Seq(Byte) /\ Len(l.bytes) \in Nat
  BY DEF List
<1>2. ByteIdx(l.bits, idx) \in Nat
  BY PlaceOfSlot
<1>3. QED BY <1>1, <1>2 DEF InBounds

(* What value_at gives is one of the values of the width, and its number   *)
(* is what the bits of the slot say.                                       *)
LEMMA SlotIsStorable ==
  ASSUME NEW l \in List, NEW idx \in Nat, InBounds(l, idx)
  PROVE  SlotValue(l, idx) \in Array!Storable(l.bits)
<1>1. l.bits \in {1, 2}
  BY DEF List
<1>2. Field(l.bytes[ByteIdx(l.bits, idx) + 1], Shift(l.bits, idx), l.bits)
        \in 0 .. MaxRaw(l.bits)
  BY <1>1, PlaceOfSlot, ByteOfSlot, FieldFits
<1>3. QED
  BY <1>1, <1>2
  DEF SlotValue, FromRaw, MaxRaw, Array!Storable, Array!Reserved, Array!Valid,
      Array!Revoked, Array!Suspended, Valid, Revoked, Suspended, Reserved

(* The number of a value is a natural number.                              *)
LEMMA ValueHasNumber ==
  ASSUME NEW value \in StatusValue
  PROVE  value.number \in Nat
<1>1. CASE value \in {Valid, Revoked, Suspended}
  BY <1>1 DEF Valid, Revoked, Suspended
<1>2. CASE \E n \in 0 .. 255 : value = Reserved(n)
  BY <1>2 DEF Reserved
<1>3. QED BY <1>1, <1>2 DEF StatusValue

(* set_at on the bytes of a list.                                          *)
Stored(l, idx, value) ==
  [l EXCEPT !.bytes[ByteIdx(l.bits, idx) + 1] =
     WithField(@, Shift(l.bits, idx), l.bits, value.number)]

(* A write keeps the shape of the list, puts the value in its slot and     *)
(* changes no other slot.                                                  *)
LEMMA WriteIsLocal ==
  ASSUME NEW l \in List, NEW idx \in Nat, InBounds(l, idx),
         NEW value \in StatusValue, Fits(value, l.bits)
  PROVE  /\ Stored(l, idx, value) \in List
         /\ Stored(l, idx, value).bits = l.bits
         /\ Slots(Stored(l, idx, value)) = Slots(l)
         /\ SlotValue(Stored(l, idx, value), idx) = FromRaw(value.number, l.bits)
         /\ \A i \in Nat : i # idx /\ InBounds(l, i) =>
              SlotValue(Stored(l, idx, value), i) = SlotValue(l, i)
<1> DEFINE b == ByteIdx(l.bits, idx) + 1
           shift == Shift(l.bits, idx)
           new == WithField(l.bytes[b], shift, l.bits, value.number)
           m == Stored(l, idx, value)
<1>1. l.bits \in {1, 2} /\ l.bytes \in Seq(Byte)
  BY DEF List
<1>2. b \in 1 .. Len(l.bytes) /\ l.bytes[b] \in Byte /\ shift \in Shifts(l.bits)
  BY ByteOfSlot, PlaceOfSlot
<1>3. value.number \in 0 .. MaxRaw(l.bits)
  BY <1>1, ValueHasNumber DEF Fits, MaxRaw
<1>4. /\ new \in Byte
      /\ Field(new, shift, l.bits) = value.number
      /\ \A other \in Shifts(l.bits) \ {shift} :
           Field(new, other, l.bits) = Field(l.bytes[b], other, l.bits)
  BY <1>1, <1>2, <1>3, FieldWritten
<1>5. m = [l EXCEPT !.bytes = [l.bytes EXCEPT ![b] = new]]
  BY DEF Stored, List
<1>6. m.bits = l.bits /\ m.bytes = [l.bytes EXCEPT ![b] = new]
  BY <1>5 DEF List
<1> HIDE DEF new, m
<1>7. /\ [l.bytes EXCEPT ![b] = new] \in Seq(Byte)
      /\ Len([l.bytes EXCEPT ![b] = new]) = Len(l.bytes)
      /\ [l.bytes EXCEPT ![b] = new][b] = new
      /\ \A i \in 1 .. Len(l.bytes) :
           i # b => [l.bytes EXCEPT ![b] = new][i] = l.bytes[i]
  <2>1. PICK s \in Seq(Byte) : s = l.bytes
    BY <1>1
  <2>2. PICK k \in 1 .. Len(s) : k = b
    BY <1>2, <2>1
  <2>3. PICK x \in Byte : x = new
    BY <1>4
  <2>4. /\ [s EXCEPT ![k] = x] \in Seq(Byte)
        /\ Len([s EXCEPT ![k] = x]) = Len(s)
        /\ [s EXCEPT ![k] = x][k] = x
        /\ \A i \in 1 .. Len(s) : i # k => [s EXCEPT ![k] = x][i] = s[i]
    OBVIOUS
  <2>5. QED BY <2>1, <2>2, <2>3, <2>4
<1>8. m \in List
  BY <1>1, <1>5, <1>7 DEF List
<1>9. Slots(m) = Slots(l)
  BY <1>6, <1>7 DEF Slots
<1>10. SlotValue(m, idx) = FromRaw(value.number, l.bits)
  BY <1>4, <1>6, <1>7 DEF SlotValue
<1>11. ASSUME NEW i \in Nat, i # idx, InBounds(l, i)
       PROVE  SlotValue(m, i) = SlotValue(l, i)
  <2>1. ByteIdx(l.bits, i) + 1 \in 1 .. Len(l.bytes) /\ Shift(l.bits, i) \in Shifts(l.bits)
    BY <1>11, ByteOfSlot, PlaceOfSlot
  <2>2. CASE ByteIdx(l.bits, i) + 1 # b
    BY <1>6, <1>7, <2>1, <2>2 DEF SlotValue
  <2>3. CASE ByteIdx(l.bits, i) + 1 = b
    <3>1. ByteIdx(l.bits, i) = ByteIdx(l.bits, idx)
      BY <2>3, <1>11, PlaceOfSlot
    <3>2. Shift(l.bits, i) # shift
      BY <1>1, <1>11, <3>1, PlacesDiffer
    <3>3. Field(new, Shift(l.bits, i), l.bits)
            = Field(l.bytes[b], Shift(l.bits, i), l.bits)
      BY <1>4, <2>1, <3>2
    <3>4. QED BY <1>6, <1>7, <2>3, <3>3 DEF SlotValue
  <2>4. QED BY <2>2, <2>3
<1>12. QED BY <1>6, <1>8, <1>9, <1>10, <1>11 DEF m

-----------------------------------------------------------------------------
(* The steps.                                                              *)

(* A new list has the slots that were asked for, all of them valid.        *)
LEMMA NewListIsValid ==
  ASSUME NEW bits \in {1, 2}, NEW capacity \in Nat, (capacity * bits) % 8 = 0,
         NEW l, l = [bits  |-> bits,
                     bytes |-> [i \in 1 .. (capacity * bits) \div 8 |-> 0]]
  PROVE  /\ l \in List
         /\ Slots(l) = capacity
         /\ \A i \in Nat : InBounds(l, i) => SlotValue(l, i) = Valid
<1> DEFINE n == (capacity * bits) \div 8
<1>1. n \in Nat /\ (bits = 1 => n * 8 = capacity) /\ (bits = 2 => n * 4 = capacity)
  <2>1. CASE bits = 1 BY <2>1
  <2>2. CASE bits = 2 BY <2>2
  <2>3. QED BY <2>1, <2>2
<1> HIDE DEF n
<1>2. /\ l.bits = bits
      /\ l.bytes = [i \in 1 .. n |-> 0]
      /\ l.bytes \in Seq(Byte) /\ Len(l.bytes) = n
      /\ \A i \in 1 .. n : l.bytes[i] = 0
  <2>1. l.bits = bits /\ l.bytes = [i \in 1 .. n |-> 0]
    BY DEF n
  <2>2. [i \in 1 .. n |-> 0] \in Seq(Byte) /\ Len([i \in 1 .. n |-> 0]) = n
    BY <1>1 DEF Byte
  <2>3. QED BY <2>1, <2>2
<1>3. l \in List
  BY <1>2 DEF List
<1>4. Slots(l) = capacity
  BY <1>1, <1>2 DEF Slots, SlotsPerByte
<1>5. ASSUME NEW i \in Nat, InBounds(l, i)
      PROVE  SlotValue(l, i) = Valid
  <2>1. l.bytes[ByteIdx(l.bits, i) + 1] = 0 /\ Shift(l.bits, i) \in Shifts(bits)
    BY <1>2, <1>3, <1>5, ByteOfSlot, PlaceOfSlot
  <2>2. Field(0, Shift(l.bits, i), bits) = 0
    BY <2>1 DEF Field, Weight, Shifts
  <2>3. QED BY <1>2, <2>1, <2>2 DEF SlotValue, FromRaw, Valid
<1>6. QED BY <1>3, <1>4, <1>5

(* The initial list is made of bytes of a supported width.                 *)
LEMMA InitTyped == Init => TypeOK
<1>1. SUFFICES ASSUME NEW bits \in Widths, NEW bytes \in Bitstrings, Supported(bits),
                      list = [bits |-> bits, bytes |-> bytes],
                      call = Call("from_raw", bits, 0, Valid, Ok)
               PROVE  TypeOK
  BY DEF Init
<1>2. list \in List
  BY <1>1, ArgumentsAssumption DEF List, Supported
<1>3. call.idx = 0 /\ call.value = Valid
  BY <1>1 DEF Call
<1>4. QED BY <1>2, <1>3, ArgumentsAssumption DEF TypeOK, StatusValue

(* Each call leaves a list of bytes behind.                                *)
LEMMA NewTyped ==
  ASSUME TypeOK, NEW bits \in Widths, NEW capacity \in Capacities, New(bits, capacity)
  PROVE  TypeOK'
<1>1. call'.idx = capacity /\ call'.value = Valid
  BY DEF New, Call
<1>2. list' \in List
  <2>1. CASE NewAnswer(bits, capacity) = Ok
    <3>1. bits \in {1, 2} /\ (capacity * bits) % 8 = 0
      BY <2>1 DEF NewAnswer, Supported, Capacious, Ok, Error
    <3>2. list' = [bits  |-> bits,
                   bytes |-> [i \in 1 .. (capacity * bits) \div 8 |-> 0]]
      BY <2>1 DEF New
    <3>3. capacity \in Nat
      BY ArgumentsAssumption
    <3>4. QED BY <3>1, <3>2, <3>3, NewListIsValid
  <2>2. CASE NewAnswer(bits, capacity) # Ok
    BY <2>2 DEF New, TypeOK
  <2>3. QED BY <2>1, <2>2
<1>3. QED BY <1>1, <1>2, ArgumentsAssumption DEF TypeOK, StatusValue

(* from_raw takes bytes as they are, at a supported width only.            *)
LEMMA WrapTyped ==
  ASSUME TypeOK, NEW bits \in Widths, NEW bytes \in Bitstrings, Wrap(bits, bytes)
  PROVE  TypeOK'
<1>1. call'.idx = 0 /\ call'.value = Valid
  BY DEF Wrap, Call
<1>2. list' \in List
  <2>1. bytes \in Seq(Byte)
    BY ArgumentsAssumption
  <2>2. QED BY <2>1 DEF Wrap, Supported, List, TypeOK
<1>3. QED BY <1>1, <1>2, ArgumentsAssumption DEF TypeOK, StatusValue

(* TryFrom gives a list only after the width and the bytes are accepted.   *)
LEMMA ParseTyped ==
  ASSUME TypeOK, NEW o \in Objects, Parse(o)
  PROVE  TypeOK'
<1>1. call'.idx = 0 /\ call'.value = Valid
  BY DEF Parse, Call
<1>2. list' \in List
  <2>1. CASE ParseAnswer(o) = Ok
    <3>1. Supported(ParsedBits(o)) /\ o.lst = "Ok"
      <4>1. "InvalidFieldType" # "Ok" /\ "UnsupportedBits" # "Ok"
        OBVIOUS
      <4>2. ParsedBits(o) \in Byte
        BY <2>1, <4>1 DEF ParseAnswer, Ok, Error, Supported, Byte
      <4>3. Supported(ParsedBits(o))
        BY <2>1, <4>1, <4>2 DEF ParseAnswer, Ok, Error, Supported, Byte
      <4>4. QED BY <2>1, <4>2, <4>3 DEF ParseAnswer, Ok, Error
    <3>2. o.bytes \in Seq(Byte)
      BY <3>1, ArgumentsAssumption DEF Objects, LstErrors
    <3>3. QED BY <2>1, <3>1, <3>2 DEF Parse, Supported, List
  <2>2. CASE ParseAnswer(o) # Ok
    BY <2>2 DEF Parse, TypeOK
  <2>3. QED BY <2>1, <2>2
<1>3. QED BY <1>1, <1>2, ArgumentsAssumption DEF TypeOK, StatusValue

(* set_at answers Ok when the value fits and the index is in bounds.       *)
LEMMA SetIsStore ==
  ASSUME NEW idx, NEW value, SetAt(idx, value), SetAnswer(idx, value) = Ok
  PROVE  /\ Fits(value, list.bits) /\ InBounds(list, idx)
         /\ list' = Stored(list, idx, value)
<1>1. Fits(value, list.bits) /\ InBounds(list, idx)
  BY DEF SetAnswer, Ok, Error
<1>2. QED BY <1>1 DEF SetAt, Stored

(* A write keeps every byte a byte, by WriteIsLocal.                       *)
LEMMA SetAtTyped ==
  ASSUME TypeOK, NEW idx \in Indices, NEW value \in Values, SetAt(idx, value)
  PROVE  TypeOK'
<1>1. /\ idx \in 0 .. U64 - 1 /\ idx \in Nat
      /\ value \in StatusValue
  BY ArgumentsAssumption
<1>2. call'.idx = idx /\ call'.value = value
  BY DEF SetAt, Call
<1>3. list' \in List
  <2>1. CASE SetAnswer(idx, value) = Ok
    BY <1>1, <2>1, SetIsStore, WriteIsLocal DEF TypeOK
  <2>2. CASE SetAnswer(idx, value) # Ok
    BY <2>2 DEF SetAt, TypeOK
  <2>3. QED BY <2>1, <2>2
<1>4. QED BY <1>1, <1>2, <1>3 DEF TypeOK

(* A read leaves the list alone.                                           *)
LEMMA ValueAtTyped ==
  ASSUME TypeOK, NEW idx \in Indices, ValueAt(idx)
  PROVE  TypeOK'
<1>1. list' = list /\ call'.idx = idx /\ call'.value = Valid
  BY DEF ValueAt, Call
<1>2. QED BY <1>1, ArgumentsAssumption DEF TypeOK, StatusValue

(* Lists stay lists: their width is one that the other calls know.         *)
THEOREM TypeCorrect == Spec => []TypeOK
<1>1. Init => TypeOK
  BY InitTyped
<1>2. TypeOK /\ [Next]_vars => TypeOK'
  <2>1. SUFFICES ASSUME TypeOK, [Next]_vars PROVE TypeOK'
    OBVIOUS
  <2>2. CASE UNCHANGED vars
    BY <2>1, <2>2 DEF TypeOK, vars
  <2>3. CASE Next
    BY <2>1, <2>3, NewTyped, WrapTyped, ParseTyped, SetAtTyped, ValueAtTyped DEF Next
  <2>4. QED BY <2>1, <2>2, <2>3
<1>3. QED BY <1>1, <1>2, PTL DEF Spec

-----------------------------------------------------------------------------
(* The refinement.                                                         *)

(* The slots of a list, as the instance of StatusSlots sees them.          *)
SlotsOf(l) == [i \in 0 .. Slots(l) - 1 |-> SlotValue(l, i)]

(* The slots that exist are those in bounds.                               *)
LEMMA SlotsInBounds ==
  ASSUME NEW l \in List
  PROVE  /\ Slots(l) \in Nat
         /\ \A i \in Nat : i \in 0 .. Slots(l) - 1 <=> InBounds(l, i)
<1>1. Slots(l) \in Nat
  BY PlaceOfSlot
<1>2. ASSUME NEW i \in Nat
      PROVE  i \in 0 .. Slots(l) - 1 <=> InBounds(l, i)
  BY <1>1, PlaceOfSlot
<1>3. QED BY <1>1, <1>2

(* A list is an array.                                                     *)
LEMMA ListIsArray ==
  ASSUME NEW l \in List
  PROVE  Array!IsArray(l.bits, Slots(l), SlotsOf(l))
<1>1. \A i \in 0 .. Slots(l) - 1 : SlotValue(l, i) \in Array!Storable(l.bits)
  BY SlotsInBounds, SlotIsStorable
<1>2. l.bits \in {1, 2}
  BY DEF List
<1>3. QED BY <1>1, <1>2, SlotsInBounds DEF Array!IsArray, SlotsOf

(* A value that fits is stored under the number it has, and the others     *)
(* have no value of the width with their number.                           *)
LEMMA FitsIsStorable ==
  ASSUME NEW bits \in {1, 2}, NEW value \in StatusValue
  PROVE  /\ Fits(value, bits) => /\ FromRaw(value.number, bits) \in Array!Storable(bits)
                                 /\ FromRaw(value.number, bits).number = value.number
         /\ ~Fits(value, bits) =>
              \A v \in Array!Storable(bits) : v.number # value.number
<1>1. value.number \in Nat
  BY ValueHasNumber
<1>2. CASE bits = 1
  BY <1>1, <1>2 DEF Fits, MaxRaw, FromRaw, Array!Storable, Array!Valid, Array!Revoked,
                    Valid, Revoked
<1>3. CASE bits = 2
  BY <1>1, <1>3 DEF Fits, MaxRaw, FromRaw, Array!Storable, Array!Valid, Array!Revoked,
                    Array!Suspended, Array!Reserved, Valid, Revoked, Suspended, Reserved
<1>4. QED BY <1>2, <1>3

(* new is an array of valid slots of the capacity, or is refused.          *)
LEMMA NewRefines ==
  ASSUME TypeOK, NEW bits \in Widths, NEW capacity \in Capacities, New(bits, capacity)
  PROVE  Array!Next
<1>1. capacity \in Nat /\ bits \in Nat
  BY ArgumentsAssumption DEF Byte
<1>2. /\ call'.op = "new" /\ call'.width = bits /\ call'.idx = capacity
      /\ call'.answer = NewAnswer(bits, capacity)
  BY DEF New, Call
<1>3. NewAnswer(bits, capacity) = Ok <=> Array!Made(bits, capacity)
  BY <1>1 DEF NewAnswer, Array!Made, Supported, Capacious, Ok, Error
<1>4. Ok = Array!Ok
  BY DEF Ok, Array!Ok
<1>5. CASE NewAnswer(bits, capacity) = Ok
  <2>1. /\ bits \in {1, 2} /\ (capacity * bits) % 8 = 0
        /\ list' = [bits  |-> bits,
                    bytes |-> [i \in 1 .. (capacity * bits) \div 8 |-> 0]]
    BY <1>3, <1>5 DEF New, Array!Made
  <2>2. /\ list' \in List /\ Slots(list') = capacity /\ list'.bits = bits
        /\ \A i \in Nat : InBounds(list', i) => SlotValue(list', i) = Valid
    BY <1>1, <2>1, NewListIsValid
  <2>3. SlotsOf(list') = [i \in 0 .. capacity - 1 |-> Array!Valid]
    BY <2>2, SlotsInBounds DEF SlotsOf, Array!Valid, Valid
  <2>4. Array!IsArray(list'.bits, Slots(list'), SlotsOf(list'))
    BY <2>2, ListIsArray
  <2>5. bits # Array!Absent
    BY <2>1 DEF Array!Absent
  <2>6. Array!Replaced
    BY <1>2, <1>3, <1>4, <1>5, <2>2, <2>3, <2>4, <2>5 DEF Array!Replaced, SlotsOf
  <2>7. QED BY <2>6 DEF Array!Next
<1>6. CASE NewAnswer(bits, capacity) # Ok
  <2>1. list' = list
    BY <1>6 DEF New
  <2>2. Array!NotReplaced
    BY <1>2, <1>3, <1>4, <1>6, <2>1 DEF Array!NotReplaced
  <2>3. QED BY <2>2 DEF Array!Next
<1>7. QED BY <1>5, <1>6

(* A list that is received becomes the array that its bytes hold.          *)
LEMMA ReceivedRefines ==
  ASSUME TypeOK, TypeOK', call'.op \in {"from_raw", "try_from"}, call'.answer = Ok,
         list'.bits = IF call'.width = Absent THEN 1 ELSE call'.width
  PROVE  Array!Next
<1>1. Array!IsArray(list'.bits, Slots(list'), SlotsOf(list'))
  BY ListIsArray DEF TypeOK
<1>2. Array!Replaced
  BY <1>1 DEF Array!Replaced, SlotsOf, Ok, Array!Ok, Absent, Array!Absent
<1>3. QED BY <1>2 DEF Array!Next

(* A list that is refused leaves the present array in place.               *)
LEMMA RefusedRefines ==
  ASSUME call'.op \in {"from_raw", "try_from"}, call'.answer # Ok, list' = list
  PROVE  Array!Next
BY DEF Array!Next, Array!NotReplaced, Ok, Array!Ok

(* from_raw receives an array or is refused.                               *)
LEMMA WrapRefines ==
  ASSUME TypeOK, NEW bits \in Widths, NEW bytes \in Bitstrings, Wrap(bits, bytes)
  PROVE  Array!Next
<1>1. TypeOK'
  BY WrapTyped
<1>2. CASE Supported(bits)
  <2>1. /\ call'.op = "from_raw" /\ call'.answer = Ok /\ call'.width = bits
        /\ list'.bits = bits /\ bits # Absent
    BY <1>2 DEF Wrap, Call, Supported, Absent
  <2>2. QED BY <1>1, <2>1, ReceivedRefines
<1>3. CASE ~Supported(bits)
  <2>1. call'.op = "from_raw" /\ call'.answer # Ok /\ list' = list
    BY <1>3 DEF Wrap, Call, Ok, Error
  <2>2. QED BY <2>1, RefusedRefines
<1>4. QED BY <1>2, <1>3

(* TryFrom receives an array, of one-bit slots by default, or is refused.  *)
LEMMA ParseRefines ==
  ASSUME TypeOK, NEW o \in Objects, Parse(o)
  PROVE  Array!Next
<1>1. TypeOK'
  BY ParseTyped
<1>2. call'.op = "try_from" /\ call'.answer = ParseAnswer(o) /\ call'.width = o.bits
  BY DEF Parse, Call
<1>3. CASE ParseAnswer(o) = Ok
  <2>1. list'.bits = IF o.bits = Absent THEN 1 ELSE o.bits
    BY <1>3 DEF Parse, ParsedBits
  <2>2. QED BY <1>1, <1>2, <1>3, <2>1, ReceivedRefines
<1>4. CASE ParseAnswer(o) # Ok
  BY <1>2, <1>4, RefusedRefines DEF Parse
<1>5. QED BY <1>3, <1>4

(* set_at writes one slot of the array, or is refused for the right reason.*)
LEMMA SetAtRefines ==
  ASSUME TypeOK, NEW idx \in Indices, NEW value \in Values, SetAt(idx, value)
  PROVE  Array!Next
<1>1. idx \in Nat /\ value \in StatusValue /\ list \in List /\ list.bits \in {1, 2}
  BY ArgumentsAssumption DEF TypeOK, List
<1>2. /\ call'.op = "set_at" /\ call'.idx = idx /\ call'.value = value
      /\ call'.answer = SetAnswer(idx, value)
  BY DEF SetAt, Call
<1>3. InBounds(list, idx) <=> idx \in 0 .. Slots(list) - 1
  BY <1>1, SlotsInBounds
<1>4. CASE SetAnswer(idx, value) = Ok
  <2> DEFINE v == FromRaw(value.number, list.bits)
  <2>1. /\ Fits(value, list.bits) /\ InBounds(list, idx)
        /\ list' = Stored(list, idx, value)
    BY <1>4, SetIsStore
  <2>2. v \in Array!Storable(list.bits) /\ v.number = value.number
    BY <1>1, <2>1, FitsIsStorable
  <2>3. /\ list'.bits = list.bits /\ Slots(list') = Slots(list)
        /\ SlotValue(list', idx) = v
        /\ \A i \in Nat : i # idx /\ InBounds(list, i) =>
             SlotValue(list', i) = SlotValue(list, i)
    BY <1>1, <2>1, WriteIsLocal
  <2> HIDE DEF v
  <2>4. SlotsOf(list') = [SlotsOf(list) EXCEPT ![idx] = v]
    <3>1. idx \in 0 .. Slots(list) - 1
      BY <1>3, <2>1
    <3>2. \A i \in 0 .. Slots(list) - 1 :
            SlotValue(list', i) = IF i = idx THEN v ELSE SlotValue(list, i)
      BY <1>1, <2>3, SlotsInBounds
    <3>3. QED BY <2>3, <3>1, <3>2 DEF SlotsOf
  <2>5. Array!Written
    BY <1>2, <1>3, <1>4, <2>1, <2>2, <2>3, <2>4
    DEF Array!Written, SlotsOf, Ok, Array!Ok
  <2>6. QED BY <2>5 DEF Array!Next
<1>5. CASE SetAnswer(idx, value) # Ok
  <2>1. list' = list
    BY <1>5 DEF SetAt
  <2>2. CASE ~Fits(value, list.bits)
    <3>1. \A v \in Array!Storable(list.bits) : v.number # value.number
      BY <1>1, <2>2, FitsIsStorable
    <3>2. SetAnswer(idx, value) = Array!Error("ValueOutOfRange")
      BY <2>2 DEF SetAnswer, Error, Array!Error
    <3>3. QED BY <1>2, <2>1, <3>1, <3>2 DEF Array!Next, Array!NotWritten
  <2>3. CASE Fits(value, list.bits)
    <3>1. \E v \in Array!Storable(list.bits) : v.number = value.number
      BY <1>1, <2>3, FitsIsStorable
    <3>2. ~InBounds(list, idx)
      BY <1>5, <2>3 DEF SetAnswer
    <3>3. SetAnswer(idx, value) = Array!Error("IdxOutOfRange")
      BY <2>3, <3>2 DEF SetAnswer, Error, Array!Error
    <3>4. QED BY <1>2, <1>3, <2>1, <3>1, <3>2, <3>3 DEF Array!Next, Array!NotWritten
  <2>4. QED BY <2>2, <2>3
<1>6. QED BY <1>4, <1>5

(* value_at reads the slot of the array.                                   *)
LEMMA ValueAtRefines ==
  ASSUME TypeOK, NEW idx \in Indices, ValueAt(idx)
  PROVE  Array!Next
<1>1. idx \in Nat /\ list \in List
  BY ArgumentsAssumption DEF TypeOK
<1>2. /\ call'.op = "value_at" /\ call'.idx = idx /\ call'.answer = ReadAnswer(idx)
      /\ list' = list
  BY DEF ValueAt, Call
<1>3. InBounds(list, idx) <=> idx \in 0 .. Slots(list) - 1
  BY <1>1, SlotsInBounds
<1>4. ReadAnswer(idx) = IF idx \in 0 .. Slots(list) - 1
                        THEN SlotsOf(list)[idx]
                        ELSE Array!Error("IdxOutOfRange")
  BY <1>3 DEF ReadAnswer, SlotsOf, Error, Array!Error
<1>5. Array!Read
  BY <1>2, <1>4 DEF Array!Read, SlotsOf
<1>6. QED BY <1>5 DEF Array!Next

(* A status list behaves as an array of status values.                     *)
THEOREM ListImplementsArray == Spec => SlotsSpec
<1>1. Init => Array!Init
  <2>1. SUFFICES ASSUME Init PROVE Array!Init
    OBVIOUS
  <2>2. Array!IsArray(list.bits, Slots(list), SlotsOf(list))
    BY <2>1, InitTyped, ListIsArray DEF TypeOK
  <2>3. call.op = "from_raw" /\ call.answer = Ok
    BY <2>1 DEF Init, Call
  <2>4. QED BY <2>2, <2>3 DEF Array!Init, SlotsOf, Ok, Array!Ok
<1>2. TypeOK /\ [Next]_vars => [Array!Next]_(Array!vars)
  <2>1. SUFFICES ASSUME TypeOK, [Next]_vars PROVE [Array!Next]_(Array!vars)
    OBVIOUS
  <2>2. CASE UNCHANGED vars
    BY <2>2 DEF vars, Array!vars
  <2>3. CASE Next
    BY <2>1, <2>3, NewRefines, WrapRefines, ParseRefines, SetAtRefines, ValueAtRefines
    DEF Next
  <2>4. QED BY <2>1, <2>2, <2>3
<1>3. QED BY <1>1, <1>2, TypeCorrect, PTL DEF Spec, SlotsSpec, Array!Spec
=============================================================================
