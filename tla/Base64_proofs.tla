---------------------------- MODULE Base64_proofs ----------------------------
(***************************************************************************)
(* Theorems about base64.cpp, for every sequence of bytes: the encoder     *)
(* writes what RFC 4648 asks for, and the decoder takes it back.           *)
(***************************************************************************)
EXTENDS Base64, SequenceTheorems, TLAPS

-----------------------------------------------------------------------------
(* Three bytes.                                                            *)

(* The decoder of base64.cpp gives back any three bytes that its encoder   *)
(* was given.                                                              *)
THEOREM TripleRoundTrip ==
    ASSUME NEW a \in Byte, NEW b \in Byte, NEW c \in Byte
    PROVE  DecodeQuad(EncodeTriple(<<a, b, c>>)) = <<a, b, c>>
<1> DEFINE w == a \div 4
           x == (a % 4) * 16 + b \div 16
           y == (b % 16) * 4 + c \div 64
           z == c % 64
<1>1. EncodeTriple(<<a, b, c>>) = <<w, x, y, z>>
  BY DEF EncodeTriple
<1>2. (w * 4 + ((x \div 16) % 4)) % 256 = a
  BY DEF Byte
<1>3. ((x % 16) * 16 + ((y \div 4) % 16)) % 256 = b
  BY DEF Byte
<1>4. ((y % 4) * 64 + z) % 256 = c
  BY DEF Byte
<1> HIDE DEF w, x, y, z
<1>5. DecodeQuad(<<w, x, y, z>>)
        = <<(w * 4 + ((x \div 16) % 4)) % 256,
            ((x % 16) * 16 + ((y \div 4) % 16)) % 256,
            ((y % 4) * 64 + z) % 256>>
  BY DEF DecodeQuad
<1>6. QED
  BY <1>1, <1>2, <1>3, <1>4, <1>5

LEMMA TripleDigits ==
    ASSUME NEW a \in Byte, NEW b \in Byte, NEW c \in Byte
    PROVE  /\ EncodeTriple(<<a, b, c>>) \in Seq(Digit)
           /\ Len(EncodeTriple(<<a, b, c>>)) = 4
<1> DEFINE w == a \div 4
           x == (a % 4) * 16 + b \div 16
           y == (b % 16) * 4 + c \div 64
           z == c % 64
<1>1. EncodeTriple(<<a, b, c>>) = <<w, x, y, z>>
  BY DEF EncodeTriple
<1>2. w \in Digit /\ x \in Digit /\ y \in Digit /\ z \in Digit
  BY DEF Byte, Digit
<1> HIDE DEF w, x, y, z
<1>3. <<w, x, y, z>> \in Seq(Digit) /\ Len(<<w, x, y, z>>) = 4
  BY <1>2
<1>4. QED
  BY <1>1, <1>3

(* The bits of a byte are its value, by the digits they belong to. *)
LEMMA FirstDigit ==
    ASSUME NEW a \in Byte
    PROVE  32 * ((a \div 128) % 2) + 16 * ((a \div 64) % 2) + 8 * ((a \div 32) % 2)
             + 4 * ((a \div 16) % 2) + 2 * ((a \div 8) % 2) + ((a \div 4) % 2) = a \div 4
BY DEF Byte

LEMMA SecondDigit ==
    ASSUME NEW a \in Byte, NEW b \in Byte
    PROVE  32 * ((a \div 2) % 2) + 16 * (a % 2) + 8 * ((b \div 128) % 2)
             + 4 * ((b \div 64) % 2) + 2 * ((b \div 32) % 2) + ((b \div 16) % 2)
             = (a % 4) * 16 + b \div 16
<1>1. 32 * ((a \div 2) % 2) + 16 * (a % 2) = (a % 4) * 16
  BY DEF Byte
<1>2. 8 * ((b \div 128) % 2) + 4 * ((b \div 64) % 2) + 2 * ((b \div 32) % 2)
        + ((b \div 16) % 2) = b \div 16
  BY DEF Byte
<1>3. QED
  BY <1>1, <1>2 DEF Byte

LEMMA ThirdDigit ==
    ASSUME NEW b \in Byte, NEW c \in Byte
    PROVE  32 * ((b \div 8) % 2) + 16 * ((b \div 4) % 2) + 8 * ((b \div 2) % 2)
             + 4 * (b % 2) + 2 * ((c \div 128) % 2) + ((c \div 64) % 2)
             = (b % 16) * 4 + c \div 64
<1>1. 32 * ((b \div 8) % 2) + 16 * ((b \div 4) % 2) + 8 * ((b \div 2) % 2)
        + 4 * (b % 2) = (b % 16) * 4
  BY DEF Byte
<1>2. 2 * ((c \div 128) % 2) + ((c \div 64) % 2) = c \div 64
  BY DEF Byte
<1>3. QED
  BY <1>1, <1>2 DEF Byte

LEMMA FourthDigit ==
    ASSUME NEW c \in Byte
    PROVE  32 * ((c \div 32) % 2) + 16 * ((c \div 16) % 2) + 8 * ((c \div 8) % 2)
             + 4 * ((c \div 4) % 2) + 2 * ((c \div 2) % 2) + (c % 2) = c % 64
BY DEF Byte

-----------------------------------------------------------------------------
(* The bits of a sequence.                                                 *)

LEMMA ByteIsNat ==
    ASSUME NEW b \in Byte
    PROVE  b \in Nat
BY DEF Byte

(* The n-th byte, and zero after the last. *)
At(bytes, n) == IF n <= Len(bytes) THEN bytes[n] ELSE 0

LEMMA AtType ==
    ASSUME NEW bytes \in Seq(Byte), NEW n \in Nat, n >= 1
    PROVE  At(bytes, n) \in Byte
<1>1. CASE n <= Len(bytes)
  BY <1>1, ElementOfSeq DEF At
<1>2. CASE ~(n <= Len(bytes))
  BY <1>2 DEF At, Byte
<1>3. QED
  BY <1>1, <1>2

(* The bits of a byte, from the first, are worth these. *)
Weight == <<128, 64, 32, 16, 8, 4, 2, 1>>

LEMMA Powers ==
    ASSUME NEW p \in Nat, p <= 7
    PROVE  2 ^ (7 - p) = Weight[p + 1] /\ Weight[p + 1] \in Nat /\ Weight[p + 1] > 0
<1>10. \A n \in Nat : n = 0 => 2 ^ n = 1
  OBVIOUS
<1>11. \A n \in Nat : n = 1 => 2 ^ n = 2
  OBVIOUS
<1>12. \A n \in Nat : n = 2 => 2 ^ n = 4
  OBVIOUS
<1>13. \A n \in Nat : n = 3 => 2 ^ n = 8
  OBVIOUS
<1>14. \A n \in Nat : n = 4 => 2 ^ n = 16
  OBVIOUS
<1>15. \A n \in Nat : n = 5 => 2 ^ n = 32
  OBVIOUS
<1>16. \A n \in Nat : n = 6 => 2 ^ n = 64
  OBVIOUS
<1>17. \A n \in Nat : n = 7 => 2 ^ n = 128
  OBVIOUS
<1>2. p = 0 \/ p = 1 \/ p = 2 \/ p = 3 \/ p = 4 \/ p = 5 \/ p = 6 \/ p = 7
  OBVIOUS
<1>3. 7 - p \in Nat
  OBVIOUS
<1>4. QED
  BY <1>2, <1>3, <1>10, <1>11, <1>12, <1>13, <1>14, <1>15, <1>16, <1>17 DEF Weight

LEMMA BitOfByte ==
    ASSUME NEW bytes \in Seq(Byte), NEW n \in Nat, NEW q \in Nat, NEW p \in Nat,
           p <= 7, n = 8 * q + p
    PROVE  Bit(bytes, n) = (At(bytes, q + 1) \div Weight[p + 1]) % 2
<1>1. n \div 8 = q /\ n % 8 = p
  OBVIOUS
<1>2. Len(bytes) \in Nat
  OBVIOUS
<1>3. CASE q < Len(bytes)
  BY <1>1, <1>2, <1>3, Powers DEF Bit, At
<1>4. CASE ~(q < Len(bytes))
  <2>1. At(bytes, q + 1) = 0 /\ Bit(bytes, n) = 0
    BY <1>1, <1>2, <1>4 DEF Bit, At
  <2>2. PICK w \in Nat : w = Weight[p + 1] /\ w > 0
    BY Powers
  <2>3. (0 \div w) % 2 = 0
    BY <2>2
  <2>4. QED
    BY <2>1, <2>2, <2>3
<1>5. QED
  BY <1>3, <1>4

(* The bits of byte q, when the weights are written out. *)
LEMMA BitValues ==
    ASSUME NEW bytes \in Seq(Byte), NEW n \in Nat, NEW q \in Nat, NEW a,
           a = At(bytes, q + 1)
    PROVE  /\ n = 8 * q => Bit(bytes, n) = (a \div 128) % 2
           /\ n = 8 * q + 1 => Bit(bytes, n) = (a \div 64) % 2
           /\ n = 8 * q + 2 => Bit(bytes, n) = (a \div 32) % 2
           /\ n = 8 * q + 3 => Bit(bytes, n) = (a \div 16) % 2
           /\ n = 8 * q + 4 => Bit(bytes, n) = (a \div 8) % 2
           /\ n = 8 * q + 5 => Bit(bytes, n) = (a \div 4) % 2
           /\ n = 8 * q + 6 => Bit(bytes, n) = (a \div 2) % 2
           /\ n = 8 * q + 7 => Bit(bytes, n) = a % 2
<1>1. \A p \in Nat : p <= 7 /\ n = 8 * q + p => Bit(bytes, n) = (a \div Weight[p + 1]) % 2
  BY BitOfByte
<1>2. a \in Byte
  BY AtType
<1>3. ASSUME n = 8 * q PROVE Bit(bytes, n) = (a \div 128) % 2
  BY <1>1, <1>2, <1>3, Weight[1] = 128 DEF Weight, Byte
<1>4. ASSUME n = 8 * q + 1 PROVE Bit(bytes, n) = (a \div 64) % 2
  BY <1>1, <1>2, <1>4, Weight[2] = 64 DEF Weight, Byte
<1>5. ASSUME n = 8 * q + 2 PROVE Bit(bytes, n) = (a \div 32) % 2
  BY <1>1, <1>2, <1>5, Weight[3] = 32 DEF Weight, Byte
<1>6. ASSUME n = 8 * q + 3 PROVE Bit(bytes, n) = (a \div 16) % 2
  BY <1>1, <1>2, <1>6, Weight[4] = 16 DEF Weight, Byte
<1>7. ASSUME n = 8 * q + 4 PROVE Bit(bytes, n) = (a \div 8) % 2
  BY <1>1, <1>2, <1>7, Weight[5] = 8 DEF Weight, Byte
<1>8. ASSUME n = 8 * q + 5 PROVE Bit(bytes, n) = (a \div 4) % 2
  BY <1>1, <1>2, <1>8, Weight[6] = 4 DEF Weight, Byte
<1>9. ASSUME n = 8 * q + 6 PROVE Bit(bytes, n) = (a \div 2) % 2
  BY <1>1, <1>2, <1>9, Weight[7] = 2 DEF Weight, Byte
<1>10. ASSUME n = 8 * q + 7 PROVE Bit(bytes, n) = a % 2
  BY <1>1, <1>2, <1>10, Weight[8] = 1 DEF Weight, Byte
<1>11. QED
  BY <1>3, <1>4, <1>5, <1>6, <1>7, <1>8, <1>9, <1>10

(* RFC 4648's digits 4g .. 4g + 3 are the encoder's for the g-th triple,   *)
(* zeros standing for the bytes that are missing.                          *)
LEMMA DigitsOfTriple ==
    ASSUME NEW bytes \in Seq(Byte), NEW g \in Nat, NEW a, NEW b, NEW c,
           a = At(bytes, 3 * g + 1), b = At(bytes, 3 * g + 2), c = At(bytes, 3 * g + 3)
    PROVE  EncodeTriple(<<a, b, c>>)
             = <<BitsToDigit(bytes, 4 * g), BitsToDigit(bytes, 4 * g + 1),
                 BitsToDigit(bytes, 4 * g + 2), BitsToDigit(bytes, 4 * g + 3)>>
<1> DEFINE q == 3 * g
           r == q + 1
           s == q + 2
<1>1. q \in Nat /\ r \in Nat /\ s \in Nat
  OBVIOUS
<1>2. a \in Byte /\ b \in Byte /\ c \in Byte
  BY AtType
<1>3. a = At(bytes, q + 1) /\ b = At(bytes, r + 1) /\ c = At(bytes, s + 1)
  <2>1. r + 1 = 3 * g + 2 /\ s + 1 = 3 * g + 3
    OBVIOUS
  <2>2. QED
    BY <2>1
<1>4. BitsToDigit(bytes, 4 * g) = a \div 4
  <2> DEFINE k == 4 * g
  <2>1. /\ 6 * k = 8 * q /\ 6 * k + 1 = 8 * q + 1
        /\ 6 * k + 2 = 8 * q + 2 /\ 6 * k + 3 = 8 * q + 3
        /\ 6 * k + 4 = 8 * q + 4 /\ 6 * k + 5 = 8 * q + 5
    OBVIOUS
  <2>2. k \in Nat
    OBVIOUS
  <2> HIDE DEF k, q, r, s
  <2>3. /\ Bit(bytes, 6 * k) = (a \div 128) % 2 /\ Bit(bytes, 6 * k + 1) = (a \div 64) % 2
        /\ Bit(bytes, 6 * k + 2) = (a \div 32) % 2 /\ Bit(bytes, 6 * k + 3) = (a \div 16) % 2
        /\ Bit(bytes, 6 * k + 4) = (a \div 8) % 2 /\ Bit(bytes, 6 * k + 5) = (a \div 4) % 2
    BY <1>1, <1>3, <2>1, <2>2, BitValues
  <2>4. BitsToDigit(bytes, k) = 32 * Bit(bytes, 6 * k) + 16 * Bit(bytes, 6 * k + 1)
          + 8 * Bit(bytes, 6 * k + 2) + 4 * Bit(bytes, 6 * k + 3)
          + 2 * Bit(bytes, 6 * k + 4) + Bit(bytes, 6 * k + 5)
    BY <2>2 DEF BitsToDigit
  <2>5. BitsToDigit(bytes, k) = a \div 4
    BY <1>2, <2>3, <2>4, FirstDigit
  <2>6. QED
    BY <2>5 DEF k
<1>5. BitsToDigit(bytes, 4 * g + 1) = (a % 4) * 16 + b \div 16
  <2> DEFINE k == 4 * g + 1
  <2>1. /\ 6 * k = 8 * q + 6 /\ 6 * k + 1 = 8 * q + 7
        /\ 6 * k + 2 = 8 * r /\ 6 * k + 3 = 8 * r + 1
        /\ 6 * k + 4 = 8 * r + 2 /\ 6 * k + 5 = 8 * r + 3
    OBVIOUS
  <2>2. k \in Nat
    OBVIOUS
  <2> HIDE DEF k, q, r, s
  <2>3. /\ Bit(bytes, 6 * k) = (a \div 2) % 2 /\ Bit(bytes, 6 * k + 1) = a % 2
        /\ Bit(bytes, 6 * k + 2) = (b \div 128) % 2 /\ Bit(bytes, 6 * k + 3) = (b \div 64) % 2
        /\ Bit(bytes, 6 * k + 4) = (b \div 32) % 2 /\ Bit(bytes, 6 * k + 5) = (b \div 16) % 2
    BY <1>1, <1>3, <2>1, <2>2, BitValues
  <2>4. BitsToDigit(bytes, k) = 32 * Bit(bytes, 6 * k) + 16 * Bit(bytes, 6 * k + 1)
          + 8 * Bit(bytes, 6 * k + 2) + 4 * Bit(bytes, 6 * k + 3)
          + 2 * Bit(bytes, 6 * k + 4) + Bit(bytes, 6 * k + 5)
    BY <2>2 DEF BitsToDigit
  <2>5. BitsToDigit(bytes, k) = (a % 4) * 16 + b \div 16
    BY <1>2, <2>3, <2>4, SecondDigit
  <2>6. QED
    BY <2>5 DEF k
<1>6. BitsToDigit(bytes, 4 * g + 2) = (b % 16) * 4 + c \div 64
  <2> DEFINE k == 4 * g + 2
  <2>1. /\ 6 * k = 8 * r + 4 /\ 6 * k + 1 = 8 * r + 5
        /\ 6 * k + 2 = 8 * r + 6 /\ 6 * k + 3 = 8 * r + 7
        /\ 6 * k + 4 = 8 * s /\ 6 * k + 5 = 8 * s + 1
    OBVIOUS
  <2>2. k \in Nat
    OBVIOUS
  <2> HIDE DEF k, q, r, s
  <2>3. /\ Bit(bytes, 6 * k) = (b \div 8) % 2 /\ Bit(bytes, 6 * k + 1) = (b \div 4) % 2
        /\ Bit(bytes, 6 * k + 2) = (b \div 2) % 2 /\ Bit(bytes, 6 * k + 3) = b % 2
        /\ Bit(bytes, 6 * k + 4) = (c \div 128) % 2 /\ Bit(bytes, 6 * k + 5) = (c \div 64) % 2
    BY <1>1, <1>3, <2>1, <2>2, BitValues
  <2>4. BitsToDigit(bytes, k) = 32 * Bit(bytes, 6 * k) + 16 * Bit(bytes, 6 * k + 1)
          + 8 * Bit(bytes, 6 * k + 2) + 4 * Bit(bytes, 6 * k + 3)
          + 2 * Bit(bytes, 6 * k + 4) + Bit(bytes, 6 * k + 5)
    BY <2>2 DEF BitsToDigit
  <2>5. BitsToDigit(bytes, k) = (b % 16) * 4 + c \div 64
    BY <1>2, <2>3, <2>4, ThirdDigit
  <2>6. QED
    BY <2>5 DEF k
<1>7. BitsToDigit(bytes, 4 * g + 3) = c % 64
  <2> DEFINE k == 4 * g + 3
  <2>1. /\ 6 * k = 8 * s + 2 /\ 6 * k + 1 = 8 * s + 3
        /\ 6 * k + 2 = 8 * s + 4 /\ 6 * k + 3 = 8 * s + 5
        /\ 6 * k + 4 = 8 * s + 6 /\ 6 * k + 5 = 8 * s + 7
    OBVIOUS
  <2>2. k \in Nat
    OBVIOUS
  <2> HIDE DEF k, q, r, s
  <2>3. /\ Bit(bytes, 6 * k) = (c \div 32) % 2 /\ Bit(bytes, 6 * k + 1) = (c \div 16) % 2
        /\ Bit(bytes, 6 * k + 2) = (c \div 8) % 2 /\ Bit(bytes, 6 * k + 3) = (c \div 4) % 2
        /\ Bit(bytes, 6 * k + 4) = (c \div 2) % 2 /\ Bit(bytes, 6 * k + 5) = c % 2
    BY <1>1, <1>3, <2>1, <2>2, BitValues
  <2>4. BitsToDigit(bytes, k) = 32 * Bit(bytes, 6 * k) + 16 * Bit(bytes, 6 * k + 1)
          + 8 * Bit(bytes, 6 * k + 2) + 4 * Bit(bytes, 6 * k + 3)
          + 2 * Bit(bytes, 6 * k + 4) + Bit(bytes, 6 * k + 5)
    BY <2>2 DEF BitsToDigit
  <2>5. BitsToDigit(bytes, k) = c % 64
    BY <1>2, <2>3, <2>4, FourthDigit
  <2>6. QED
    BY <2>5 DEF k
<1>8. EncodeTriple(<<a, b, c>>)
        = <<a \div 4, (a % 4) * 16 + b \div 16, (b % 16) * 4 + c \div 64, c % 64>>
  BY DEF EncodeTriple
<1>9. QED
  BY <1>4, <1>5, <1>6, <1>7, <1>8

(* The bytes of the g-th triple, the first being the 0-th. *)
Triple(bytes, g) == <<At(bytes, 3 * g + 1), At(bytes, 3 * g + 2), At(bytes, 3 * g + 3)>>

LEMMA EncodedTriple ==
    ASSUME NEW bytes \in Seq(Byte), NEW g \in Nat, NEW r \in 1 .. 4
    PROVE  EncodeTriple(Triple(bytes, g))[r] = BitsToDigit(bytes, 4 * g + r - 1)
<1>1. EncodeTriple(Triple(bytes, g))
        = <<BitsToDigit(bytes, 4 * g), BitsToDigit(bytes, 4 * g + 1),
            BitsToDigit(bytes, 4 * g + 2), BitsToDigit(bytes, 4 * g + 3)>>
  BY DigitsOfTriple DEF Triple
<1>2. r = 1 \/ r = 2 \/ r = 3 \/ r = 4
  OBVIOUS
<1>3. 4 * g + 1 - 1 = 4 * g /\ 4 * g + 2 - 1 = 4 * g + 1
      /\ 4 * g + 3 - 1 = 4 * g + 2 /\ 4 * g + 4 - 1 = 4 * g + 3
  OBVIOUS
<1>4. QED
  BY <1>1, <1>2, <1>3

-----------------------------------------------------------------------------
(* The encoder.                                                            *)

LEMMA TripleType ==
    ASSUME NEW bytes \in Seq(Byte), NEW g \in Nat
    PROVE  Triple(bytes, g) \in Seq(Byte) /\ Len(Triple(bytes, g)) = 3
<1>1. /\ At(bytes, 3 * g + 1) \in Byte
      /\ At(bytes, 3 * g + 2) \in Byte
      /\ At(bytes, 3 * g + 3) \in Byte
  BY AtType
<1>2. QED
  BY <1>1 DEF Triple

LEMMA EncodedTripleType ==
    ASSUME NEW bytes \in Seq(Byte), NEW g \in Nat
    PROVE  /\ EncodeTriple(Triple(bytes, g)) \in Seq(Digit)
           /\ Len(EncodeTriple(Triple(bytes, g))) = 4
<1>1. /\ At(bytes, 3 * g + 1) \in Byte
      /\ At(bytes, 3 * g + 2) \in Byte
      /\ At(bytes, 3 * g + 3) \in Byte
  BY AtType
<1>2. QED
  BY <1>1, TripleDigits DEF Triple

LEMMA DigitType ==
    ASSUME NEW bytes \in Seq(Byte), NEW k \in Nat
    PROVE  BitsToDigit(bytes, k) \in Digit
<1>1. PICK g \in Nat, r \in 1 .. 4 : k = 4 * g + r - 1
  <2>1. /\ k \div 4 \in Nat /\ (k % 4) + 1 \in 1 .. 4
        /\ k = 4 * (k \div 4) + ((k % 4) + 1) - 1
    OBVIOUS
  <2>2. QED
    BY <2>1
<1>2. EncodeTriple(Triple(bytes, g))[r] = BitsToDigit(bytes, k)
  BY <1>1, EncodedTriple
<1>3. EncodeTriple(Triple(bytes, g))[r] \in Digit
  BY EncodedTripleType, ElementOfSeq
<1>4. QED
  BY <1>2, <1>3

LEMMA GroupIsTriple ==
    ASSUME NEW bytes \in Seq(Byte), NEW g \in Nat, 3 * g + 3 <= Len(bytes)
    PROVE  SubSeq(bytes, 3 * g + 1, 3 * g + 3) = Triple(bytes, g)
<1> DEFINE s == SubSeq(bytes, 3 * g + 1, 3 * g + 3)
           t == Triple(bytes, g)
<1>1. s \in Seq(Byte) /\ Len(s) = 3 /\ \A i \in 1 .. 3 : s[i] = bytes[3 * g + i]
  <2>1. Len(bytes) \in Nat
    OBVIOUS
  <2>2. 3 * g + 1 \in 1 .. Len(bytes) + 1 /\ 3 * g + 3 \in 3 * g + 1 - 1 .. Len(bytes)
    BY <2>1
  <2>3. 3 * g + 3 - (3 * g + 1) + 1 = 3
    OBVIOUS
  <2>4. \A i \in 1 .. 3 : 3 * g + 1 + i - 1 = 3 * g + i
    OBVIOUS
  <2>5. QED
    BY <2>1, <2>2, <2>3, <2>4, SubSeqProperties
<1>2. t \in Seq(Byte) /\ Len(t) = 3
  BY TripleType
<1>3. t[1] = bytes[3 * g + 1] /\ t[2] = bytes[3 * g + 2] /\ t[3] = bytes[3 * g + 3]
  BY DEF Triple, At
<1>4. \A i \in 1 .. 3 : s[i] = t[i]
  <2>1. s[1] = t[1] /\ s[2] = t[2] /\ s[3] = t[3]
    BY <1>1, <1>3
  <2> HIDE DEF s, t
  <2>2. \A i \in 1 .. 3 : i = 1 \/ i = 2 \/ i = 3
    OBVIOUS
  <2>3. QED
    BY <2>1, <2>2
<1> HIDE DEF s, t
<1>5. s = t
  BY <1>1, <1>2, <1>4
<1>6. QED
  BY <1>5 DEF s, t

(* The loop of base64_encode. *)
LEMMA WholeGroups ==
    ASSUME NEW bytes \in Seq(Byte), NEW m \in Nat, m = Len(bytes) \div 3
    PROVE  LET groups == Groups(bytes, 3)
           IN  Joined([k \in DOMAIN groups |-> EncodeTriple(groups[k])], 4)
                 = [i \in 1 .. 4 * m |-> BitsToDigit(bytes, i - 1)]
<1> DEFINE groups == Groups(bytes, 3)
           digits == [k \in 1 .. m |-> EncodeTriple(Triple(bytes, k - 1))]
<1>1. Len(bytes) \in Nat /\ 3 * m <= Len(bytes)
  OBVIOUS
<1>2. groups = [k \in 1 .. m |-> SubSeq(bytes, 3 * (k - 1) + 1, 3 * k)]
  BY DEF Groups
<1>3. \A k \in 1 .. m : groups[k] = Triple(bytes, k - 1)
  <2> SUFFICES ASSUME NEW k \in 1 .. m
               PROVE  groups[k] = Triple(bytes, k - 1)
    OBVIOUS
  <2>1. PICK g \in Nat : g = k - 1
    OBVIOUS
  <2>2. 3 * g + 3 = 3 * k /\ 3 * g + 3 <= Len(bytes)
    BY <1>1, <2>1
  <2>3. SubSeq(bytes, 3 * g + 1, 3 * g + 3) = Triple(bytes, g)
    BY <2>2, GroupIsTriple
  <2> HIDE DEF groups
  <2>4. groups[k] = SubSeq(bytes, 3 * (k - 1) + 1, 3 * k)
    BY <1>2
  <2>5. QED
    BY <2>1, <2>2, <2>3, <2>4
<1>4. DOMAIN groups = 1 .. m
  BY <1>2
<1> HIDE DEF groups
<1>5. [k \in DOMAIN groups |-> EncodeTriple(groups[k])] = digits
  BY <1>3, <1>4
<1>6. Len(digits) = m
  OBVIOUS
<1>7. Joined(digits, 4) = [i \in 1 .. 4 * m |-> digits[(i - 1) \div 4 + 1][((i - 1) % 4) + 1]]
  BY <1>6 DEF Joined
<1>8. \A i \in 1 .. 4 * m :
        digits[(i - 1) \div 4 + 1][((i - 1) % 4) + 1] = BitsToDigit(bytes, i - 1)
  <2> SUFFICES ASSUME NEW i \in 1 .. 4 * m
               PROVE  digits[(i - 1) \div 4 + 1][((i - 1) % 4) + 1]
                        = BitsToDigit(bytes, i - 1)
    OBVIOUS
  <2>1. PICK g \in Nat, r \in 1 .. 4 : g = (i - 1) \div 4 /\ r = ((i - 1) % 4) + 1
    OBVIOUS
  <2>2. g + 1 \in 1 .. m /\ 4 * g + r - 1 = i - 1 /\ g + 1 - 1 = g
    BY <2>1
  <2>3. digits[g + 1] = EncodeTriple(Triple(bytes, g))
    BY <2>2
  <2>4. EncodeTriple(Triple(bytes, g))[r] = BitsToDigit(bytes, 4 * g + r - 1)
    BY EncodedTriple
  <2> HIDE DEF digits
  <2>5. QED
    BY <2>1, <2>2, <2>3, <2>4
<1> HIDE DEF digits
<1>9. Joined(digits, 4) = [i \in 1 .. 4 * m |-> BitsToDigit(bytes, i - 1)]
  BY <1>7, <1>8
<1>10. QED
  BY <1>5, <1>9 DEF groups

LEMMA Front ==
    ASSUME NEW S, NEW s \in Seq(S), NEW n \in 0 .. Len(s)
    PROVE  /\ SubSeq(s, 1, n) \in Seq(S) /\ Len(SubSeq(s, 1, n)) = n
           /\ \A i \in 1 .. n : SubSeq(s, 1, n)[i] = s[i]
OBVIOUS

LEMMA LeftoverShape ==
    ASSUME NEW bytes \in Seq(Byte), NEW m \in Nat, NEW r \in 0 .. 2,
           Len(bytes) = 3 * m + r
    PROVE  /\ Leftover(bytes, 3) \in Seq(Byte) /\ Len(Leftover(bytes, 3)) = r
           /\ \A i \in 1 .. r : Leftover(bytes, 3)[i] = bytes[3 * m + i]
<1>1. Len(bytes) \div 3 = m
  OBVIOUS
<1>2. Leftover(bytes, 3) = SubSeq(bytes, 3 * m + 1, 3 * m + r)
  BY <1>1 DEF Leftover
<1>3. /\ 3 * m + 1 \in 1 .. Len(bytes) + 1 /\ 3 * m + r \in 3 * m + 1 - 1 .. Len(bytes)
      /\ 3 * m + r - (3 * m + 1) + 1 = r
  OBVIOUS
<1>4. \A i \in 1 .. r : 3 * m + 1 + i - 1 = 3 * m + i
  OBVIOUS
<1>5. QED
  BY <1>2, <1>3, <1>4, SubSeqProperties

(* The last group, filled with zeros, is the triple after the last whole   *)
(* one.                                                                    *)
LEMMA FilledLeftover ==
    ASSUME NEW bytes \in Seq(Byte), NEW m \in Nat, NEW r \in 1 .. 2,
           Len(bytes) = 3 * m + r
    PROVE  EncodeTriple(Filled(Leftover(bytes, 3), 3, 0)) = EncodeTriple(Triple(bytes, m))
<1> DEFINE rest == Leftover(bytes, 3)
           zeros == [j \in 1 .. 3 - r |-> 0]
           all == rest \o zeros
<1>1. /\ rest \in Seq(Byte) /\ Len(rest) = r
      /\ \A i \in 1 .. r : rest[i] = bytes[3 * m + i]
  <2>1. r \in 0 .. 2
    OBVIOUS
  <2>2. QED
    BY <2>1, LeftoverShape
<1>2. zeros \in Seq(Byte) /\ Len(zeros) = 3 - r /\ \A j \in 1 .. 3 - r : zeros[j] = 0
  BY DEF Byte
<1>3. Filled(rest, 3, 0) = all
  BY <1>1 DEF Filled
<1> HIDE DEF rest, zeros
<1>4. \A i \in 1 .. 3 : all[i] = IF i <= r THEN rest[i] ELSE zeros[i - r]
  BY <1>1, <1>2, ConcatProperties
<1> HIDE DEF all
<1>5. \A i \in 1 .. 3 : all[i] = At(bytes, 3 * m + i)
  <2> SUFFICES ASSUME NEW i \in 1 .. 3
               PROVE  all[i] = At(bytes, 3 * m + i)
    OBVIOUS
  <2>1. CASE i <= r
    <3>1. i \in 1 .. r /\ 3 * m + i <= Len(bytes)
      BY <2>1
    <3>2. all[i] = rest[i] /\ rest[i] = bytes[3 * m + i]
      BY <1>1, <1>4, <2>1, <3>1
    <3>3. QED
      BY <3>1, <3>2 DEF At
  <2>2. CASE ~(i <= r)
    <3>1. i - r \in 1 .. 3 - r /\ ~(3 * m + i <= Len(bytes))
      BY <2>2
    <3>2. QED
      BY <1>2, <1>4, <2>2, <3>1 DEF At
  <2>3. QED
    BY <2>1, <2>2
<1>6. /\ all[1] = At(bytes, 3 * m + 1)
      /\ all[2] = At(bytes, 3 * m + 2)
      /\ all[3] = At(bytes, 3 * m + 3)
  BY <1>5
<1>7. /\ Triple(bytes, m)[1] = At(bytes, 3 * m + 1)
      /\ Triple(bytes, m)[2] = At(bytes, 3 * m + 2)
      /\ Triple(bytes, m)[3] = At(bytes, 3 * m + 3)
  BY DEF Triple
<1>8. EncodeTriple(all) = EncodeTriple(Triple(bytes, m))
  BY <1>6, <1>7 DEF EncodeTriple
<1>9. QED
  BY <1>3, <1>8 DEF rest

Char == Digit \cup {Pad}

(* The end of base64_encode: r + 1 digits and the padding. *)
LEMMA LastGroup ==
    ASSUME NEW bytes \in Seq(Byte), NEW m \in Nat, NEW r \in 1 .. 2,
           Len(bytes) = 3 * m + r
    PROVE  LET last == SubSeq(EncodeTriple(Filled(Leftover(bytes, 3), 3, 0)), 1, r + 1)
           IN  Filled(last, 4, Pad)
                 = [i \in 1 .. 4 |-> IF i <= r + 1 THEN BitsToDigit(bytes, 4 * m + i - 1) ELSE Pad]
<1> DEFINE quad == EncodeTriple(Filled(Leftover(bytes, 3), 3, 0))
           last == SubSeq(quad, 1, r + 1)
           pads == [j \in 1 .. 4 - (r + 1) |-> Pad]
           all == last \o pads
<1>1. quad = EncodeTriple(Triple(bytes, m))
  BY FilledLeftover
<1>2. quad \in Seq(Char) /\ Len(quad) = 4
  <2>1. quad \in Seq(Digit) /\ Len(quad) = 4
    BY <1>1, EncodedTripleType
  <2>2. QED
    BY <2>1, SeqMonotonic DEF Char
<1>3. \A i \in 1 .. 4 : quad[i] = BitsToDigit(bytes, 4 * m + i - 1)
  BY <1>1, EncodedTriple
<1> HIDE DEF quad
<1>4. /\ last \in Seq(Char) /\ Len(last) = r + 1
      /\ \A i \in 1 .. r + 1 : last[i] = quad[i]
  <2>1. r + 1 \in 0 .. Len(quad)
    BY <1>2
  <2>2. QED
    BY <1>2, <2>1, Front
<1>5. pads \in Seq(Char) /\ Len(pads) = 4 - (r + 1) /\ \A j \in 1 .. 4 - (r + 1) : pads[j] = Pad
  BY DEF Char
<1>6. Filled(last, 4, Pad) = all
  BY <1>4 DEF Filled
<1> HIDE DEF last, pads
<1>7. /\ all \in Seq(Char) /\ Len(all) = 4
      /\ \A i \in 1 .. 4 : all[i] = IF i <= r + 1 THEN last[i] ELSE pads[i - (r + 1)]
  <2>1. Len(last) + Len(pads) = 4
    BY <1>4, <1>5
  <2>2. /\ all \in Seq(Char) /\ Len(all) = Len(last) + Len(pads)
        /\ \A i \in 1 .. Len(last) + Len(pads) :
             all[i] = IF i <= Len(last) THEN last[i] ELSE pads[i - Len(last)]
    BY <1>4, <1>5, ConcatProperties
  <2>3. QED
    BY <1>4, <2>1, <2>2
<1> HIDE DEF all
<1>8. \A i \in 1 .. 4 : all[i]
        = IF i <= r + 1 THEN BitsToDigit(bytes, 4 * m + i - 1) ELSE Pad
  <2> SUFFICES ASSUME NEW i \in 1 .. 4
               PROVE  all[i]
                        = IF i <= r + 1 THEN BitsToDigit(bytes, 4 * m + i - 1) ELSE Pad
    OBVIOUS
  <2>1. CASE i <= r + 1
    <3>1. i \in 1 .. r + 1
      BY <2>1
    <3>2. QED
      BY <1>3, <1>4, <1>7, <2>1, <3>1
  <2>2. CASE ~(i <= r + 1)
    <3>1. i - (r + 1) \in 1 .. 4 - (r + 1)
      BY <2>2
    <3>2. QED
      BY <1>5, <1>7, <2>2, <3>1
  <2>3. QED
    BY <2>1, <2>2
<1>9. all
         = [i \in 1 .. 4 |-> IF i <= r + 1 THEN BitsToDigit(bytes, 4 * m + i - 1) ELSE Pad]
  BY <1>7, <1>8
<1>10. QED
  BY <1>6, <1>9 DEF last, quad

(* base64_encode writes the text that RFC 4648 has for the bytes, however  *)
(* many they are: each group's digits in place, and the right padding.     *)
THEOREM EncodeIsRfc4648 ==
    ASSUME NEW bytes \in Seq(Byte)
    PROVE  base64_encode(bytes) = Rfc4648(bytes)
<1> DEFINE L == Len(bytes)
<1>1. PICK m \in Nat, r \in 0 .. 2 : L = 3 * m + r
  <2>1. L \in Nat
    OBVIOUS
  <2>2. L \div 3 \in Nat /\ L % 3 \in 0 .. 2 /\ L = 3 * (L \div 3) + (L % 3)
    BY <2>1
  <2>3. QED
    BY <2>2
<1> DEFINE rest == Leftover(bytes, 3)
           whole == [i \in 1 .. 4 * m |-> BitsToDigit(bytes, i - 1)]
           end == [i \in 1 .. 4 |-> IF i <= r + 1 THEN BitsToDigit(bytes, 4 * m + i - 1) ELSE Pad]
<1>2. L \div 3 = m
  BY <1>1
<1>3. LET groups == Groups(bytes, 3)
      IN  Joined([k \in DOMAIN groups |-> EncodeTriple(groups[k])], 4) = whole
  BY <1>2, WholeGroups
<1>4. Len(rest) = r
  BY <1>1, LeftoverShape
<1>5. \A k \in Nat : BitsToDigit(bytes, k) \in Char
  BY DigitType DEF Char
<1>6. CASE r = 0
  <2>1. rest = <<>>
    BY <1>1, <1>6, <1>4, LeftoverShape
  <2>2. base64_encode(bytes) = whole \o <<>>
    BY <1>3, <2>1 DEF base64_encode
  <2>3. whole \in Seq(Char)
    BY <1>5
  <2>4. base64_encode(bytes) = whole
    BY <2>2, <2>3
  <2>5. (L + 2) \div 3 = m /\ \A k \in 1 .. 4 * m : 6 * (k - 1) < 8 * L
    BY <1>1, <1>6
  <2>6. Rfc4648(bytes) = whole
    BY <2>5 DEF Rfc4648
  <2>7. QED
    BY <2>4, <2>6
<1>7. CASE r \in 1 .. 2
  <2>1. rest # <<>>
    BY <1>4, <1>7
  <2>2. Filled(SubSeq(EncodeTriple(Filled(rest, 3, 0)), 1, Len(rest) + 1), 4, Pad) = end
    BY <1>1, <1>4, <1>7, LastGroup
  <2>3. base64_encode(bytes) = whole \o end
    BY <1>3, <2>1, <2>2 DEF base64_encode
  <2>4. whole \in Seq(Char) /\ Len(whole) = 4 * m
    BY <1>5
  <2>5. end \in Seq(Char) /\ Len(end) = 4
    BY <1>5 DEF Char
  <2> DEFINE all == whole \o end
  <2> HIDE DEF whole, end
  <2>6. /\ all \in Seq(Char) /\ Len(all) = 4 * m + 4
        /\ \A k \in 1 .. 4 * m + 4 : all[k] = IF k <= 4 * m THEN whole[k] ELSE end[k - 4 * m]
    <3>1. /\ all \in Seq(Char) /\ Len(all) = Len(whole) + Len(end)
          /\ \A k \in 1 .. Len(whole) + Len(end) :
               all[k] = IF k <= Len(whole) THEN whole[k] ELSE end[k - Len(whole)]
      BY <2>4, <2>5, ConcatProperties
    <3> HIDE DEF all
    <3>2. QED
      BY <2>4, <2>5, <3>1
  <2>7. (L + 2) \div 3 = m + 1 /\ 4 * (m + 1) = 4 * m + 4
    BY <1>1, <1>7
  <2>8. Rfc4648(bytes)
          = [k \in 1 .. 4 * m + 4 |-> IF 6 * (k - 1) < 8 * L THEN BitsToDigit(bytes, k - 1) ELSE Pad]
    BY <2>7 DEF Rfc4648
  <2>9. ASSUME NEW k \in 1 .. 4 * m + 4
        PROVE  all[k] = IF 6 * (k - 1) < 8 * L THEN BitsToDigit(bytes, k - 1) ELSE Pad
    <3>1. CASE k <= 4 * m
      <4>1. all[k] = whole[k]
        BY <2>6, <3>1
      <4>2. whole[k] = BitsToDigit(bytes, k - 1)
        BY <3>1 DEF whole
      <4>3. 6 * (k - 1) < 8 * L
        BY <1>1, <3>1
      <4>4. QED
        BY <4>1, <4>2, <4>3
    <3>2. CASE ~(k <= 4 * m)
      <4>1. PICK i \in 1 .. 4 : k = 4 * m + i
        <5>1. k - 4 * m \in 1 .. 4 /\ k = 4 * m + (k - 4 * m)
          BY <3>2
        <5>2. QED
          BY <5>1
      <4>2. k - 4 * m = i /\ 4 * m + i - 1 = k - 1
        BY <4>1
      <4>3. all[k] = end[i]
        BY <2>6, <3>2, <4>2
      <4>4. end[i] = IF i <= r + 1 THEN BitsToDigit(bytes, k - 1) ELSE Pad
        BY <4>2 DEF end
      <4>5. (6 * (k - 1) < 8 * L) <=> i <= r + 1
        BY <1>1, <1>7, <4>1
      <4>6. QED
        BY <4>3, <4>4, <4>5
    <3>3. QED
      BY <3>1, <3>2
  <2>10. base64_encode(bytes) = all
    BY <2>3
  <2> HIDE DEF all
  <2>11. QED
    BY <2>6, <2>8, <2>9, <2>10
<1>8. QED
  BY <1>6, <1>7

LEMMA Rfc4648Type ==
    ASSUME NEW bytes \in Seq(Byte)
    PROVE  Rfc4648(bytes) \in Seq(Digit \cup {Pad})
<1> DEFINE n == 4 * ((Len(bytes) + 2) \div 3)
<1>1. n \in Nat
  <2>1. Len(bytes) \in Nat
    OBVIOUS
  <2>2. QED
    BY <2>1
<1>2. Rfc4648(bytes)
        = [k \in 1 .. n |-> IF 6 * (k - 1) < 8 * Len(bytes) THEN BitsToDigit(bytes, k - 1) ELSE Pad]
  BY DEF Rfc4648
<1> HIDE DEF n
<1>3. \A k \in 1 .. n : BitsToDigit(bytes, k - 1) \in Digit
  <2> SUFFICES ASSUME NEW k \in 1 .. n
               PROVE  BitsToDigit(bytes, k - 1) \in Digit
    OBVIOUS
  <2>1. k - 1 \in Nat
    BY <1>1
  <2>2. QED
    BY <2>1, DigitType
<1>4. QED
  BY <1>1, <1>2, <1>3

-----------------------------------------------------------------------------
(* The decoder.                                                            *)

(* The digits of a triple are decoded to it. *)
LEMMA DecodedTriple ==
    ASSUME NEW bytes \in Seq(Byte), NEW g \in Nat, NEW quad,
           \A r \in 1 .. 4 : quad[r] = BitsToDigit(bytes, 4 * g + r - 1)
    PROVE  DecodeQuad(quad) = Triple(bytes, g)
<1> DEFINE coded == EncodeTriple(Triple(bytes, g))
<1>1. \A r \in 1 .. 4 : coded[r] = BitsToDigit(bytes, 4 * g + r - 1)
  BY EncodedTriple
<1>2. DecodeQuad(coded) = Triple(bytes, g)
  <2>1. /\ At(bytes, 3 * g + 1) \in Byte
        /\ At(bytes, 3 * g + 2) \in Byte
        /\ At(bytes, 3 * g + 3) \in Byte
    BY AtType
  <2>2. QED
    BY <2>1, TripleRoundTrip DEF Triple
<1> HIDE DEF coded
<1>3. quad[1] = coded[1] /\ quad[2] = coded[2] /\ quad[3] = coded[3] /\ quad[4] = coded[4]
  BY <1>1
<1>4. DecodeQuad(quad) = DecodeQuad(coded)
  BY <1>3 DEF DecodeQuad
<1>5. QED
  BY <1>2, <1>4

(* The digits before the padding: those of whole groups and, when r bytes  *)
(* are left, r + 1 more.                                                   *)
DigitsOf(bytes, n) == [k \in 1 .. n |-> BitsToDigit(bytes, k - 1)]

LEMMA DigitsOfType ==
    ASSUME NEW bytes \in Seq(Byte), NEW n \in Nat
    PROVE  /\ DigitsOf(bytes, n) \in Seq(Digit) /\ Len(DigitsOf(bytes, n)) = n
           /\ \A k \in 1 .. n : DigitsOf(bytes, n)[k] = BitsToDigit(bytes, k - 1)
<1>1. \A k \in 1 .. n : BitsToDigit(bytes, k - 1) \in Digit
  <2> SUFFICES ASSUME NEW k \in 1 .. n
               PROVE  BitsToDigit(bytes, k - 1) \in Digit
    OBVIOUS
  <2>1. k - 1 \in Nat
    OBVIOUS
  <2>2. QED
    BY <2>1, DigitType
<1>2. QED
  BY <1>1 DEF DigitsOf

(* The loop of base64_decode. *)
LEMMA WholeQuads ==
    ASSUME NEW bytes \in Seq(Byte), NEW m \in Nat, NEW d \in 0 .. 3,
           3 * m <= Len(bytes)
    PROVE  LET groups == Groups(DigitsOf(bytes, 4 * m + d), 4)
           IN  Joined([k \in DOMAIN groups |-> DecodeQuad(groups[k])], 3)
                 = [i \in 1 .. 3 * m |-> bytes[i]]
<1> DEFINE n == 4 * m + d
           text == DigitsOf(bytes, n)
           groups == Groups(text, 4)
           triples == [k \in 1 .. m |-> Triple(bytes, k - 1)]
<1>1. /\ text \in Seq(Digit) /\ Len(text) = n
      /\ \A k \in 1 .. n : text[k] = BitsToDigit(bytes, k - 1)
  <2>1. n \in Nat
    OBVIOUS
  <2> HIDE DEF n
  <2>2. QED
    BY <2>1, DigitsOfType
<1>2. n \div 4 = m /\ 4 * m <= n
  OBVIOUS
<1> HIDE DEF text
<1>3. groups = [k \in 1 .. m |-> SubSeq(text, 4 * (k - 1) + 1, 4 * k)]
  BY <1>1, <1>2 DEF Groups
<1> HIDE DEF n
<1>4. \A k \in 1 .. m : DecodeQuad(groups[k]) = Triple(bytes, k - 1)
  <2> SUFFICES ASSUME NEW k \in 1 .. m
               PROVE  DecodeQuad(groups[k]) = Triple(bytes, k - 1)
    OBVIOUS
  <2>1. PICK g \in Nat : g = k - 1
    OBVIOUS
  <2> HIDE DEF groups
  <2>2. groups[k] = SubSeq(text, 4 * g + 1, 4 * g + 4)
    <3>1. 4 * (k - 1) + 1 = 4 * g + 1 /\ 4 * k = 4 * g + 4
      BY <2>1
    <3>2. QED
      BY <1>3, <3>1
  <2>3. \A r \in 1 .. 4 : SubSeq(text, 4 * g + 1, 4 * g + 4)[r] = text[4 * g + r]
    <3>1. /\ 4 * g + 1 \in 1 .. Len(text) + 1 /\ 4 * g + 4 \in 4 * g + 1 - 1 .. Len(text)
          /\ 4 * g + 4 - (4 * g + 1) + 1 = 4
      BY <1>1, <1>2, <2>1
    <3>2. \A r \in 1 .. 4 : 4 * g + 1 + r - 1 = 4 * g + r
      OBVIOUS
    <3>3. QED
      BY <1>1, <3>1, <3>2, SubSeqProperties
  <2>4. \A r \in 1 .. 4 : text[4 * g + r] = BitsToDigit(bytes, 4 * g + r - 1)
    <3>1. \A r \in 1 .. 4 : 4 * g + r \in 1 .. n
      BY <1>1, <1>2, <2>1
    <3>2. QED
      BY <1>1, <3>1
  <2>5. \A r \in 1 .. 4 : groups[k][r] = BitsToDigit(bytes, 4 * g + r - 1)
    BY <2>2, <2>3, <2>4
  <2>6. QED
    BY <2>1, <2>5, DecodedTriple
<1>5. DOMAIN groups = 1 .. m
  BY <1>3
<1> HIDE DEF groups
<1>6. [k \in DOMAIN groups |-> DecodeQuad(groups[k])] = triples
  BY <1>4, <1>5
<1>7. Len(triples) = m
  OBVIOUS
<1>8. Joined(triples, 3) = [i \in 1 .. 3 * m |-> triples[(i - 1) \div 3 + 1][((i - 1) % 3) + 1]]
  BY <1>7 DEF Joined
<1>9. \A i \in 1 .. 3 * m : triples[(i - 1) \div 3 + 1][((i - 1) % 3) + 1] = bytes[i]
  <2> SUFFICES ASSUME NEW i \in 1 .. 3 * m
               PROVE  triples[(i - 1) \div 3 + 1][((i - 1) % 3) + 1] = bytes[i]
    OBVIOUS
  <2>1. PICK g \in Nat, r \in 1 .. 3 : g = (i - 1) \div 3 /\ r = ((i - 1) % 3) + 1
    OBVIOUS
  <2>2. g + 1 \in 1 .. m /\ 3 * g + r = i /\ g + 1 - 1 = g /\ i <= Len(bytes)
    BY <2>1
  <2>3. triples[g + 1] = Triple(bytes, g)
    BY <2>2
  <2>4. Triple(bytes, g)[r] = At(bytes, 3 * g + r)
    <3>1. r = 1 \/ r = 2 \/ r = 3
      OBVIOUS
    <3>2. QED
      BY <3>1 DEF Triple
  <2> HIDE DEF triples
  <2>5. QED
    BY <2>1, <2>2, <2>3, <2>4 DEF At
<1> HIDE DEF triples
<1>10. Joined(triples, 3) = [i \in 1 .. 3 * m |-> bytes[i]]
  BY <1>8, <1>9
<1>11. QED
  BY <1>6, <1>10 DEF groups, text, n

(* The end of base64_decode: of three bytes it takes r, which do not       *)
(* depend on what the missing digits are read as.                          *)
LEMMA LastQuad ==
    ASSUME NEW bytes \in Seq(Byte), NEW m \in Nat, NEW r \in 1 .. 2,
           Len(bytes) = 3 * m + r
    PROVE  LET rest == Leftover(DigitsOf(bytes, 4 * m + (r + 1)), 4)
           IN  /\ Len(rest) = r + 1
               /\ SubSeq(DecodeQuad(Filled(rest, 4, 255)), 1, Len(rest) - 1)
                    = [i \in 1 .. r |-> bytes[3 * m + i]]
<1> DEFINE n == 4 * m + (r + 1)
           text == DigitsOf(bytes, n)
           rest == Leftover(text, 4)
           fill == [j \in 1 .. 4 - (r + 1) |-> 255]
           quad == rest \o fill
           coded == EncodeTriple(Triple(bytes, m))
           last == DecodeQuad(quad)
<1>1. /\ text \in Seq(Digit) /\ Len(text) = n
      /\ \A k \in 1 .. n : text[k] = BitsToDigit(bytes, k - 1)
  <2>1. n \in Nat
    OBVIOUS
  <2> HIDE DEF n
  <2>2. QED
    BY <2>1, DigitsOfType
<1> HIDE DEF text
<1>2. /\ rest \in Seq(Digit) /\ Len(rest) = r + 1
      /\ \A i \in 1 .. r + 1 : rest[i] = BitsToDigit(bytes, 4 * m + i - 1)
  <2>1. n \div 4 = m
    OBVIOUS
  <2>2. rest = SubSeq(text, 4 * m + 1, n)
    BY <1>1, <2>1 DEF Leftover
  <2>3. /\ 4 * m + 1 \in 1 .. Len(text) + 1 /\ n \in 4 * m + 1 - 1 .. Len(text)
        /\ n - (4 * m + 1) + 1 = r + 1
    BY <1>1
  <2>4. \A i \in 1 .. r + 1 : 4 * m + 1 + i - 1 = 4 * m + i /\ 4 * m + i \in 1 .. n
    OBVIOUS
  <2> HIDE DEF n, rest
  <2>5. /\ rest \in Seq(Digit) /\ Len(rest) = r + 1
        /\ \A i \in 1 .. r + 1 : rest[i] = text[4 * m + i]
    BY <1>1, <2>2, <2>3, <2>4, SubSeqProperties
  <2>6. \A i \in 1 .. r + 1 : text[4 * m + i] = BitsToDigit(bytes, 4 * m + i - 1)
    <3> SUFFICES ASSUME NEW i \in 1 .. r + 1
                 PROVE  text[4 * m + i] = BitsToDigit(bytes, 4 * m + i - 1)
      OBVIOUS
    <3> DEFINE k == 4 * m + i
    <3>1. k \in 1 .. n
      BY <2>4
    <3> HIDE DEF k
    <3>2. text[k] = BitsToDigit(bytes, k - 1)
      BY <1>1, <3>1
    <3>3. QED
      BY <3>2 DEF k
  <2>7. QED
    BY <2>5, <2>6
<1>3. Filled(rest, 4, 255) = quad
  BY <1>2 DEF Filled
<1> HIDE DEF n, rest
<1>4. \A i \in 1 .. r + 1 : quad[i] = rest[i]
  <2>1. rest \in Seq(Nat)
    <3>1. Digit \subseteq Nat
      BY DEF Digit
    <3>2. QED
      BY <1>2, <3>1, SeqMonotonic
  <2>2. fill \in Seq(Nat) /\ Len(fill) = 4 - (r + 1)
    OBVIOUS
  <2> HIDE DEF fill
  <2>3. QED
    BY <1>2, <2>1, <2>2, ConcatProperties
<1> HIDE DEF quad
<1>5. \A i \in 1 .. r + 1 : quad[i] = coded[i]
  <2>1. \A i \in 1 .. r + 1 : i \in 1 .. 4
    OBVIOUS
  <2>2. QED
    BY <1>2, <1>4, <2>1, EncodedTriple
<1>6. DecodeQuad(coded) = Triple(bytes, m)
  BY EncodedTriple, DecodedTriple
<1> HIDE DEF coded
<1>7. last[1] = bytes[3 * m + 1]
  <2>1. quad[1] = coded[1] /\ quad[2] = coded[2]
    BY <1>5
  <2>2. last[1] = DecodeQuad(coded)[1]
    BY <2>1 DEF DecodeQuad
  <2>3. Triple(bytes, m)[1] = At(bytes, 3 * m + 1)
    BY DEF Triple
  <2>4. QED
    BY <1>6, <2>2, <2>3 DEF At
<1>8. r = 2 => last[2] = bytes[3 * m + 2]
  <2> SUFFICES ASSUME r = 2
               PROVE  last[2] = bytes[3 * m + 2]
    OBVIOUS
  <2>1. quad[2] = coded[2] /\ quad[3] = coded[3]
    BY <1>5
  <2>2. last[2] = DecodeQuad(coded)[2]
    BY <2>1 DEF DecodeQuad
  <2>3. Triple(bytes, m)[2] = At(bytes, 3 * m + 2)
    BY DEF Triple
  <2>4. QED
    BY <1>6, <2>2, <2>3 DEF At
<1>9. last \in Seq({last[1], last[2], last[3]}) /\ Len(last) = 3
  BY DEF DecodeQuad
<1> HIDE DEF last
<1>10. \A i \in 1 .. r : last[i] = bytes[3 * m + i]
  <2>1. \A i \in 1 .. r : i = 1 \/ (i = 2 /\ r = 2)
    OBVIOUS
  <2>2. QED
    BY <1>7, <1>8, <2>1
<1>11. SubSeq(last, 1, r) = [i \in 1 .. r |-> bytes[3 * m + i]]
  <2> DEFINE S == {last[1], last[2], last[3]}
             front == SubSeq(last, 1, r)
  <2>1. /\ front \in Seq(S) /\ Len(front) = r
        /\ \A i \in 1 .. r : front[i] = last[i]
    <3>1. last \in Seq(S) /\ r \in 0 .. Len(last)
      BY <1>9
    <3> HIDE DEF S
    <3>2. QED
      BY <3>1, Front
  <2> HIDE DEF S, front
  <2>2. front = [i \in 1 .. r |-> bytes[3 * m + i]]
    BY <1>10, <2>1
  <2>3. QED
    BY <2>2 DEF front
<1>12. Len(rest) = r + 1 /\ Len(rest) - 1 = r
  BY <1>2
<1>13. QED
  BY <1>3, <1>11, <1>12 DEF last, rest, text, n

(* The two halves of base64_decode: what comes before the padding, and     *)
(* what it makes of that.                                                  *)
Before(text) ==
    LET pads == {i \in DOMAIN text : text[i] = Pad}
    IN  IF pads = {} THEN text
        ELSE SubSeq(text, 1, (CHOOSE i \in pads : \A j \in pads : i <= j) - 1)

DecodedText(digits) ==
    LET groups == Groups(digits, 4)
        rest == Leftover(digits, 4)
    IN  Joined([k \in DOMAIN groups |-> DecodeQuad(groups[k])], 3)
          \o (IF rest = <<>> THEN <<>>
              ELSE SubSeq(DecodeQuad(Filled(rest, 4, 255)), 1, Len(rest) - 1))

LEMMA DecodeHalves ==
    ASSUME NEW text
    PROVE  base64_decode(text) = DecodedText(Before(text))
BY DEF base64_decode, DecodedText, Before

LEMMA DigitIsNoPad ==
    ASSUME NEW d \in Digit
    PROVE  d # Pad
BY DEF Digit, Pad

(* The digits are what comes before the first padding character. *)
LEMMA BeforePadding ==
    ASSUME NEW bytes \in Seq(Byte), NEW m \in Nat, NEW r \in 0 .. 2,
           Len(bytes) = 3 * m + r
    PROVE  Before(Rfc4648(bytes)) = DigitsOf(bytes, 4 * m + IF r = 0 THEN 0 ELSE r + 1)
<1> DEFINE text == Rfc4648(bytes)
           pads == {i \in DOMAIN text : text[i] = Pad}
           all == 4 * m + IF r = 0 THEN 0 ELSE 4
           count == 4 * m + IF r = 0 THEN 0 ELSE r + 1
<1>1. /\ all \in Nat /\ count \in Nat /\ count <= all
      /\ r = 0 => count = all
      /\ r # 0 => count < all
  OBVIOUS
<1>2. 4 * ((Len(bytes) + 2) \div 3) = all
  <2>1. CASE r = 0
    <3>1. (Len(bytes) + 2) \div 3 = m
      BY <2>1
    <3>2. QED
      BY <2>1, <3>1
  <2>2. CASE r # 0
    <3>1. (Len(bytes) + 2) \div 3 = m + 1
      BY <2>2
    <3>2. QED
      BY <2>2, <3>1
  <2>3. QED
    BY <2>1, <2>2
<1>3. \A k \in 1 .. all : 6 * (k - 1) < 8 * Len(bytes) <=> k <= count
  OBVIOUS
<1>4. text = [k \in 1 .. all |-> IF 6 * (k - 1) < 8 * Len(bytes) THEN BitsToDigit(bytes, k - 1) ELSE Pad]
  BY <1>2 DEF Rfc4648
<1> HIDE DEF text, all, count
<1>5. /\ DOMAIN text = 1 .. all
      /\ \A k \in 1 .. all : k <= count => text[k] = BitsToDigit(bytes, k - 1)
      /\ \A k \in 1 .. all : ~(k <= count) => text[k] = Pad
  BY <1>3, <1>4
<1>6. /\ DigitsOf(bytes, count) \in Seq(Digit) /\ Len(DigitsOf(bytes, count)) = count
      /\ \A k \in 1 .. count : DigitsOf(bytes, count)[k] = BitsToDigit(bytes, k - 1)
  BY <1>1, DigitsOfType
<1>7. text \in Seq(Char) /\ Len(text) = all
  <2>1. text \in Seq(Char)
    BY Rfc4648Type DEF text, Char
  <2>2. QED
    BY <1>1, <1>5, <2>1
<1>8. pads = {k \in 1 .. all : ~(k <= count)}
  <2>1. \A k \in 1 .. all : k <= count => text[k] # Pad
    <3> SUFFICES ASSUME NEW k \in 1 .. all, k <= count
                 PROVE  text[k] # Pad
      OBVIOUS
    <3>1. k - 1 \in Nat
      OBVIOUS
    <3>2. BitsToDigit(bytes, k - 1) \in Digit
      BY <3>1, DigitType
    <3>3. QED
      BY <1>5, <3>2, DigitIsNoPad
  <2>2. QED
    BY <1>5, <2>1
<1> HIDE DEF pads
<1>9. CASE r = 0
  <2>1. pads = {}
    BY <1>1, <1>8, <1>9
  <2>2. \A k \in 1 .. all : text[k] = DigitsOf(bytes, count)[k]
    BY <1>1, <1>5, <1>6, <1>9
  <2>3. text = DigitsOf(bytes, count)
    BY <1>1, <1>6, <1>7, <1>9, <2>2, SeqEqual
  <2>4. QED
    BY <2>1, <2>3 DEF Before, pads, text, count
<1>10. CASE r # 0
  <2> DEFINE first == CHOOSE i \in pads : \A j \in pads : i <= j
  <2>1. count + 1 \in pads /\ \A j \in pads : count + 1 <= j
    BY <1>1, <1>8, <1>10
  <2>2. first \in pads /\ \A j \in pads : first <= j
    BY <2>1
  <2> HIDE DEF first
  <2>3. first - 1 = count
    BY <1>1, <1>8, <2>1, <2>2
  <2> DEFINE front == SubSeq(text, 1, count)
  <2>4. /\ front \in Seq(Char) /\ Len(front) = count
        /\ \A k \in 1 .. count : front[k] = text[k]
    <3>1. count \in 0 .. Len(text)
      BY <1>1, <1>7
    <3>2. QED
      BY <1>7, <3>1, Front
  <2>5. \A k \in 1 .. count : text[k] = BitsToDigit(bytes, k - 1)
    <3>1. \A k \in 1 .. count : k \in 1 .. all /\ k <= count
      BY <1>1
    <3>2. QED
      BY <1>5, <3>1
  <2> HIDE DEF front
  <2>6. front = DigitsOf(bytes, count)
    <3>1. DigitsOf(bytes, count) \in Seq(Char)
      BY <1>6, SeqMonotonic DEF Char
    <3>2. QED
      BY <1>6, <2>4, <2>5, <3>1, SeqEqual
  <2>7. pads # {}
    BY <2>1
  <2>8. QED
    BY <2>3, <2>6, <2>7 DEF Before, first, front, pads, text, count
<1>11. QED
  BY <1>9, <1>10

(* base64_decode gives back every sequence of bytes that base64_encode was *)
(* given, whatever its length and its padding.                             *)
THEOREM DecodeInvertsEncode ==
    ASSUME NEW bytes \in Seq(Byte)
    PROVE  base64_decode(base64_encode(bytes)) = bytes
<1>1. PICK m \in Nat, r \in 0 .. 2 : Len(bytes) = 3 * m + r
  <2> DEFINE L == Len(bytes)
  <2>1. L \in Nat
    OBVIOUS
  <2>2. L \div 3 \in Nat /\ L % 3 \in 0 .. 2 /\ L = 3 * (L \div 3) + (L % 3)
    BY <2>1
  <2>3. QED
    BY <2>2
<1> DEFINE d == IF r = 0 THEN 0 ELSE r + 1
           digits == DigitsOf(bytes, 4 * m + d)
           rest == Leftover(digits, 4)
           groups == Groups(digits, 4)
           whole == Joined([k \in DOMAIN groups |-> DecodeQuad(groups[k])], 3)
           end == IF rest = <<>> THEN <<>>
                  ELSE SubSeq(DecodeQuad(Filled(rest, 4, 255)), 1, Len(rest) - 1)
<1>2. base64_decode(base64_encode(bytes)) = whole \o end
  <2>1. base64_encode(bytes) = Rfc4648(bytes)
    BY EncodeIsRfc4648
  <2>2. Before(Rfc4648(bytes)) = digits
    BY <1>1, BeforePadding
  <2>3. base64_decode(base64_encode(bytes)) = DecodedText(digits)
    BY <2>1, <2>2, DecodeHalves
  <2> HIDE DEF digits
  <2>4. DecodedText(digits) = whole \o end
    BY DEF DecodedText
  <2>5. QED
    BY <2>3, <2>4
<1>3. whole = [i \in 1 .. 3 * m |-> bytes[i]]
  <2>1. d \in 0 .. 3 /\ 3 * m <= Len(bytes)
    BY <1>1
  <2> HIDE DEF d
  <2>2. QED
    BY <2>1, WholeQuads
<1>4. end = [i \in 1 .. r |-> bytes[3 * m + i]]
  <2>1. CASE r = 0
    <3>1. /\ digits \in Seq(Digit) /\ Len(digits) = 4 * m
      <4>1. 4 * m + d = 4 * m /\ 4 * m \in Nat
        BY <2>1
      <4> HIDE DEF d
      <4>2. QED
        BY <4>1, DigitsOfType
    <3> HIDE DEF digits
    <3>2. rest = <<>>
      <4>1. (4 * m) \div 4 = m
        OBVIOUS
      <4>2. rest = SubSeq(digits, 4 * m + 1, 4 * m)
        BY <3>1, <4>1 DEF Leftover
      <4>3. QED
        BY <3>1, <4>2, SubSeqEmpty
    <3>3. end = <<>>
      BY <3>2
    <3>4. [i \in 1 .. r |-> bytes[3 * m + i]] = <<>>
      BY <2>1
    <3>5. QED
      BY <3>3, <3>4
  <2>2. CASE r # 0
    <3>1. r \in 1 .. 2 /\ d = r + 1
      BY <2>2
    <3> HIDE DEF d
    <3>2. /\ Len(rest) = r + 1
          /\ SubSeq(DecodeQuad(Filled(rest, 4, 255)), 1, Len(rest) - 1)
               = [i \in 1 .. r |-> bytes[3 * m + i]]
      BY <1>1, <3>1, LastQuad
    <3> HIDE DEF rest
    <3>3. rest # <<>>
      BY <3>1, <3>2
    <3>4. QED
      BY <3>2, <3>3
  <2>3. QED
    BY <2>1, <2>2
<1> HIDE DEF whole, end
<1>5. /\ whole \in Seq(Byte) /\ Len(whole) = 3 * m
      /\ \A i \in 1 .. 3 * m : whole[i] = bytes[i]
  <2>1. \A i \in 1 .. 3 * m : i \in 1 .. Len(bytes)
    BY <1>1
  <2>2. \A i \in 1 .. 3 * m : bytes[i] \in Byte
    BY <2>1, ElementOfSeq
  <2>3. QED
    BY <1>3, <2>2
<1>6. /\ end \in Seq(Byte) /\ Len(end) = r
      /\ \A i \in 1 .. r : end[i] = bytes[3 * m + i]
  <2>1. \A i \in 1 .. r : 3 * m + i \in 1 .. Len(bytes)
    BY <1>1
  <2>2. \A i \in 1 .. r : bytes[3 * m + i] \in Byte
    BY <2>1, ElementOfSeq
  <2>3. QED
    BY <1>4, <2>2
<1> DEFINE all == whole \o end
<1>7. /\ all \in Seq(Byte) /\ Len(all) = Len(whole) + Len(end)
      /\ \A i \in 1 .. Len(whole) + Len(end) :
           all[i] = IF i <= Len(whole) THEN whole[i] ELSE end[i - Len(whole)]
  BY <1>5, <1>6, ConcatProperties
<1> HIDE DEF all
<1>8. Len(all) = Len(bytes)
  BY <1>1, <1>5, <1>6, <1>7
<1>9. ASSUME NEW i \in 1 .. Len(bytes)
      PROVE  all[i] = bytes[i]
  <2>1. CASE i <= 3 * m
    BY <1>1, <1>5, <1>6, <1>7, <2>1
  <2>2. CASE ~(i <= 3 * m)
    <3>1. i - 3 * m \in 1 .. r /\ 3 * m + (i - 3 * m) = i
      BY <1>1, <2>2
    <3>2. all[i] = end[i - 3 * m]
      BY <1>1, <1>5, <1>6, <1>7, <2>2
    <3>3. end[i - 3 * m] = bytes[3 * m + (i - 3 * m)]
      BY <1>6, <3>1
    <3>4. QED
      BY <3>1, <3>2, <3>3
  <2>3. QED
    BY <2>1, <2>2
<1>10. all = bytes
  BY <1>7, <1>8, <1>9, SeqEqual
<1>11. QED
  BY <1>2, <1>10 DEF all
=============================================================================
