------------------------------- MODULE Base64 -------------------------------
(***************************************************************************)
(* base64.cpp: the encoder of the websocket handshake, and the decoder     *)
(* that comes with it.  A character is its index in base64_chars, and "="  *)
(* is Pad.  The masks and shifts of the code are \div and %.               *)
(***************************************************************************)
EXTENDS Naturals, Sequences

Byte == 0 .. 255    \* unsigned char
Digit == 0 .. 63    \* base64_chars
Pad == 64           \* '='

(* The s of length n * k in k parts, and what is left over. *)
Groups(s, n) == [k \in 1 .. Len(s) \div n |-> SubSeq(s, n * (k - 1) + 1, n * k)]
Leftover(s, n) == SubSeq(s, n * (Len(s) \div n) + 1, Len(s))
(* Parts of n each, in one sequence. *)
Joined(parts, n) ==
    [i \in 1 .. n * Len(parts) |-> parts[(i - 1) \div n + 1][((i - 1) % n) + 1]]
Filled(s, n, x) == s \o [j \in 1 .. n - Len(s) |-> x]

-----------------------------------------------------------------------------
(* MUTANT of EncodeTriple: the second digit keeps the low four bits. *)
EncodeTripleSwapped(a) ==
    <<a[1] \div 4, (a[1] % 4) * 16 + (a[2] % 16), (a[2] % 16) * 4 + a[3] \div 64, a[3] % 64>>

(* MUTANT of EncodeTriple: the masks are missing. *)
EncodeTripleUnmasked(a) ==
    <<a[1] \div 4, a[1] * 16 + a[2] \div 16, a[2] * 4 + a[3] \div 64, a[3]>>

(* char_array_3 to char_array_4, in base64_encode. *)
EncodeTriple(a) ==
    <<a[1] \div 4,
      (a[1] % 4) * 16 + a[2] \div 16,
      (a[2] % 16) * 4 + a[3] \div 64,
      a[3] % 64>>

(* A last group of i bytes is filled with zeros, gives i + 1 digits, and   *)
(* the loop of the end pads it.                                            *)
base64_encode(bytes) ==
    LET groups == Groups(bytes, 3)
        rest == Leftover(bytes, 3)
        last == SubSeq(EncodeTriple(Filled(rest, 3, 0)), 1, Len(rest) + 1)
    IN  Joined([k \in DOMAIN groups |-> EncodeTriple(groups[k])], 4)
          \o (IF rest = <<>> THEN <<>> ELSE Filled(last, 4, Pad))

(* char_array_4 to char_array_3, in base64_decode, as unsigned chars. *)
DecodeQuad(q) ==
    <<(q[1] * 4 + ((q[2] \div 16) % 4)) % 256,
      ((q[2] % 16) * 16 + ((q[3] \div 4) % 16)) % 256,
      ((q[3] % 4) * 64 + q[4]) % 256>>

(* The loop stops at the first '='.  The digits missing from a last group  *)
(* are looked up as '\0', and npos is 255 in an unsigned char.             *)
base64_decode(text) ==
    LET pads == {i \in DOMAIN text : text[i] = Pad}
        digits == IF pads = {} THEN text
                  ELSE SubSeq(text, 1, (CHOOSE i \in pads : \A j \in pads : i <= j) - 1)
        groups == Groups(digits, 4)
        rest == Leftover(digits, 4)
    IN  Joined([k \in DOMAIN groups |-> DecodeQuad(groups[k])], 3)
          \o (IF rest = <<>> THEN <<>>
              ELSE SubSeq(DecodeQuad(Filled(rest, 4, 255)), 1, Len(rest) - 1))

-----------------------------------------------------------------------------
(* RFC 4648, bit by bit: digit k is the bits 6k .. 6k + 5 of the data.     *)

Bit(bytes, n) ==
    IF n \div 8 < Len(bytes) THEN (bytes[n \div 8 + 1] \div 2 ^ (7 - (n % 8))) % 2 ELSE 0

BitsToDigit(bytes, k) ==
    LET B(j) == Bit(bytes, 6 * k + j)
    IN  32 * B(0) + 16 * B(1) + 8 * B(2) + 4 * B(3) + 2 * B(4) + B(5)

Rfc4648(bytes) ==
    [k \in 1 .. 4 * ((Len(bytes) + 2) \div 3) |->
       IF 6 * (k - 1) < 8 * Len(bytes) THEN BitsToDigit(bytes, k - 1) ELSE Pad]
=============================================================================
