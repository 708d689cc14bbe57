---------------------------- MODULE CryptoProofs ----------------------------
(***************************************************************************)
(* Proofs about Crypto for every key and every array: decrypting undoes    *)
(* encrypting and encrypting undoes decrypting, and what encrypting gives  *)
(* is what FIPS 197 asks for.                                              *)
(***************************************************************************)
EXTENDS Calculations, WordProofs

Blocks     == [1 .. 16 -> Bytes]
CipherKeys == [1 .. 32 -> Bytes]

-----------------------------------------------------------------------------
(* Bytes and the tables of the S-box. *)

(* The bit of a number at a position. *)
Bit(n, b) == (n \div 2^b) % 2

(* The bits that a byte has. *)
LEMMA BitValues ==
  \A n \in Nat : /\ Bit(n, 0) = n % 2 /\ Bit(n, 1) = (n \div 2) % 2
                 /\ Bit(n, 2) = (n \div 4) % 2 /\ Bit(n, 3) = (n \div 8) % 2
                 /\ Bit(n, 4) = (n \div 16) % 2 /\ Bit(n, 5) = (n \div 32) % 2
                 /\ Bit(n, 6) = (n \div 64) % 2 /\ Bit(n, 7) = (n \div 128) % 2
<1> TAKE n \in Nat
<1>1. n \div 1 = n
  OBVIOUS
<1>2. /\ 2^0 = 1 /\ 2^1 = 2 /\ 2^2 = 4 /\ 2^3 = 8
      /\ 2^4 = 16 /\ 2^5 = 32 /\ 2^6 = 64 /\ 2^7 = 128
  OBVIOUS
<1>3. QED
  BY <1>1, <1>2 DEF Bit

(* A bit is zero or one. *)
LEMMA BitRange == \A n \in 0 .. 255, b \in 0 .. 7 : Bit(n, b) \in {0, 1}
<1> TAKE n \in 0 .. 255, b \in 0 .. 7
<1>1. /\ n % 2 \in {0, 1} /\ (n \div 2) % 2 \in {0, 1} /\ (n \div 4) % 2 \in {0, 1}
      /\ (n \div 8) % 2 \in {0, 1} /\ (n \div 16) % 2 \in {0, 1} /\ (n \div 32) % 2 \in {0, 1}
      /\ (n \div 64) % 2 \in {0, 1} /\ (n \div 128) % 2 \in {0, 1}
  OBVIOUS
<1>2. n \in Nat
  OBVIOUS
<1>3. /\ Bit(n, 0) = n % 2 /\ Bit(n, 1) = (n \div 2) % 2
      /\ Bit(n, 2) = (n \div 4) % 2 /\ Bit(n, 3) = (n \div 8) % 2
      /\ Bit(n, 4) = (n \div 16) % 2 /\ Bit(n, 5) = (n \div 32) % 2
      /\ Bit(n, 6) = (n \div 64) % 2 /\ Bit(n, 7) = (n \div 128) % 2
  BY <1>2, BitValues
<1>4. /\ Bit(n, 0) \in {0, 1} /\ Bit(n, 1) \in {0, 1} /\ Bit(n, 2) \in {0, 1}
      /\ Bit(n, 3) \in {0, 1} /\ Bit(n, 4) \in {0, 1} /\ Bit(n, 5) \in {0, 1}
      /\ Bit(n, 6) \in {0, 1} /\ Bit(n, 7) \in {0, 1}
  BY <1>1, <1>3
<1>5. b = 0 \/ b = 1 \/ b = 2 \/ b = 3 \/ b = 4 \/ b = 5 \/ b = 6 \/ b = 7
  OBVIOUS
<1>6. QED
  BY <1>4, <1>5, Zenon

(* A number below 256 has no further bits. *)
LEMMA HighBits == \A n \in 0 .. 255, b \in 8 .. 30 : Bit(n, b) = 0
<1> TAKE n \in 0 .. 255, b \in 8 .. 30
<1>1. 2^b \in Nat /\ 2^b >= 256
  <2> CASE b = 8 OBVIOUS
  <2> CASE b = 9 OBVIOUS
  <2> CASE b = 10 OBVIOUS
  <2> CASE b = 11 OBVIOUS
  <2> CASE b = 12 OBVIOUS
  <2> CASE b = 13 OBVIOUS
  <2> CASE b = 14 OBVIOUS
  <2> CASE b = 15 OBVIOUS
  <2> CASE b = 16 OBVIOUS
  <2> CASE b = 17 OBVIOUS
  <2> CASE b = 18 OBVIOUS
  <2> CASE b = 19 OBVIOUS
  <2> CASE b = 20 OBVIOUS
  <2> CASE b = 21 OBVIOUS
  <2> CASE b = 22 OBVIOUS
  <2> CASE b = 23 OBVIOUS
  <2> CASE b = 24 OBVIOUS
  <2> CASE b = 25 OBVIOUS
  <2> CASE b = 26 OBVIOUS
  <2> CASE b = 27 OBVIOUS
  <2> CASE b = 28 OBVIOUS
  <2> CASE b = 29 OBVIOUS
  <2> CASE b = 30 OBVIOUS
  <2> QED
    OBVIOUS
<1>2. \A m \in Nat : m >= 256 => n \div m = 0
  OBVIOUS
<1>3. n \div 2^b = 0
  BY <1>1, <1>2
<1>4. 0 % 2 = 0
  OBVIOUS
<1>5. QED
  BY <1>3, <1>4 DEF Bit

(* A number below 256 is the sum of its bits, ... *)
LEMMA SumOfBits ==
  \A n \in 0 .. 255 :
    n = Bit(n, 0) + 2 * Bit(n, 1) + 4 * Bit(n, 2) + 8 * Bit(n, 3) + 16 * Bit(n, 4)
        + 32 * Bit(n, 5) + 64 * Bit(n, 6) + 128 * Bit(n, 7)
<1> TAKE n \in 0 .. 255
<1>1. n = (n % 2) + 2 * ((n \div 2) % 2) + 4 * ((n \div 4) % 2) + 8 * ((n \div 8) % 2)
          + 16 * ((n \div 16) % 2) + 32 * ((n \div 32) % 2) + 64 * ((n \div 64) % 2)
          + 128 * ((n \div 128) % 2)
  OBVIOUS
<1>2. n \in Nat
  OBVIOUS
<1>3. /\ Bit(n, 0) = n % 2 /\ Bit(n, 1) = (n \div 2) % 2
      /\ Bit(n, 2) = (n \div 4) % 2 /\ Bit(n, 3) = (n \div 8) % 2
      /\ Bit(n, 4) = (n \div 16) % 2 /\ Bit(n, 5) = (n \div 32) % 2
      /\ Bit(n, 6) = (n \div 64) % 2 /\ Bit(n, 7) = (n \div 128) % 2
  BY <1>2, BitValues
<1>4. QED
  BY <1>1, <1>3, Zenon

(* ... and any eight bits are those of one. *)
LEMMA BitsOfSum ==
  \A bit \in [0 .. 7 -> {0, 1}] : \E n \in 0 .. 255 : \A b \in 0 .. 7 : Bit(n, b) = bit[b]
<1> TAKE bit \in [0 .. 7 -> {0, 1}]
<1> DEFINE n == bit[0] + 2 * bit[1] + 4 * bit[2] + 8 * bit[3] + 16 * bit[4] + 32 * bit[5]
                + 64 * bit[6] + 128 * bit[7]
<1>1. /\ bit[0] \in {0, 1} /\ bit[1] \in {0, 1} /\ bit[2] \in {0, 1} /\ bit[3] \in {0, 1}
      /\ bit[4] \in {0, 1} /\ bit[5] \in {0, 1} /\ bit[6] \in {0, 1} /\ bit[7] \in {0, 1}
  OBVIOUS
<1>3. /\ n \in 0 .. 255
      /\ n % 2 = bit[0] /\ (n \div 2) % 2 = bit[1] /\ (n \div 4) % 2 = bit[2]
      /\ (n \div 8) % 2 = bit[3] /\ (n \div 16) % 2 = bit[4] /\ (n \div 32) % 2 = bit[5]
      /\ (n \div 64) % 2 = bit[6] /\ (n \div 128) % 2 = bit[7]
  BY <1>1
<1> HIDE DEF n
<1>4. n \in Nat
  BY <1>3
<1>5. /\ Bit(n, 0) = bit[0] /\ Bit(n, 1) = bit[1] /\ Bit(n, 2) = bit[2]
      /\ Bit(n, 3) = bit[3] /\ Bit(n, 4) = bit[4] /\ Bit(n, 5) = bit[5]
      /\ Bit(n, 6) = bit[6] /\ Bit(n, 7) = bit[7]
  BY <1>3, <1>4, BitValues
<1>6. \A b \in 0 .. 7 : b = 0 \/ b = 1 \/ b = 2 \/ b = 3 \/ b = 4 \/ b = 5 \/ b = 6 \/ b = 7
  OBVIOUS
<1>7. \A b \in 0 .. 7 : Bit(n, b) = bit[b]
  BY <1>5, <1>6, Zenon
<1>8. QED
  BY <1>3, <1>7

(* The word with the value n has the bits of n. *)
LEMMA WordBits ==
  \A n \in 0 .. 255 : Word(n) \in Bytes /\ \A b \in 0 .. 7 : b \in Word(n) <=> Bit(n, b) = 1
<1> TAKE n \in 0 .. 255
<1>1. \A b : b \in Word(n) <=> b \in 0 .. 30 /\ Bit(n, b) = 1
  BY DEF Word, Bit
<1>2. \A b \in 0 .. 30 : b \in 0 .. 7 \/ b \in 8 .. 30
  OBVIOUS
<1>3. \A b \in Word(n) : b \in 0 .. 7
  BY <1>1, <1>2, HighBits
<1>4. \A b \in 0 .. 7 : b \in 0 .. 30
  OBVIOUS
<1>5. QED
  BY <1>1, <1>3, <1>4 DEF Bytes

(* Each byte stands for one number, and each number is that of one byte. *)
LEMMA NumberOfByte ==
  /\ \A x \in Bytes : Number(x) \in 0 .. 255 /\ Word(Number(x)) = x
  /\ \A n \in 0 .. 255 : Word(n) \in Bytes /\ Number(Word(n)) = n
<1>1. 0 \in 0 .. 7 /\ 1 \in 0 .. 7 /\ 2 \in 0 .. 7 /\ 3 \in 0 .. 7 /\ 4 \in 0 .. 7
      /\ 5 \in 0 .. 7 /\ 6 \in 0 .. 7 /\ 7 \in 0 .. 7
  OBVIOUS
<1>2. ASSUME NEW n \in 0 .. 255, NEW m \in 0 .. 255, Word(n) = Word(m) PROVE n = m
  <2>1. \A b \in 0 .. 7 : Bit(n, b) = Bit(m, b)
    BY <1>2, WordBits, BitRange
  <2>2. /\ Bit(n, 0) = Bit(m, 0) /\ Bit(n, 1) = Bit(m, 1) /\ Bit(n, 2) = Bit(m, 2)
        /\ Bit(n, 3) = Bit(m, 3) /\ Bit(n, 4) = Bit(m, 4) /\ Bit(n, 5) = Bit(m, 5)
        /\ Bit(n, 6) = Bit(m, 6) /\ Bit(n, 7) = Bit(m, 7)
    BY <1>1, <2>1
  <2>3. QED
    BY <2>2, SumOfBits, Zenon
<1>3. ASSUME NEW x \in Bytes PROVE \E n \in 0 .. 255 : Word(n) = x
  <2> DEFINE bit == [b \in 0 .. 7 |-> IF b \in x THEN 1 ELSE 0]
  <2>1. bit \in [0 .. 7 -> {0, 1}] /\ \A b \in 0 .. 7 : bit[b] = 1 <=> b \in x
    OBVIOUS
  <2> HIDE DEF bit
  <2>2. PICK n \in 0 .. 255 : \A b \in 0 .. 7 : Bit(n, b) = bit[b]
    BY <2>1, BitsOfSum
  <2>3. \A b \in 0 .. 7 : b \in Word(n) <=> b \in x
    BY <2>1, <2>2, WordBits
  <2>4. Word(n) \subseteq 0 .. 7 /\ x \subseteq 0 .. 7
    BY WordBits DEF Bytes
  <2>5. Word(n) = x
    BY <2>3, <2>4
  <2>6. QED
    BY <2>5
<1>4. \A x \in Bytes : Number(x) \in 0 .. 255 /\ Word(Number(x)) = x
  BY <1>3 DEF Number
<1>5. QED
  BY <1>2, <1>4, WordBits

(* The two tables are each other's inverse. *)
LEMMA Tables ==
  /\ \A n \in 1 .. 256 : Sbox[n] \in 0 .. 255 /\ SboxInv[n] \in 0 .. 255
  /\ \A n \in 1 .. 256 : SboxInv[Sbox[n] + 1] = n - 1
  /\ \A n \in 1 .. 256 : Sbox[SboxInv[n] + 1] = n - 1
<1>1. \A n \in 1 .. 256 : Sbox[n] \in 0 .. 255
  BY SMTT(100) DEF Sbox
<1>2. \A n \in 1 .. 256 : SboxInv[n] \in 0 .. 255
  BY SMTT(100) DEF SboxInv
<1>3. \A n \in 1 .. 256 : SboxInv[Sbox[n] + 1] = n - 1
  BY SMTT(100) DEF Sbox, SboxInv
<1>4. \A n \in 1 .. 256 : Sbox[SboxInv[n] + 1] = n - 1
  BY SMTT(100) DEF Sbox, SboxInv
<1>5. QED
  BY <1>1, <1>2, <1>3, <1>4

LEMMA SboxInverts ==
  \A x \in Bytes : /\ rj_sbox(x) \in Bytes /\ rj_sbox_inv(x) \in Bytes
                   /\ rj_sbox_inv(rj_sbox(x)) = x
                   /\ rj_sbox(rj_sbox_inv(x)) = x
<1> TAKE x \in Bytes
<1> DEFINE n == Number(x)
<1>1. n \in 0 .. 255 /\ Word(n) = x
  BY NumberOfByte
<1>2. \A y \in Bytes : /\ rj_sbox(y) = Word(Sbox[1 + Number(y)])
                       /\ rj_sbox_inv(y) = Word(SboxInv[1 + Number(y)])
  BY DEF rj_sbox, rj_sbox_inv, SboxBytes, SboxInvBytes, Looked
<1> HIDE DEF n
<1>3. /\ Sbox[1 + n] \in 0 .. 255 /\ SboxInv[1 + Sbox[1 + n]] = n
      /\ SboxInv[1 + n] \in 0 .. 255 /\ Sbox[1 + SboxInv[1 + n]] = n
  <2>1. n + 1 \in 1 .. 256 /\ 1 + n = n + 1 /\ (n + 1) - 1 = n
    BY <1>1
  <2>2. \A k \in 0 .. 255 : 1 + k = k + 1
    OBVIOUS
  <2>3. QED
    BY <2>1, <2>2, Tables
<1>4. /\ Word(Sbox[1 + n]) \in Bytes /\ Number(Word(Sbox[1 + n])) = Sbox[1 + n]
      /\ Word(SboxInv[1 + n]) \in Bytes /\ Number(Word(SboxInv[1 + n])) = SboxInv[1 + n]
  BY <1>3, NumberOfByte
<1>5. rj_sbox(x) = Word(Sbox[1 + n]) /\ rj_sbox_inv(x) = Word(SboxInv[1 + n])
  BY <1>2 DEF n
<1>6. QED
  BY <1>1, <1>2, <1>3, <1>4, <1>5
-----------------------------------------------------------------------------
(* The steps of the cipher. *)

(* An array of bytes is a tuple. *)
LEMMA ArrayIs ==
  ASSUME NEW m \in Nat, NEW f \in [1 .. m -> Bytes]
  PROVE  f \in Seq(Bytes) /\ Len(f) = m /\ Array(f) = f
<1>1. f \in Seq(Bytes) /\ Len(f) = m /\ DOMAIN f = 1 .. m
  OBVIOUS
<1>2. SubSeq(f, 1, Len(f)) = f
  <2>1. SubSeq(f, 1, Len(f)) = [n \in 1 .. m |-> f[n]]
    BY <1>1
  <2>2. QED
    BY <2>1
<1>3. QED
  BY <1>1, <1>2 DEF Array

LEMMA BlockIs == \A f \in Blocks : Array(f) = f
BY ArrayIs DEF Blocks

LEMMA CipherKeyIs == \A f \in CipherKeys : Array(f) = f
BY ArrayIs DEF CipherKeys

LEMMA XorBytes == \A x, y \in Bytes : BitXor(x, y) \in Bytes
BY DEF BitXor, Bytes

(* Each byte is looked up. *)
LEMMA SubBytesIs ==
  \A b \in Blocks : /\ aes_subBytes(b) = [n \in 1 .. 16 |-> rj_sbox(b[n])]
                    /\ aes_subBytes(b) \in Blocks
<1> TAKE b \in Blocks
<1>1. [n \in 1 .. 16 |-> rj_sbox(b[n])] \in Blocks
  BY SboxInverts DEF Blocks
<1>2. QED
  BY <1>1, BlockIs DEF aes_subBytes

(* Two bytes exchanged for each other, and back. *)
LEMMA SubBytesInverts ==
  \A b \in Blocks : /\ aes_subBytes(b) \in Blocks /\ aes_subBytes_inv(b) \in Blocks
                    /\ aes_subBytes_inv(aes_subBytes(b)) = b
                    /\ aes_subBytes(aes_subBytes_inv(b)) = b
<1>1. \A b \in Blocks : /\ aes_subBytes(b) = [n \in 1 .. 16 |-> rj_sbox(b[n])]
                        /\ aes_subBytes(b) \in Blocks
  BY SubBytesIs
<1>2. \A b \in Blocks : /\ aes_subBytes_inv(b) = [n \in 1 .. 16 |-> rj_sbox_inv(b[n])]
                        /\ aes_subBytes_inv(b) \in Blocks
  <2> TAKE b \in Blocks
  <2>1. [n \in 1 .. 16 |-> rj_sbox_inv(b[n])] \in Blocks
    BY SboxInverts DEF Blocks
  <2>2. QED
    BY <2>1, BlockIs DEF aes_subBytes_inv
<1>3. ASSUME NEW b \in Blocks
      PROVE  aes_subBytes_inv(aes_subBytes(b)) = b /\ aes_subBytes(aes_subBytes_inv(b)) = b
  <2>1. \A n \in 1 .. 16 : b[n] \in Bytes
    BY DEF Blocks
  <2>2. b = [n \in 1 .. 16 |-> b[n]]
    BY DEF Blocks
  <2>3. aes_subBytes_inv(aes_subBytes(b)) = [n \in 1 .. 16 |-> b[n]]
    <3> DEFINE c == aes_subBytes(b)
    <3>1. c \in Blocks /\ \A n \in 1 .. 16 : c[n] = rj_sbox(b[n])
      BY <1>1
    <3> HIDE DEF c
    <3>2. aes_subBytes_inv(c) = [n \in 1 .. 16 |-> rj_sbox_inv(c[n])]
      BY <1>2, <3>1
    <3>3. \A n \in 1 .. 16 : rj_sbox_inv(c[n]) = b[n]
      BY <2>1, <3>1, SboxInverts
    <3>4. QED
      BY <3>2, <3>3 DEF c
  <2>4. aes_subBytes(aes_subBytes_inv(b)) = [n \in 1 .. 16 |-> b[n]]
    <3> DEFINE c == aes_subBytes_inv(b)
    <3>1. c \in Blocks /\ \A n \in 1 .. 16 : c[n] = rj_sbox_inv(b[n])
      BY <1>2
    <3> HIDE DEF c
    <3>2. aes_subBytes(c) = [n \in 1 .. 16 |-> rj_sbox(c[n])]
      BY <1>1, <3>1
    <3>3. \A n \in 1 .. 16 : rj_sbox(c[n]) = b[n]
      BY <2>1, <3>1, SboxInverts
    <3>4. QED
      BY <3>2, <3>3 DEF c
  <2>5. QED
    BY <2>2, <2>3, <2>4
<1>4. QED
  BY <1>1, <1>2, <1>3

(* Where the bytes come from. *)
LEMMA ShiftRowsIs ==
  \A b \in Blocks : /\ aes_shiftRows(b) = [n \in 1 .. 16 |-> b[ShiftedFrom[n] + 1]]
                    /\ aes_shiftRows(b) \in Blocks
<1> TAKE b \in Blocks
<1>1. \A n \in 1 .. 16 : ShiftedFrom[n] + 1 \in 1 .. 16
  BY DEF ShiftedFrom
<1>2. [n \in 1 .. 16 |-> b[ShiftedFrom[n] + 1]] \in Blocks
  BY <1>1 DEF Blocks
<1>3. QED
  BY <1>2, BlockIs DEF aes_shiftRows

(* The rows are shifted there and back. *)
LEMMA ShiftRowsInverts ==
  \A b \in Blocks : /\ aes_shiftRows(b) \in Blocks /\ aes_shiftRows_inv(b) \in Blocks
                    /\ aes_shiftRows_inv(aes_shiftRows(b)) = b
                    /\ aes_shiftRows(aes_shiftRows_inv(b)) = b
<1>1. \A n \in 1 .. 16 : /\ ShiftedFrom[n] \in 0 .. 15 /\ ShiftedInvFrom[n] \in 0 .. 15
                         /\ ShiftedFrom[ShiftedInvFrom[n] + 1] = n - 1
                         /\ ShiftedInvFrom[ShiftedFrom[n] + 1] = n - 1
  BY DEF ShiftedFrom, ShiftedInvFrom
<1>2. \A n \in 0 .. 15 : n + 1 \in 1 .. 16
  OBVIOUS
<1>3. \A b \in Blocks : /\ aes_shiftRows(b) = [n \in 1 .. 16 |-> b[ShiftedFrom[n] + 1]]
                        /\ aes_shiftRows(b) \in Blocks
  BY ShiftRowsIs
<1>4. \A b \in Blocks : /\ aes_shiftRows_inv(b) = [n \in 1 .. 16 |-> b[ShiftedInvFrom[n] + 1]]
                        /\ aes_shiftRows_inv(b) \in Blocks
  <2> TAKE b \in Blocks
  <2>1. [n \in 1 .. 16 |-> b[ShiftedInvFrom[n] + 1]] \in Blocks
    BY <1>1, <1>2 DEF Blocks
  <2>2. QED
    BY <2>1, BlockIs DEF aes_shiftRows_inv
<1>5. ASSUME NEW b \in Blocks
      PROVE  aes_shiftRows_inv(aes_shiftRows(b)) = b /\ aes_shiftRows(aes_shiftRows_inv(b)) = b
  <2>1. b = [n \in 1 .. 16 |-> b[n]]
    BY DEF Blocks
  <2>2. ASSUME NEW n \in 1 .. 16
        PROVE  /\ aes_shiftRows_inv(aes_shiftRows(b))[n] = b[n]
               /\ aes_shiftRows(aes_shiftRows_inv(b))[n] = b[n]
    <3>1. (n - 1) + 1 = n
      OBVIOUS
    <3>2. ShiftedInvFrom[n] + 1 \in 1 .. 16 /\ ShiftedFrom[n] + 1 \in 1 .. 16
      BY <1>1, <1>2
    <3>3. aes_shiftRows_inv(aes_shiftRows(b))[n] = b[ShiftedFrom[ShiftedInvFrom[n] + 1] + 1]
      <4> DEFINE c == aes_shiftRows(b)
      <4>1. c \in Blocks /\ \A m \in 1 .. 16 : c[m] = b[ShiftedFrom[m] + 1]
        BY <1>3
      <4> HIDE DEF c
      <4>2. aes_shiftRows_inv(c)[n] = c[ShiftedInvFrom[n] + 1]
        BY <1>4, <4>1
      <4>3. QED
        BY <3>2, <4>1, <4>2 DEF c
    <3>4. aes_shiftRows(aes_shiftRows_inv(b))[n] = b[ShiftedInvFrom[ShiftedFrom[n] + 1] + 1]
      <4> DEFINE c == aes_shiftRows_inv(b)
      <4>1. c \in Blocks /\ \A m \in 1 .. 16 : c[m] = b[ShiftedInvFrom[m] + 1]
        BY <1>4
      <4> HIDE DEF c
      <4>2. aes_shiftRows(c)[n] = c[ShiftedFrom[n] + 1]
        BY <1>3, <4>1
      <4>3. QED
        BY <3>2, <4>1, <4>2 DEF c
    <3>5. QED
      BY <1>1, <3>1, <3>3, <3>4
  <2>3. /\ aes_shiftRows_inv(aes_shiftRows(b)) \in Blocks
        /\ aes_shiftRows(aes_shiftRows_inv(b)) \in Blocks
    BY <1>3, <1>4
  <2>4. QED
    BY <2>2, <2>3 DEF Blocks
<1>6. QED
  BY <1>3, <1>4, <1>5

(* The half of the key that is added. *)
LEMMA AddRoundKeyIs ==
  \A c \in Blocks, k \in CipherKeys, from \in {0, 16} :
    /\ aes_addRoundKey(c, k, from) = [n \in 1 .. 16 |-> BitXor(c[n], k[from + n])]
    /\ aes_addRoundKey(c, k, from) \in Blocks
<1> TAKE c \in Blocks, k \in CipherKeys, from \in {0, 16}
<1>1. \A n \in 1 .. 16 : from + n \in 1 .. 32
  OBVIOUS
<1>2. \A n \in 1 .. 16 : k[from + n] \in Bytes
  BY <1>1 DEF CipherKeys
<1>3. [n \in 1 .. 16 |-> BitXor(c[n], k[from + n])] \in Blocks
  BY <1>2, XorBytes DEF Blocks
<1>4. QED
  BY <1>3, BlockIs DEF aes_addRoundKey

(* A round key that is added twice is gone. *)
LEMMA AddRoundKeyInverts ==
  \A b \in Blocks, k \in CipherKeys, from \in {0, 16} :
    /\ aes_addRoundKey(b, k, from) \in Blocks
    /\ aes_addRoundKey(aes_addRoundKey(b, k, from), k, from) = b
<1> TAKE b \in Blocks, k \in CipherKeys, from \in {0, 16}
<1>3. \A c \in Blocks :
        /\ aes_addRoundKey(c, k, from) = [n \in 1 .. 16 |-> BitXor(c[n], k[from + n])]
        /\ aes_addRoundKey(c, k, from) \in Blocks
  BY AddRoundKeyIs
<1>4. \A x, y : BitXor(BitXor(x, y), y) = x
  BY XorFacts
<1>5. b = [n \in 1 .. 16 |-> b[n]]
  BY DEF Blocks
<1>6. aes_addRoundKey(aes_addRoundKey(b, k, from), k, from) = [n \in 1 .. 16 |-> b[n]]
  BY <1>3, <1>4
<1>7. QED
  BY <1>3, <1>5, <1>6
-----------------------------------------------------------------------------
(* The columns: four bytes that are mixed, and mixed back. *)

(* Whether bit b of rj_xtime(x) is set. *)
LEMMA XtimeBits ==
  \A x \in Bytes : /\ rj_xtime(x) \in Bytes
                   /\ \A b : b \in rj_xtime(x) <=>
                        ~(b \in ShiftLeft(x, 8) <=> 7 \in x /\ b \in {4, 3, 1, 0})
<1> TAKE x \in Bytes
<1>1. ShiftLeft(x, 8) \in Bytes
  BY DEF ShiftLeft, Bytes
<1>2. {4, 3, 1, 0} \in Bytes
  BY DEF Bytes
<1>3. rj_xtime(x) \in Bytes
  BY <1>1, <1>2, XorBytes DEF rj_xtime
<1>4. ASSUME NEW b PROVE b \in rj_xtime(x) <=>
                           ~(b \in ShiftLeft(x, 8) <=> 7 \in x /\ b \in {4, 3, 1, 0})
  BY DEF rj_xtime, BitXor
<1>5. QED
  BY <1>3, <1>4

(* Doubling is linear. *)
LEMMA XtimeLinear ==
  \A x, y \in Bytes : rj_xtime(BitXor(x, y)) = BitXor(rj_xtime(x), rj_xtime(y))
<1> TAKE x, y \in Bytes
<1> DEFINE z == BitXor(x, y)
<1>1. z \in Bytes /\ \A b : b \in z <=> ~(b \in x <=> b \in y)
  BY XorBytes DEF BitXor
<1>2. \A b : b \in ShiftLeft(z, 8) <=> ~(b \in ShiftLeft(x, 8) <=> b \in ShiftLeft(y, 8))
  <2>1. \A w \in Bytes : \A b : b \in ShiftLeft(w, 8) <=> b \in 1 .. 7 /\ b - 1 \in w
    BY DEF ShiftLeft, Bytes
  <2> HIDE DEF z
  <2>2. QED
    BY <1>1, <2>1
<1> HIDE DEF z
<1>3. \A b : b \in BitXor(rj_xtime(x), rj_xtime(y)) <=> ~(b \in rj_xtime(x) <=> b \in rj_xtime(y))
  BY DEF BitXor
<1>4. \A b : b \in rj_xtime(z) <=> b \in BitXor(rj_xtime(x), rj_xtime(y))
  BY <1>1, <1>2, <1>3, XtimeBits
<1>5. rj_xtime(z) = BitXor(rj_xtime(x), rj_xtime(y))
  BY <1>4
<1>6. QED
  BY <1>5 DEF z

(* What aes_mixColumns and its inverse make of the first of four bytes. *)
Sum4(a, b, c, d) == BitXor(BitXor(a, b), BitXor(c, d))
Mixed(a, b, c, d) == BitXor(BitXor(a, Sum4(a, b, c, d)), rj_xtime(BitXor(a, b)))
Back4(a, b, c, d) ==
  BitXor(Sum4(a, b, c, d),
         rj_xtime(rj_xtime(BitXor(rj_xtime(Sum4(a, b, c, d)), BitXor(a, c)))))
Unmixed(a, b, c, d) == BitXor(BitXor(a, Back4(a, b, c, d)), rj_xtime(BitXor(a, b)))

(* Sums, up to the order and to what is added twice. *)
LEMMA MixedSums ==
  ASSUME NEW a, NEW b, NEW c, NEW d, NEW a2, NEW b2, NEW c2, NEW d2,
         NEW p, p = BitXor(BitXor(a, Sum4(a, b, c, d)), BitXor(a2, b2)),
         NEW q, q = BitXor(BitXor(b, Sum4(b, c, d, a)), BitXor(b2, c2)),
         NEW r, r = BitXor(BitXor(c, Sum4(c, d, a, b)), BitXor(c2, d2)),
         NEW s, s = BitXor(BitXor(d, Sum4(d, a, b, c)), BitXor(d2, a2))
  PROVE  /\ Sum4(p, q, r, s) = Sum4(a, b, c, d)
         /\ BitXor(p, r) = BitXor(BitXor(a, c), Sum4(a2, b2, c2, d2))
         /\ BitXor(p, q) = BitXor(BitXor(a, b), BitXor(a2, c2))
<1>1. Sum4(p, q, r, s) = Sum4(a, b, c, d)
  BY DEF Sum4, BitXor
<1>2. BitXor(p, r) = BitXor(BitXor(a, c), Sum4(a2, b2, c2, d2))
  BY DEF Sum4, BitXor
<1>3. BitXor(p, q) = BitXor(BitXor(a, b), BitXor(a2, c2))
  BY DEF Sum4, BitXor
<1>4. QED
  BY <1>1, <1>2, <1>3

(* The sum of a column is that of the mixed one, and it is doubled byte by byte. *)
LEMMA SumFacts ==
  \A a, b, c, d \in Bytes :
    /\ Sum4(a, b, c, d) \in Bytes
    /\ Sum4(b, c, d, a) = Sum4(a, b, c, d)
    /\ Sum4(c, d, a, b) = Sum4(a, b, c, d)
    /\ Sum4(d, a, b, c) = Sum4(a, b, c, d)
    /\ rj_xtime(Sum4(a, b, c, d)) = Sum4(rj_xtime(a), rj_xtime(b), rj_xtime(c), rj_xtime(d))
<1> TAKE a, b, c, d \in Bytes
<1>1. BitXor(a, b) \in Bytes /\ BitXor(c, d) \in Bytes
  BY XorBytes
<1>2. Sum4(a, b, c, d) \in Bytes
  BY <1>1, XorBytes DEF Sum4
<1>3. Sum4(b, c, d, a) = Sum4(a, b, c, d)
  BY DEF Sum4, BitXor
<1>4. Sum4(c, d, a, b) = Sum4(a, b, c, d)
  BY DEF Sum4, BitXor
<1>5. Sum4(d, a, b, c) = Sum4(a, b, c, d)
  BY DEF Sum4, BitXor
<1>6. rj_xtime(Sum4(a, b, c, d)) = Sum4(rj_xtime(a), rj_xtime(b), rj_xtime(c), rj_xtime(d))
  BY <1>1, XtimeLinear DEF Sum4
<1>7. QED
  BY <1>2, <1>3, <1>4, <1>5, <1>6

(* A column mixed, and mixed back. *)
LEMMA ColumnUnmixed ==
  ASSUME NEW a \in Bytes, NEW b \in Bytes, NEW c \in Bytes, NEW d \in Bytes
  PROVE  Unmixed(Mixed(a, b, c, d), Mixed(b, c, d, a), Mixed(c, d, a, b), Mixed(d, a, b, c)) = a
<1> DEFINE a2 == rj_xtime(a)
           b2 == rj_xtime(b)
           c2 == rj_xtime(c)
           d2 == rj_xtime(d)
           p == Mixed(a, b, c, d)
           q == Mixed(b, c, d, a)
           r == Mixed(c, d, a, b)
           s == Mixed(d, a, b, c)
           e == Sum4(a, b, c, d)
           e2 == Sum4(a2, b2, c2, d2)
           t == rj_xtime(BitXor(a2, c2))
<1>1. a2 \in Bytes /\ b2 \in Bytes /\ c2 \in Bytes /\ d2 \in Bytes
  BY XtimeBits
<1>2. /\ rj_xtime(BitXor(a, b)) = BitXor(a2, b2)
      /\ rj_xtime(BitXor(b, c)) = BitXor(b2, c2)
      /\ rj_xtime(BitXor(c, d)) = BitXor(c2, d2)
      /\ rj_xtime(BitXor(d, a)) = BitXor(d2, a2)
      /\ rj_xtime(BitXor(a, c)) = BitXor(a2, c2)
      /\ rj_xtime(e) = e2
  BY XtimeLinear, SumFacts
<1> HIDE DEF a2, b2, c2, d2
<1>3. /\ p = BitXor(BitXor(a, Sum4(a, b, c, d)), BitXor(a2, b2))
      /\ q = BitXor(BitXor(b, Sum4(b, c, d, a)), BitXor(b2, c2))
      /\ r = BitXor(BitXor(c, Sum4(c, d, a, b)), BitXor(c2, d2))
      /\ s = BitXor(BitXor(d, Sum4(d, a, b, c)), BitXor(d2, a2))
  BY <1>2 DEF Mixed
<1> HIDE DEF p, q, r, s
<1>4. /\ Sum4(p, q, r, s) = e
      /\ BitXor(p, r) = BitXor(BitXor(a, c), e2)
      /\ BitXor(p, q) = BitXor(BitXor(a, b), BitXor(a2, c2))
  BY <1>3, MixedSums
<1>5. BitXor(rj_xtime(e), BitXor(p, r)) = BitXor(a, c)
  <2> HIDE DEF e2
  <2>1. \A x, y : BitXor(y, BitXor(x, y)) = x
    BY DEF BitXor
  <2>2. QED
    BY <1>2, <1>4, <2>1
<1>6. rj_xtime(BitXor(p, q)) = BitXor(BitXor(a2, b2), t)
  <2>1. BitXor(a, b) \in Bytes /\ BitXor(a2, c2) \in Bytes
    BY <1>1, XorBytes
  <2>2. QED
    BY <1>2, <1>4, <2>1, XtimeLinear
<1>7. Back4(p, q, r, s) = BitXor(e, t)
  BY <1>2, <1>4, <1>5 DEF Back4
<1>8. Unmixed(p, q, r, s) = BitXor(BitXor(p, BitXor(e, t)), BitXor(BitXor(a2, b2), t))
  BY <1>6, <1>7 DEF Unmixed
<1>9. BitXor(BitXor(p, BitXor(e, t)), BitXor(BitXor(a2, b2), t)) = a
  <2> HIDE DEF e, t
  <2>1. \A v, w, x, y : BitXor(BitXor(BitXor(BitXor(v, w), x), BitXor(w, y)), BitXor(x, y)) = v
    BY DEF BitXor
  <2>2. p = BitXor(BitXor(a, e), BitXor(a2, b2))
    BY <1>3 DEF e
  <2>3. QED
    BY <2>1, <2>2
<1>10. QED
  BY <1>8, <1>9 DEF p, q, r, s

(* A column mixed back, and mixed. *)
LEMMA ColumnRemixed ==
  ASSUME NEW a \in Bytes, NEW b \in Bytes, NEW c \in Bytes, NEW d \in Bytes
  PROVE  Mixed(Unmixed(a, b, c, d), Unmixed(b, c, d, a), Unmixed(c, d, a, b), Unmixed(d, a, b, c)) = a
<1> DEFINE a2 == rj_xtime(a)
           b2 == rj_xtime(b)
           c2 == rj_xtime(c)
           d2 == rj_xtime(d)
           p == Unmixed(a, b, c, d)
           q == Unmixed(b, c, d, a)
           r == Unmixed(c, d, a, b)
           s == Unmixed(d, a, b, c)
           e == Sum4(a, b, c, d)
           e2 == rj_xtime(e)
           e4 == rj_xtime(e2)
           e8 == rj_xtime(e4)
           t == rj_xtime(BitXor(a2, c2))
           u == rj_xtime(BitXor(b2, d2))
<1>1. a2 \in Bytes /\ b2 \in Bytes /\ c2 \in Bytes /\ d2 \in Bytes
  BY XtimeBits
<1>2. e \in Bytes /\ e2 \in Bytes /\ e4 \in Bytes /\ e8 \in Bytes
  BY SumFacts, XtimeBits
<1>3. /\ Sum4(b, c, d, a) = e /\ Sum4(c, d, a, b) = e /\ Sum4(d, a, b, c) = e
      /\ e2 = Sum4(a2, b2, c2, d2)
  BY SumFacts
<1>4. /\ rj_xtime(BitXor(a, b)) = BitXor(a2, b2)
      /\ rj_xtime(BitXor(b, c)) = BitXor(b2, c2)
      /\ rj_xtime(BitXor(c, d)) = BitXor(c2, d2)
      /\ rj_xtime(BitXor(d, a)) = BitXor(d2, a2)
      /\ rj_xtime(BitXor(a, c)) = BitXor(a2, c2)
      /\ rj_xtime(BitXor(b, d)) = BitXor(b2, d2)
      /\ BitXor(c, a) = BitXor(a, c) /\ BitXor(d, b) = BitXor(b, d)
  BY XtimeLinear, XorFacts
<1>5. /\ rj_xtime(rj_xtime(BitXor(e2, BitXor(a, c)))) = BitXor(e8, t)
      /\ rj_xtime(rj_xtime(BitXor(e2, BitXor(b, d)))) = BitXor(e8, u)
  <2>1. BitXor(a, c) \in Bytes /\ BitXor(b, d) \in Bytes
        /\ BitXor(a2, c2) \in Bytes /\ BitXor(b2, d2) \in Bytes
    BY <1>1, XorBytes
  <2>2. /\ rj_xtime(BitXor(e2, BitXor(a, c))) = BitXor(e4, BitXor(a2, c2))
        /\ rj_xtime(BitXor(e2, BitXor(b, d))) = BitXor(e4, BitXor(b2, d2))
    BY <1>2, <1>4, <2>1, XtimeLinear
  <2>3. QED
    BY <1>2, <2>1, <2>2, XtimeLinear
<1>6. /\ BitXor(t, u) = e4
      /\ t \in Bytes /\ u \in Bytes
  <2>1. BitXor(a2, c2) \in Bytes /\ BitXor(b2, d2) \in Bytes
    BY <1>1, XorBytes
  <2>2. BitXor(t, u) = rj_xtime(BitXor(BitXor(a2, c2), BitXor(b2, d2)))
    BY <2>1, XtimeLinear
  <2>3. BitXor(BitXor(a2, c2), BitXor(b2, d2)) = Sum4(a2, b2, c2, d2)
    BY DEF Sum4, BitXor
  <2>4. QED
    BY <1>3, <2>1, <2>2, <2>3, XtimeBits
<1> HIDE DEF a2, b2, c2, d2, e, e2, e4, e8, t, u
<1>7. /\ p = BitXor(BitXor(a, BitXor(e, BitXor(e8, t))), BitXor(a2, b2))
      /\ q = BitXor(BitXor(b, BitXor(e, BitXor(e8, u))), BitXor(b2, c2))
      /\ r = BitXor(BitXor(c, BitXor(e, BitXor(e8, t))), BitXor(c2, d2))
      /\ s = BitXor(BitXor(d, BitXor(e, BitXor(e8, u))), BitXor(d2, a2))
  BY <1>3, <1>4, <1>5 DEF Unmixed, Back4, e, e2
<1> HIDE DEF p, q, r, s
<1>8. Sum4(p, q, r, s) = e
  <2>1. e = Sum4(a, b, c, d)
    BY DEF e
  <2>2. QED
    BY <1>7, <2>1 DEF Sum4, BitXor
<1>9. BitXor(p, q) = BitXor(BitXor(a, b), BitXor(e4, BitXor(a2, c2)))
  BY <1>6, <1>7 DEF BitXor
<1>10. rj_xtime(BitXor(p, q)) = BitXor(BitXor(a2, b2), BitXor(e8, t))
  <2>1. BitXor(a, b) \in Bytes /\ BitXor(a2, c2) \in Bytes
    BY <1>1, XorBytes
  <2>2. BitXor(e4, BitXor(a2, c2)) \in Bytes
    BY <1>2, <2>1, XorBytes
  <2>3. rj_xtime(BitXor(e4, BitXor(a2, c2))) = BitXor(e8, t)
    BY <1>2, <2>1, XtimeLinear DEF e8, t
  <2>4. QED
    BY <1>4, <1>9, <2>1, <2>2, <2>3, XtimeLinear
<1>11. Mixed(p, q, r, s) = BitXor(BitXor(p, e), BitXor(BitXor(a2, b2), BitXor(e8, t)))
  BY <1>8, <1>10 DEF Mixed
<1>12. BitXor(BitXor(p, e), BitXor(BitXor(a2, b2), BitXor(e8, t))) = a
  <2>1. \A v, w, x, y : BitXor(BitXor(BitXor(BitXor(v, BitXor(w, y)), x), w), BitXor(x, y)) = v
    BY DEF BitXor
  <2>2. QED
    BY <1>7, <2>1
<1>13. QED
  BY <1>11, <1>12 DEF p, q, r, s

(* Whatever follows a byte around its column. *)
LEMMA Around ==
  \A n \in 1 .. 16 : /\ Below(n) \in 1 .. 16 /\ Below(Below(n)) \in 1 .. 16
                     /\ Below(Below(Below(n))) \in 1 .. 16
                     /\ Below(Below(Below(Below(n)))) = n
BY DEF Below

LEMMA MixedBytes ==
  \A a, b, c, d \in Bytes : Mixed(a, b, c, d) \in Bytes /\ Unmixed(a, b, c, d) \in Bytes
BY SumFacts, XorBytes, XtimeBits DEF Mixed, Unmixed, Back4

(* Each column is mixed. *)
LEMMA MixColumnsIs ==
  ASSUME NEW buf \in Blocks
  PROVE  /\ aes_mixColumns(buf) \in Blocks
         /\ \A n \in 1 .. 16 :
              aes_mixColumns(buf)[n] =
                Mixed(buf[n], buf[Below(n)], buf[Below(Below(n))], buf[Below(Below(Below(n)))])
<1> DEFINE f == [n \in 1 .. 16 |->
                  Mixed(buf[n], buf[Below(n)], buf[Below(Below(n))], buf[Below(Below(Below(n)))])]
<1>1. \A n \in 1 .. 16 : buf[n] \in Bytes
  BY DEF Blocks
<1>2. f \in Blocks
  BY <1>1, MixedBytes, Around DEF Blocks
<1>3. aes_mixColumns(buf) = Array(f)
  BY DEF aes_mixColumns, ColumnSum, Mixed, Sum4
<1>4. QED
  BY <1>2, <1>3, BlockIs

(* The columns are mixed there and back. *)
LEMMA MixColumnsInverts ==
  \A buf \in Blocks : /\ aes_mixColumns(buf) \in Blocks /\ aes_mixColumns_inv(buf) \in Blocks
                      /\ aes_mixColumns_inv(aes_mixColumns(buf)) = buf
                      /\ aes_mixColumns(aes_mixColumns_inv(buf)) = buf
<1>1. \A a, b, c, d \in Bytes : Mixed(a, b, c, d) \in Bytes /\ Unmixed(a, b, c, d) \in Bytes
  BY MixedBytes
<1>2. ASSUME NEW buf \in Blocks
      PROVE  /\ aes_mixColumns(buf) \in Blocks
             /\ \A n \in 1 .. 16 :
                  aes_mixColumns(buf)[n] =
                    Mixed(buf[n], buf[Below(n)], buf[Below(Below(n))], buf[Below(Below(Below(n)))])
  BY MixColumnsIs
<1>3. ASSUME NEW buf \in Blocks
      PROVE  /\ aes_mixColumns_inv(buf) \in Blocks
             /\ \A n \in 1 .. 16 :
                  aes_mixColumns_inv(buf)[n] =
                    Unmixed(buf[n], buf[Below(n)], buf[Below(Below(n))], buf[Below(Below(Below(n)))])
  <2> DEFINE f == [n \in 1 .. 16 |->
                    Unmixed(buf[n], buf[Below(n)], buf[Below(Below(n))], buf[Below(Below(Below(n)))])]
  <2>1. \A n \in 1 .. 16 : buf[n] \in Bytes
    BY DEF Blocks
  <2>2. f \in Blocks
    BY <1>1, <2>1, Around DEF Blocks
  <2>3. aes_mixColumns_inv(buf) = Array(f)
    BY DEF aes_mixColumns_inv, ColumnSum, Unmixed, Back4, Sum4
  <2>4. QED
    BY <2>2, <2>3, BlockIs
<1>4. ASSUME NEW buf \in Blocks
      PROVE  /\ aes_mixColumns_inv(aes_mixColumns(buf)) = buf
             /\ aes_mixColumns(aes_mixColumns_inv(buf)) = buf
  <2>1. aes_mixColumns_inv(aes_mixColumns(buf)) \in Blocks /\ aes_mixColumns(aes_mixColumns_inv(buf)) \in Blocks
    BY <1>2, <1>3
  <2>2. ASSUME NEW n \in 1 .. 16
        PROVE  /\ aes_mixColumns_inv(aes_mixColumns(buf))[n] = buf[n]
               /\ aes_mixColumns(aes_mixColumns_inv(buf))[n] = buf[n]
    <3> DEFINE b == Below(n)
               c == Below(b)
               d == Below(c)
    <3>1. b \in 1 .. 16 /\ c \in 1 .. 16 /\ d \in 1 .. 16 /\ Below(d) = n
      BY Around
    <3>2. /\ Below(n) = b /\ Below(b) = c /\ Below(c) = d
          /\ buf[n] \in Bytes /\ buf[b] \in Bytes /\ buf[c] \in Bytes /\ buf[d] \in Bytes
      BY <3>1 DEF Blocks
    <3> HIDE DEF b, c, d
    <3>3. aes_mixColumns_inv(aes_mixColumns(buf))[n] = buf[n]
      <4> DEFINE m == aes_mixColumns(buf)
      <4>1. /\ m \in Blocks
            /\ m[n] = Mixed(buf[n], buf[b], buf[c], buf[d])
            /\ m[b] = Mixed(buf[b], buf[c], buf[d], buf[n])
            /\ m[c] = Mixed(buf[c], buf[d], buf[n], buf[b])
            /\ m[d] = Mixed(buf[d], buf[n], buf[b], buf[c])
        BY <1>2, <3>1, <3>2
      <4> HIDE DEF m
      <4>2. aes_mixColumns_inv(m)[n] = Unmixed(m[n], m[b], m[c], m[d])
        BY <1>3, <3>1, <3>2, <4>1
      <4>3. QED
        BY <3>2, <4>1, <4>2, ColumnUnmixed DEF m
    <3>4. aes_mixColumns(aes_mixColumns_inv(buf))[n] = buf[n]
      <4> DEFINE m == aes_mixColumns_inv(buf)
      <4>1. /\ m \in Blocks
            /\ m[n] = Unmixed(buf[n], buf[b], buf[c], buf[d])
            /\ m[b] = Unmixed(buf[b], buf[c], buf[d], buf[n])
            /\ m[c] = Unmixed(buf[c], buf[d], buf[n], buf[b])
            /\ m[d] = Unmixed(buf[d], buf[n], buf[b], buf[c])
        BY <1>3, <3>1, <3>2
      <4> HIDE DEF m
      <4>2. aes_mixColumns(m)[n] = Mixed(m[n], m[b], m[c], m[d])
        BY <1>2, <3>1, <3>2, <4>1
      <4>3. QED
        BY <3>2, <4>1, <4>2, ColumnRemixed DEF m
    <3>5. QED
      BY <3>3, <3>4
  <2>3. QED
    BY <2>1, <2>2 DEF Blocks
<1>5. QED
  BY <1>2, <1>3, <1>4
-----------------------------------------------------------------------------
(* The key schedule. *)

(* Four bytes combined with the four before them. *)
LEMMA ChainWordIs ==
  ASSUME NEW l \in CipherKeys, NEW m \in 4 .. 28
  PROVE  /\ ChainWord(l, m) \in CipherKeys
         /\ \A n \in 1 .. 32 :
              ChainWord(l, m)[n] = IF n \in m + 1 .. m + 4 THEN BitXor(l[n], l[n - 4]) ELSE l[n]
<1> DEFINE f == [n \in 1 .. 32 |-> IF n \in m + 1 .. m + 4 THEN BitXor(l[n], l[n - 4]) ELSE l[n]]
<1>1. \A n \in m + 1 .. m + 4 : n - 4 \in 1 .. 32
  OBVIOUS
<1>2. \A n \in 1 .. 32 : l[n] \in Bytes
  BY DEF CipherKeys
<1>3. f \in CipherKeys
  BY <1>1, <1>2, XorBytes DEF CipherKeys
<1>4. ChainWord(l, m) = f
  BY <1>3, CipherKeyIs DEF ChainWord
<1>5. QED
  BY <1>3, <1>4

(* They are themselves when it is done again. *)
LEMMA ChainInverts ==
  \A k \in CipherKeys, m \in 4 .. 28 :
    ChainWord(k, m) \in CipherKeys /\ ChainWord(ChainWord(k, m), m) = k
<1> TAKE k \in CipherKeys, m \in 4 .. 28
<1>1. ASSUME NEW l \in CipherKeys
      PROVE  /\ ChainWord(l, m) \in CipherKeys
             /\ \A n \in 1 .. 32 :
                  ChainWord(l, m)[n] = IF n \in m + 1 .. m + 4 THEN BitXor(l[n], l[n - 4]) ELSE l[n]
  BY ChainWordIs
<1>2. ASSUME NEW n \in 1 .. 32 PROVE ChainWord(ChainWord(k, m), m)[n] = k[n]
  <2> DEFINE l == ChainWord(k, m)
  <2>1. l \in CipherKeys /\ \A j \in 1 .. 32 :
          l[j] = IF j \in m + 1 .. m + 4 THEN BitXor(k[j], k[j - 4]) ELSE k[j]
    BY <1>1
  <2> HIDE DEF l
  <2>2. ChainWord(l, m)[n] = IF n \in m + 1 .. m + 4 THEN BitXor(l[n], l[n - 4]) ELSE l[n]
    BY <1>1, <2>1
  <2>3. CASE n \in m + 1 .. m + 4
    <3>1. n - 4 \in 1 .. 32 /\ n - 4 \notin m + 1 .. m + 4
      BY <2>3
    <3>2. l[n - 4] = k[n - 4] /\ l[n] = BitXor(k[n], k[n - 4])
      BY <2>1, <2>3, <3>1
    <3>3. \A x, y : BitXor(BitXor(x, y), y) = x
      BY DEF BitXor
    <3>4. QED
      BY <2>2, <2>3, <3>2, <3>3 DEF l
  <2>4. CASE n \notin m + 1 .. m + 4
    BY <2>1, <2>2, <2>4 DEF l
  <2>5. QED
    BY <2>3, <2>4
<1>3. ChainWord(k, m) \in CipherKeys /\ ChainWord(ChainWord(k, m), m) \in CipherKeys
  BY <1>1
<1>4. QED
  BY <1>2, <1>3 DEF CipherKeys

(* Three words, and again in the opposite order. *)
LEMMA ChainsInvert ==
  \A k \in CipherKeys, m1, m2, m3 \in 4 .. 28 :
    /\ ChainWords(k, m1, m2, m3) \in CipherKeys
    /\ ChainWords(ChainWords(k, m1, m2, m3), m3, m2, m1) = k
BY ChainInverts DEF ChainWords

(* The words that go through the S-box. *)
LEMMA FirstIs ==
  ASSUME NEW l \in CipherKeys, NEW rc \in Bytes
  PROVE  /\ SubstituteFirst(l, rc) \in CipherKeys
         /\ SubstituteFirst(l, rc)[1] = BitXor(l[1], BitXor(rj_sbox(l[30]), rc))
         /\ SubstituteFirst(l, rc)[2] = BitXor(l[2], rj_sbox(l[31]))
         /\ SubstituteFirst(l, rc)[3] = BitXor(l[3], rj_sbox(l[32]))
         /\ SubstituteFirst(l, rc)[4] = BitXor(l[4], rj_sbox(l[29]))
         /\ \A n \in 5 .. 32 : SubstituteFirst(l, rc)[n] = l[n]
<1> DEFINE f == [n \in 1 .. 32 |->
                  CASE n = 1        -> BitXor(l[n], BitXor(rj_sbox(l[30]), rc))
                    [] n \in {2, 3} -> BitXor(l[n], rj_sbox(l[29 + n]))
                    [] n = 4        -> BitXor(l[n], rj_sbox(l[29]))
                    [] OTHER        -> l[n]]
<1>1. \A n \in 1 .. 32 : l[n] \in Bytes
  BY DEF CipherKeys
<1>2. /\ f[1] = BitXor(l[1], BitXor(rj_sbox(l[30]), rc))
      /\ f[2] = BitXor(l[2], rj_sbox(l[31])) /\ f[3] = BitXor(l[3], rj_sbox(l[32]))
      /\ f[4] = BitXor(l[4], rj_sbox(l[29]))
      /\ \A n \in 5 .. 32 : f[n] = l[n]
  OBVIOUS
<1>3. f[1] \in Bytes /\ f[2] \in Bytes /\ f[3] \in Bytes /\ f[4] \in Bytes
  <2> HIDE DEF f
  <2>1. QED
    BY <1>1, <1>2, SboxInverts, XorBytes
<1>4. \A n \in 1 .. 32 : n = 1 \/ n = 2 \/ n = 3 \/ n = 4 \/ n \in 5 .. 32
  OBVIOUS
<1>5. \A n \in 1 .. 32 : f[n] \in Bytes
  <2> HIDE DEF f
  <2>1. QED
    BY <1>1, <1>2, <1>3, <1>4
<1>6. f \in CipherKeys
  BY <1>5 DEF CipherKeys
<1>7. SubstituteFirst(l, rc) = f
  BY <1>6, CipherKeyIs DEF SubstituteFirst
<1> HIDE DEF f
<1>8. QED
  BY <1>2, <1>6, <1>7

(* And again. *)
LEMMA FirstInverts ==
  \A k \in CipherKeys, rc \in Bytes :
    SubstituteFirst(k, rc) \in CipherKeys /\ SubstituteFirst(SubstituteFirst(k, rc), rc) = k
<1> TAKE k \in CipherKeys, rc \in Bytes
<1>1. ASSUME NEW l \in CipherKeys
      PROVE  /\ SubstituteFirst(l, rc) \in CipherKeys
             /\ SubstituteFirst(l, rc)[1] = BitXor(l[1], BitXor(rj_sbox(l[30]), rc))
             /\ SubstituteFirst(l, rc)[2] = BitXor(l[2], rj_sbox(l[31]))
             /\ SubstituteFirst(l, rc)[3] = BitXor(l[3], rj_sbox(l[32]))
             /\ SubstituteFirst(l, rc)[4] = BitXor(l[4], rj_sbox(l[29]))
             /\ \A n \in 5 .. 32 : SubstituteFirst(l, rc)[n] = l[n]
  BY FirstIs
<1> DEFINE l == SubstituteFirst(k, rc)
           j == SubstituteFirst(l, rc)
<1>2. l \in CipherKeys /\ j \in CipherKeys
  BY <1>1
<1>3. \A x, y, z : BitXor(BitXor(x, y), y) = x
  BY DEF BitXor
<1>4. j[1] = k[1] /\ j[2] = k[2] /\ j[3] = k[3] /\ j[4] = k[4]
  <2>1. l[29] = k[29] /\ l[30] = k[30] /\ l[31] = k[31] /\ l[32] = k[32]
    <3>1. 29 \in 5 .. 32 /\ 30 \in 5 .. 32 /\ 31 \in 5 .. 32 /\ 32 \in 5 .. 32
      OBVIOUS
    <3>2. QED
      BY <1>1, <3>1
  <2>2. /\ l[1] = BitXor(k[1], BitXor(rj_sbox(k[30]), rc))
        /\ l[2] = BitXor(k[2], rj_sbox(k[31])) /\ l[3] = BitXor(k[3], rj_sbox(k[32]))
        /\ l[4] = BitXor(k[4], rj_sbox(k[29]))
    BY <1>1
  <2> HIDE DEF l
  <2>3. /\ j[1] = BitXor(l[1], BitXor(rj_sbox(l[30]), rc))
        /\ j[2] = BitXor(l[2], rj_sbox(l[31])) /\ j[3] = BitXor(l[3], rj_sbox(l[32]))
        /\ j[4] = BitXor(l[4], rj_sbox(l[29]))
    BY <1>1, <1>2
  <2> HIDE DEF j
  <2>4. QED
    BY <1>3, <2>1, <2>2, <2>3
<1>5. \A n \in 5 .. 32 : j[n] = k[n]
  BY <1>1, <1>2
<1> HIDE DEF l, j
<1>6. \A n \in 1 .. 32 : n = 1 \/ n = 2 \/ n = 3 \/ n = 4 \/ n \in 5 .. 32
  OBVIOUS
<1>7. \A n \in 1 .. 32 : j[n] = k[n]
  BY <1>4, <1>5, <1>6
<1>8. j = k
  BY <1>2, <1>7 DEF CipherKeys
<1>9. QED
  BY <1>2, <1>8 DEF j, l

LEMMA FifthIs ==
  ASSUME NEW l \in CipherKeys
  PROVE  /\ SubstituteFifth(l) \in CipherKeys
         /\ \A n \in 1 .. 32 : SubstituteFifth(l)[n] =
              IF n \in 17 .. 20 THEN BitXor(l[n], rj_sbox(l[n - 4])) ELSE l[n]
<1> DEFINE f == [n \in 1 .. 32 |->
                  IF n \in 17 .. 20 THEN BitXor(l[n], rj_sbox(l[n - 4])) ELSE l[n]]
<1>1. \A n \in 17 .. 20 : n - 4 \in 1 .. 32
  OBVIOUS
<1>2. \A n \in 1 .. 32 : l[n] \in Bytes
  BY DEF CipherKeys
<1>3. f \in CipherKeys
  BY <1>1, <1>2, XorBytes, SboxInverts DEF CipherKeys
<1>4. SubstituteFifth(l) = f
  BY <1>3, CipherKeyIs DEF SubstituteFifth
<1>5. QED
  BY <1>3, <1>4

LEMMA FifthInverts ==
  \A k \in CipherKeys : SubstituteFifth(k) \in CipherKeys /\ SubstituteFifth(SubstituteFifth(k)) = k
<1>1. ASSUME NEW l \in CipherKeys
      PROVE  /\ SubstituteFifth(l) \in CipherKeys
             /\ \A n \in 1 .. 32 : SubstituteFifth(l)[n] =
                  IF n \in 17 .. 20 THEN BitXor(l[n], rj_sbox(l[n - 4])) ELSE l[n]
  BY FifthIs
<1>2. ASSUME NEW k \in CipherKeys, NEW n \in 1 .. 32 PROVE SubstituteFifth(SubstituteFifth(k))[n] = k[n]
  <2> DEFINE l == SubstituteFifth(k)
  <2>1. l \in CipherKeys /\ \A j \in 1 .. 32 :
          l[j] = IF j \in 17 .. 20 THEN BitXor(k[j], rj_sbox(k[j - 4])) ELSE k[j]
    BY <1>1
  <2> HIDE DEF l
  <2>2. SubstituteFifth(l)[n] = IF n \in 17 .. 20 THEN BitXor(l[n], rj_sbox(l[n - 4])) ELSE l[n]
    BY <1>1, <2>1
  <2>3. CASE n \in 17 .. 20
    <3>1. n - 4 \in 1 .. 32 /\ n - 4 \notin 17 .. 20
      BY <2>3
    <3>2. l[n - 4] = k[n - 4] /\ l[n] = BitXor(k[n], rj_sbox(k[n - 4]))
      BY <2>1, <2>3, <3>1
    <3>3. \A x, y : BitXor(BitXor(x, y), y) = x
      BY DEF BitXor
    <3>4. QED
      BY <2>2, <2>3, <3>2, <3>3 DEF l
  <2>4. CASE n \notin 17 .. 20
    BY <2>1, <2>2, <2>4 DEF l
  <2>5. QED
    BY <2>3, <2>4
<1>3. \A k \in CipherKeys : SubstituteFifth(k) \in CipherKeys /\ SubstituteFifth(SubstituteFifth(k)) \in CipherKeys
  BY <1>1
<1>4. QED
  BY <1>2, <1>3 DEF CipherKeys

(* The schedule that is run backwards meets the one that is run forwards. *)
LEMMA ExpandInverts ==
  \A k \in CipherKeys, rc \in Bytes :
    /\ aes_expandEncKey(k, rc) \in CipherKeys
    /\ aes_expandDecKey(aes_expandEncKey(k, rc), rc) = k
<1> TAKE k \in CipherKeys, rc \in Bytes
<1> DEFINE a == SubstituteFirst(k, rc)
           b == ChainWords(a, 4, 8, 12)
           c == SubstituteFifth(b)
           d == ChainWords(c, 20, 24, 28)
<1>1. /\ 4 \in 4 .. 28 /\ 8 \in 4 .. 28 /\ 12 \in 4 .. 28
      /\ 20 \in 4 .. 28 /\ 24 \in 4 .. 28 /\ 28 \in 4 .. 28
  OBVIOUS
<1>2. a \in CipherKeys /\ SubstituteFirst(a, rc) = k
  BY FirstInverts
<1> HIDE DEF a
<1>3. b \in CipherKeys /\ ChainWords(b, 12, 8, 4) = a
  BY <1>1, <1>2, ChainsInvert
<1> HIDE DEF b
<1>4. c \in CipherKeys /\ SubstituteFifth(c) = b
  BY <1>3, FifthInverts
<1> HIDE DEF c
<1>5. d \in CipherKeys /\ ChainWords(d, 28, 24, 20) = c
  <2> DEFINE m1 == 20
             m2 == 24
             m3 == 28
  <2>1. m1 \in 4 .. 28 /\ m2 \in 4 .. 28 /\ m3 \in 4 .. 28
    OBVIOUS
  <2> HIDE DEF m1, m2, m3
  <2>2. ChainWords(c, m1, m2, m3) \in CipherKeys /\ ChainWords(ChainWords(c, m1, m2, m3), m3, m2, m1) = c
    BY <1>4, <2>1, ChainsInvert
  <2>3. QED
    BY <2>2 DEF m1, m2, m3
<1>6. aes_expandEncKey(k, rc) = d
  BY DEF aes_expandEncKey, a, b, c
<1> HIDE DEF d
<1>7. aes_expandDecKey(d, rc) = k
  BY <1>2, <1>3, <1>4, <1>5 DEF aes_expandDecKey
<1>8. QED
  BY <1>5, <1>6, <1>7

(* The round constants, there and back. *)
LEMMA RoundConstants ==
  /\ \A m \in 0 .. 7 : {m} \in Bytes
  /\ \A m \in 0 .. 6 : rj_xtime({m}) = {m + 1}
  /\ \A m \in 1 .. 7 : RconBack({m}) = {m - 1}
<1>1. \A m \in 0 .. 7 : {m} \in Bytes
  BY DEF Bytes
<1>2. \A m \in 0 .. 6 : rj_xtime({m}) = {m + 1}
  BY DEF rj_xtime, ShiftLeft
<1>3. \A m \in 1 .. 7 : RconBack({m}) = {m - 1}
  BY XorFacts DEF RconBack, ShiftRight
<1>4. QED
  BY <1>1, <1>2, <1>3
-----------------------------------------------------------------------------
(* Encrypting a block: 14 rounds, each of which can be undone. *)

(* The keys that the schedule of k goes through. *)
IsSchedule(s, k) == /\ s \in [0 .. 7 -> CipherKeys] /\ s[0] = k
                    /\ \A n \in 1 .. 7 : s[n] = aes_expandEncKey(s[n - 1], {n - 1})
Schedule(k) == CHOOSE s : IsSchedule(s, k)

LEMMA ScheduleExists == \A k \in CipherKeys : IsSchedule(Schedule(k), k)
<1> TAKE k \in CipherKeys
<1> DEFINE step == [p \in (1 .. 7) \X CipherKeys |-> aes_expandEncKey(p[2], {p[1] - 1})]
<1>1. ASSUME NEW n \in 1 .. 7, NEW l \in CipherKeys
      PROVE  step[<<n, l>>] = aes_expandEncKey(l, {n - 1}) /\ step[<<n, l>>] \in CipherKeys
  <2>1. step[<<n, l>>] = aes_expandEncKey(l, {n - 1})
    OBVIOUS
  <2>2. n - 1 \in 0 .. 7
    OBVIOUS
  <2>3. QED
    BY <2>1, <2>2, RoundConstants, ExpandInverts
<1> HIDE DEF step
<1>2. StaysIn(CipherKeys, 0, 7, step)
  <2>1. \A n \in 0 + 1 .. 7 : n \in 1 .. 7
    OBVIOUS
  <2>2. QED
    BY <1>1, <2>1 DEF StaysIn
<1>3. PICK s \in [0 .. 7 -> CipherKeys] : Follows(s, 0, 7, k, step)
  <2>1. 0 \in Int /\ 7 \in Int /\ 0 <= 7
    OBVIOUS
  <2>2. QED
    BY <1>2, <2>1, Recursion
<1>4. IsSchedule(s, k)
  <2>1. \A n \in 0 .. 7 : s[n] = IF n = 0 THEN k ELSE step[<<n, s[n - 1]>>]
    BY <1>3 DEF Follows
  <2>2. \A n \in 1 .. 7 : n \in 0 .. 7 /\ n - 1 \in 0 .. 7 /\ n # 0
    OBVIOUS
  <2>3. s[0] = k
    BY <2>1
  <2>4. \A n \in 1 .. 7 : s[n] = aes_expandEncKey(s[n - 1], {n - 1})
    BY <1>1, <2>1, <2>2
  <2>5. QED
    BY <2>3, <2>4 DEF IsSchedule
<1>5. QED
  BY <1>4 DEF Schedule

LEMMA ScheduleFacts ==
  ASSUME NEW k \in CipherKeys
  PROVE  /\ \A n \in 0 .. 7 : Schedule(k)[n] \in CipherKeys
         /\ Schedule(k)[0] = k
         /\ \A n \in 0 .. 6 : aes_expandEncKey(Schedule(k)[n], {n}) = Schedule(k)[n + 1]
         /\ \A n \in 1 .. 7 : aes_expandDecKey(Schedule(k)[n], {n - 1}) = Schedule(k)[n - 1]
<1>1. IsSchedule(Schedule(k), k)
  BY ScheduleExists
<1> DEFINE s == Schedule(k)
<1> HIDE DEF s
<1>2. /\ s \in [0 .. 7 -> CipherKeys] /\ s[0] = k
      /\ \A n \in 1 .. 7 : s[n] = aes_expandEncKey(s[n - 1], {n - 1})
  BY <1>1 DEF IsSchedule, s
<1>3. \A n \in 0 .. 6 : n + 1 \in 1 .. 7 /\ (n + 1) - 1 = n
  OBVIOUS
<1>4. \A n \in 0 .. 6 : aes_expandEncKey(s[n], {n}) = s[n + 1]
  BY <1>2, <1>3
<1>5. ASSUME NEW n \in 1 .. 7 PROVE aes_expandDecKey(s[n], {n - 1}) = s[n - 1]
  <2>1. n - 1 \in 0 .. 7
    OBVIOUS
  <2>2. s[n - 1] \in CipherKeys /\ {n - 1} \in Bytes
    BY <1>2, <2>1, RoundConstants
  <2>3. QED
    BY <1>2, <2>2, ExpandInverts
<1>6. QED
  BY <1>2, <1>4, <1>5 DEF s

(* The key of a round is one half of a key of the schedule. *)
AddKey(k, b, m) == aes_addRoundKey(b, Schedule(k)[m \div 2], 16 * (m % 2))

(* A round, and what undoes it. *)
Shifted(b)    == aes_shiftRows(aes_subBytes(b))
Round(k, b, m) == AddKey(k, IF m < Rounds THEN aes_mixColumns(Shifted(b)) ELSE Shifted(b), m)
Undo(k, b, m)  == Unshift(IF m < Rounds THEN aes_mixColumns_inv(AddKey(k, b, m)) ELSE AddKey(k, b, m))

LEMMA AddKeyInverts ==
  \A k \in CipherKeys, b \in Blocks, m \in 0 .. 14 :
    AddKey(k, b, m) \in Blocks /\ AddKey(k, AddKey(k, b, m), m) = b
<1> TAKE k \in CipherKeys, b \in Blocks, m \in 0 .. 14
<1>1. m \div 2 \in 0 .. 7 /\ 16 * (m % 2) \in {0, 16}
  OBVIOUS
<1>2. Schedule(k)[m \div 2] \in CipherKeys
  BY <1>1, ScheduleFacts
<1>3. QED
  BY <1>1, <1>2, AddRoundKeyInverts DEF AddKey

LEMMA ShiftedInverts ==
  \A b \in Blocks : /\ Shifted(b) \in Blocks /\ Unshift(b) \in Blocks
                    /\ Unshift(Shifted(b)) = b /\ Shifted(Unshift(b)) = b
BY SubBytesInverts, ShiftRowsInverts DEF Shifted, Unshift

LEMMA RoundInverts ==
  \A k \in CipherKeys, b \in Blocks, m \in 1 .. 14 :
    /\ Round(k, b, m) \in Blocks /\ Undo(k, b, m) \in Blocks
    /\ Undo(k, Round(k, b, m), m) = b
    /\ Round(k, Undo(k, b, m), m) = b
<1> TAKE k \in CipherKeys, b \in Blocks, m \in 1 .. 14
<1>1. \A c \in Blocks : AddKey(k, c, m) \in Blocks /\ AddKey(k, AddKey(k, c, m), m) = c
  <2>1. m \in 0 .. 14
    OBVIOUS
  <2>2. QED
    BY <2>1, AddKeyInverts
<1>2. CASE m < Rounds
  <2>1. \A c : Round(k, c, m) = AddKey(k, aes_mixColumns(Shifted(c)), m)
    BY <1>2 DEF Round
  <2>2. \A c : Undo(k, c, m) = Unshift(aes_mixColumns_inv(AddKey(k, c, m)))
    BY <1>2 DEF Undo
  <2>3. Round(k, b, m) \in Blocks /\ Undo(k, Round(k, b, m), m) = b
    BY <1>1, <2>1, <2>2, MixColumnsInverts, ShiftedInverts
  <2>4. Undo(k, b, m) \in Blocks /\ Round(k, Undo(k, b, m), m) = b
    BY <1>1, <2>1, <2>2, MixColumnsInverts, ShiftedInverts
  <2>5. QED
    BY <2>3, <2>4
<1>3. CASE ~(m < Rounds)
  <2>1. \A c : Round(k, c, m) = AddKey(k, Shifted(c), m)
    BY <1>3 DEF Round
  <2>2. \A c : Undo(k, c, m) = Unshift(AddKey(k, c, m))
    BY <1>3 DEF Undo
  <2>3. Round(k, b, m) \in Blocks /\ Undo(k, Round(k, b, m), m) = b
    BY <1>1, <2>1, <2>2, ShiftedInverts
  <2>4. Undo(k, b, m) \in Blocks /\ Round(k, Undo(k, b, m), m) = b
    BY <1>1, <2>1, <2>2, ShiftedInverts
  <2>5. QED
    BY <2>3, <2>4
<1>4. QED
  BY <1>2, <1>3

(* What a block goes through between two rounds. *)
Path(k, p, from, to) == /\ p \in [0 .. 14 -> Blocks]
                        /\ \A m \in from + 1 .. to : p[m] = Round(k, p[m - 1], m)

(* That c is what encrypting b gives. *)
Encrypts(k, b, c) == \E p : Path(k, p, 0, 14) /\ p[0] = AddKey(k, b, 0) /\ p[14] = c

(* It does so to one block only, and gives one block only. *)
LEMMA EncryptsOne ==
  ASSUME NEW k \in CipherKeys, NEW b \in Blocks, NEW c \in Blocks, NEW d \in Blocks
  PROVE  /\ Encrypts(k, b, c) /\ Encrypts(k, b, d) => c = d
         /\ Encrypts(k, b, d) /\ Encrypts(k, c, d) => b = c
<1>1. ASSUME Encrypts(k, b, c), Encrypts(k, b, d) PROVE c = d
  <2>1. PICK p : Path(k, p, 0, 14) /\ p[0] = AddKey(k, b, 0) /\ p[14] = c
    BY <1>1 DEF Encrypts
  <2>2. PICK q : Path(k, q, 0, 14) /\ q[0] = AddKey(k, b, 0) /\ q[14] = d
    BY <1>1 DEF Encrypts
  <2> DEFINE T == {m \in 0 .. 14 : p[m] = q[m]}
  <2>3. 0 \in T
    BY <2>1, <2>2
  <2>4. ASSUME NEW m \in 0 .. 14 - 1, m \in T PROVE m + 1 \in T
    <3>1. m + 1 \in 0 + 1 .. 14 /\ m + 1 \in 0 .. 14 /\ (m + 1) - 1 = m
      OBVIOUS
    <3>2. p[m + 1] = Round(k, p[m], m + 1) /\ q[m + 1] = Round(k, q[m], m + 1)
      BY <2>1, <2>2, <3>1 DEF Path
    <3>3. QED
      BY <2>4, <3>1, <3>2
  <2> HIDE DEF T
  <2>5. \A m \in 0 .. 14 : m \in T
    BY <2>3, <2>4, Induction
  <2>6. QED
    BY <2>1, <2>2, <2>5 DEF T
<1>2. ASSUME Encrypts(k, b, d), Encrypts(k, c, d) PROVE b = c
  <2>1. PICK p : Path(k, p, 0, 14) /\ p[0] = AddKey(k, b, 0) /\ p[14] = d
    BY <1>2 DEF Encrypts
  <2>2. PICK q : Path(k, q, 0, 14) /\ q[0] = AddKey(k, c, 0) /\ q[14] = d
    BY <1>2 DEF Encrypts
  <2> DEFINE T == {m \in 0 .. 14 : p[14 - m] = q[14 - m]}
  <2>3. 0 \in T
    BY <2>1, <2>2
  <2>4. ASSUME NEW m \in 0 .. 14 - 1, m \in T PROVE m + 1 \in T
    <3> DEFINE n == 14 - m
    <3>1. n \in 1 .. 14 /\ n \in 0 + 1 .. 14 /\ n - 1 \in 0 .. 14 /\ n \in 0 .. 14
          /\ 14 - (m + 1) = n - 1 /\ m + 1 \in 0 .. 14
      OBVIOUS
    <3>2. p[n] = q[n]
      BY <2>4
    <3> HIDE DEF n
    <3>3. p[n] = Round(k, p[n - 1], n) /\ q[n] = Round(k, q[n - 1], n)
      BY <2>1, <2>2, <3>1 DEF Path
    <3>4. p[n - 1] \in Blocks /\ q[n - 1] \in Blocks
      BY <2>1, <2>2, <3>1 DEF Path
    <3>5. p[n - 1] = Undo(k, p[n], n) /\ q[n - 1] = Undo(k, q[n], n)
      <4>1. \A x \in Blocks : Undo(k, Round(k, x, n), n) = x
        BY <3>1, RoundInverts
      <4>2. QED
        BY <3>3, <3>4, <4>1
    <3>6. p[n - 1] = q[n - 1]
      BY <3>2, <3>5
    <3>7. QED
      BY <3>1, <3>6
  <2> HIDE DEF T
  <2>5. \A m \in 0 .. 14 : m \in T
    BY <2>3, <2>4, Induction
  <2>6. p[0] = q[0]
    BY <2>5 DEF T
  <2>7. AddKey(k, b, 0) = AddKey(k, c, 0)
    BY <2>1, <2>2, <2>6
  <2>8. QED
    BY <2>7, AddKeyInverts
<1>3. QED
  BY <1>1, <1>2

(* A path that is one round longer, at its end or at its beginning. *)
LEMMA PathGrows ==
  ASSUME NEW k \in CipherKeys, NEW m \in 1 .. 14, NEW p
  PROVE  /\ Path(k, p, 0, m - 1) =>
              \E q : /\ Path(k, q, 0, m) /\ q[0] = p[0] /\ q[m] = Round(k, p[m - 1], m)
         /\ Path(k, p, m, 14) =>
              \E q : /\ Path(k, q, m - 1, 14) /\ q[14] = p[14] /\ q[m - 1] = Undo(k, p[m], m)
<1>1. ASSUME Path(k, p, 0, m - 1)
      PROVE  \E q : /\ Path(k, q, 0, m) /\ q[0] = p[0] /\ q[m] = Round(k, p[m - 1], m)
  <2> DEFINE q == [p EXCEPT ![m] = Round(k, p[m - 1], m)]
  <2>1. p \in [0 .. 14 -> Blocks] /\ \A n \in 0 + 1 .. m - 1 : p[n] = Round(k, p[n - 1], n)
    BY <1>1 DEF Path
  <2>2. m \in 0 .. 14 /\ m - 1 \in 0 .. 14 /\ 0 \in 0 .. 14 /\ m # 0
    OBVIOUS
  <2>3. Round(k, p[m - 1], m) \in Blocks
    BY <2>1, <2>2, RoundInverts
  <2>4. /\ q \in [0 .. 14 -> Blocks] /\ q[m] = Round(k, p[m - 1], m)
        /\ \A n \in 0 .. 14 : n # m => q[n] = p[n]
    BY <2>1, <2>2, <2>3
  <2> HIDE DEF q
  <2>5. ASSUME NEW n \in 0 + 1 .. m PROVE q[n] = Round(k, q[n - 1], n)
    <3>1. n \in 0 .. 14 /\ n - 1 \in 0 .. 14 /\ n - 1 # m
      OBVIOUS
    <3>2. q[n - 1] = p[n - 1]
      BY <2>4, <3>1
    <3>3. CASE n = m
      BY <2>4, <3>2, <3>3
    <3>4. CASE n # m
      <4>1. n \in 0 + 1 .. m - 1
        BY <3>4
      <4>2. q[n] = p[n] /\ p[n] = Round(k, p[n - 1], n)
        BY <2>1, <2>4, <3>1, <3>4, <4>1
      <4>3. QED
        BY <3>2, <4>2
    <3>5. QED
      BY <3>3, <3>4
  <2>6. Path(k, q, 0, m)
    BY <2>4, <2>5 DEF Path
  <2>7. q[0] = p[0]
    BY <2>2, <2>4
  <2>8. QED
    BY <2>4, <2>6, <2>7
<1>2. ASSUME Path(k, p, m, 14)
      PROVE  \E q : /\ Path(k, q, m - 1, 14) /\ q[14] = p[14] /\ q[m - 1] = Undo(k, p[m], m)
  <2> DEFINE q == [p EXCEPT ![m - 1] = Undo(k, p[m], m)]
  <2>1. p \in [0 .. 14 -> Blocks] /\ \A n \in m + 1 .. 14 : p[n] = Round(k, p[n - 1], n)
    BY <1>2 DEF Path
  <2>2. m \in 0 .. 14 /\ m - 1 \in 0 .. 14 /\ 14 \in 0 .. 14 /\ m - 1 # 14 /\ m - 1 # m
        /\ (m - 1) + 1 = m
    OBVIOUS
  <2>3. Undo(k, p[m], m) \in Blocks /\ Round(k, Undo(k, p[m], m), m) = p[m]
    BY <2>1, <2>2, RoundInverts
  <2>4. /\ q \in [0 .. 14 -> Blocks] /\ q[m - 1] = Undo(k, p[m], m)
        /\ \A n \in 0 .. 14 : n # m - 1 => q[n] = p[n]
    BY <2>1, <2>2, <2>3
  <2> HIDE DEF q
  <2>5. ASSUME NEW n \in (m - 1) + 1 .. 14 PROVE q[n] = Round(k, q[n - 1], n)
    <3>1. n \in m .. 14 /\ n \in 0 .. 14 /\ n - 1 \in 0 .. 14 /\ n # m - 1
      OBVIOUS
    <3>2. q[n] = p[n]
      BY <2>4, <3>1
    <3>3. CASE n = m
      BY <2>3, <2>4, <3>2, <3>3
    <3>4. CASE n # m
      <4>1. n \in m + 1 .. 14 /\ n - 1 # m - 1
        BY <3>1, <3>4
      <4>2. q[n - 1] = p[n - 1] /\ p[n] = Round(k, p[n - 1], n)
        BY <2>1, <2>4, <3>1, <4>1
      <4>3. QED
        BY <3>2, <4>2
    <3>5. QED
      BY <3>3, <3>4
  <2>6. Path(k, q, m - 1, 14)
    BY <2>4, <2>5 DEF Path
  <2>7. q[14] = p[14]
    BY <2>2, <2>4
  <2>8. QED
    BY <2>4, <2>6, <2>7
<1>3. QED
  BY <1>1, <1>2
-----------------------------------------------------------------------------
(* The blocks of an array. *)

BlockOf(d, j) == [n \in 1 .. 16 |-> d[BlockSize * j + n]]
Count(d) == Len(d) \div BlockSize

LEMMA Positions ==
  ASSUME NEW d \in Seq(Bytes), WholeBlocks(d)
  PROVE  /\ Count(d) \in Nat /\ Count(d) > 0
         /\ \A j \in 0 .. Count(d) - 1, n \in 1 .. 16 : BlockSize * j + n \in 1 .. Len(d)
         /\ \A m \in 1 .. Len(d) :
              \E j \in 0 .. Count(d) - 1, n \in 1 .. 16 : m = BlockSize * j + n
<1>1. Len(d) \in Nat /\ Len(d) % 16 = 0 /\ Len(d) > 0
  BY DEF WholeBlocks, BlockSize
<1>2. \A l \in Nat : l % 16 = 0 => l \div 16 \in Nat /\ l = 16 * (l \div 16)
  OBVIOUS
<1>3. PICK c \in Nat : Count(d) = c /\ Len(d) = 16 * c
  BY <1>1, <1>2 DEF Count, BlockSize
<1>4. c > 0
  BY <1>1, <1>3
<1>5. \A j \in 0 .. c - 1, n \in 1 .. 16 : 16 * j + n \in 1 .. 16 * c
  BY <1>4
<1>6. ASSUME NEW m \in 1 .. 16 * c
      PROVE  \E j \in 0 .. c - 1, n \in 1 .. 16 : m = 16 * j + n
  <2>1. (m - 1) \div 16 \in 0 .. c - 1 /\ ((m - 1) % 16) + 1 \in 1 .. 16
        /\ m = 16 * ((m - 1) \div 16) + (((m - 1) % 16) + 1)
    BY <1>4
  <2>2. QED
    BY <2>1
<1>7. QED
  BY <1>3, <1>4, <1>5, <1>6 DEF BlockSize

LEMMA BlockFacts ==
  ASSUME NEW d \in Seq(Bytes), WholeBlocks(d), NEW j \in 0 .. Count(d) - 1
  PROVE  BlockOf(d, j) \in Blocks /\ SubSeq(d, BlockSize * j + 1, BlockSize * (j + 1)) = BlockOf(d, j)
<1>1. /\ Len(d) \in Nat /\ DOMAIN d = 1 .. Len(d) /\ \A n \in 1 .. Len(d) : d[n] \in Bytes
      /\ j \in Nat
      /\ \A n \in 1 .. 16 : 16 * j + n \in 1 .. Len(d)
  <2>1. Count(d) \in Nat /\ \A n \in 1 .. 16 : BlockSize * j + n \in 1 .. Len(d)
    BY Positions
  <2>2. QED
    BY <2>1 DEF BlockSize
<1>2. BlockOf(d, j) \in Blocks
  BY <1>1 DEF BlockOf, Blocks, BlockSize
<1>3. SubSeq(d, 16 * j + 1, 16 * (j + 1)) = [n \in 1 .. 16 |-> d[16 * j + n]]
  <2> DEFINE a == 16 * j + 1
             b == 16 * (j + 1)
             z == SubSeq(d, a, b)
  <2>1. a \in 1 .. Len(d) /\ b \in 1 .. Len(d) /\ b = a + 15
    <3>1. 16 * j + 1 \in 1 .. Len(d) /\ 16 * j + 16 \in 1 .. Len(d)
      BY <1>1
    <3>2. 16 * (j + 1) = 16 * j + 16 /\ 16 * j + 16 = (16 * j + 1) + 15
      BY <1>1
    <3>3. QED
      BY <3>1, <3>2
  <2>2. \A n \in 1 .. 16 : (a + n) - 1 = 16 * j + n
    BY <1>1
  <2> HIDE DEF a, b
  <2>3. z \in Seq(Bytes) /\ Len(z) = 16 /\ \A n \in 1 .. 16 : z[n] = d[(a + n) - 1]
    BY <2>1
  <2> HIDE DEF z
  <2>4. z = [n \in 1 .. 16 |-> d[16 * j + n]]
    BY <2>2, <2>3
  <2>5. QED
    BY <2>4 DEF z, a, b
<1>4. QED
  BY <1>2, <1>3 DEF BlockOf, BlockSize

(* An array with another block in the place of one of its own. *)
Replaced(d, j, block) ==
  [n \in DOMAIN d |-> IF n \in BlockSize * j + 1 .. BlockSize * (j + 1)
                      THEN block[n - (BlockSize * j)] ELSE d[n]]

LEMMA BlockReplaced ==
  ASSUME NEW d \in Seq(Bytes), WholeBlocks(d), NEW j \in 0 .. Count(d) - 1, NEW block \in Blocks,
         NEW e, e = Replaced(d, j, block)
  PROVE  /\ e \in Seq(Bytes) /\ Len(e) = Len(d)
         /\ BlockOf(e, j) = block
         /\ \A l \in 0 .. Count(d) - 1 : l # j => BlockOf(e, l) = BlockOf(d, l)
<1>1. /\ Len(d) \in Nat /\ DOMAIN d = 1 .. Len(d) /\ \A n \in 1 .. Len(d) : d[n] \in Bytes
      /\ Count(d) \in Nat
  <2>1. Count(d) \in Nat
    BY Positions
  <2>2. QED
    BY <2>1
<1>2. \A l \in 0 .. Count(d) - 1, n \in 1 .. 16 : 16 * l + n \in 1 .. Len(d)
  BY Positions DEF BlockSize
<1>3. e = [n \in 1 .. Len(d) |-> IF n \in 16 * j + 1 .. 16 * (j + 1) THEN block[n - (16 * j)] ELSE d[n]]
  BY <1>1 DEF BlockSize, Replaced
<1>4. \A n \in 16 * j + 1 .. 16 * (j + 1) : n - (16 * j) \in 1 .. 16
  BY <1>1
<1>5. e \in [1 .. Len(d) -> Bytes]
  BY <1>1, <1>3, <1>4 DEF Blocks
<1>6. e \in Seq(Bytes) /\ Len(e) = Len(d)
  BY <1>1, <1>5
<1>7. BlockOf(e, j) = block
  <2>1. ASSUME NEW n \in 1 .. 16 PROVE e[16 * j + n] = block[n]
    <3>1. 16 * j + n \in 1 .. Len(d)
      BY <1>2
    <3>2. 16 * j + n \in 16 * j + 1 .. 16 * (j + 1) /\ (16 * j + n) - (16 * j) = n
      BY <1>1
    <3>3. QED
      BY <1>3, <3>1, <3>2
  <2>2. block = [n \in 1 .. 16 |-> block[n]]
    BY DEF Blocks
  <2>3. QED
    BY <2>1, <2>2 DEF BlockOf, BlockSize
<1>8. ASSUME NEW l \in 0 .. Count(d) - 1, l # j PROVE BlockOf(e, l) = BlockOf(d, l)
  <2>1. ASSUME NEW n \in 1 .. 16 PROVE e[16 * l + n] = d[16 * l + n]
    <3>1. 16 * l + n \in 1 .. Len(d)
      BY <1>2
    <3>2. 16 * l + n \notin 16 * j + 1 .. 16 * (j + 1)
      <4>1. l \in Nat /\ j \in Nat /\ (l <= j - 1 \/ l >= j + 1)
        BY <1>1, <1>8
      <4>2. QED
        BY <4>1
    <3>3. QED
      BY <1>3, <3>1, <3>2
  <2>2. QED
    BY <2>1 DEF BlockOf, BlockSize
<1>9. QED
  BY <1>6, <1>7, <1>8

(* An array is what its blocks are. *)
LEMMA SameBlocks ==
  ASSUME NEW d \in Seq(Bytes), WholeBlocks(d), NEW e \in Seq(Bytes), Len(e) = Len(d),
         \A j \in 0 .. Count(d) - 1 : BlockOf(e, j) = BlockOf(d, j)
  PROVE  e = d
<1>1. ASSUME NEW m \in 1 .. Len(d) PROVE e[m] = d[m]
  <2>1. PICK j \in 0 .. Count(d) - 1, n \in 1 .. 16 : m = BlockSize * j + n
    BY Positions
  <2>2. BlockOf(e, j)[n] = BlockOf(d, j)[n]
    OBVIOUS
  <2>3. QED
    BY <2>1, <2>2 DEF BlockOf
<1>2. QED
  BY <1>1
-----------------------------------------------------------------------------
(* The inductive invariant. *)

Services == {"encrypt", "decrypt"}

TypeInv == /\ key \in CipherKeys
           /\ data \in Seq(Bytes) /\ original \in Seq(Bytes)
           /\ Len(data) = Len(original) /\ original # <<>>
           /\ ctx \in [key : CipherKeys, enckey : CipherKeys, deckey : CipherKeys, rcon : Bytes]
           /\ calls \in Seq(Services)

(* What a call makes of block b, and of the array d. *)
Does(what, b, c)    == IF what = "encrypt" THEN Encrypts(key, b, c) ELSE Encrypts(key, c, b)
Turns(what, d, e) == \A j \in 0 .. Count(d) - 1 : Does(what, BlockOf(d, j), BlockOf(e, j))

(* The array before the latest call. *)
BeganWith(before) == /\ before \in Seq(Bytes) /\ Len(before) = Len(original)
                     /\ Len(calls) = 1 => before = original
                     /\ Len(calls) = 2 => Turns(calls[1], original, before)

(* Between two calls. *)
IdleInv(before) == IF calls = <<>> THEN data = original ELSE Turns(Last(calls), before, data)

(* While tbx_aes256_init computes the key to decrypt with. *)
InitInv(before) == /\ calls # <<>> /\ data = before /\ idx = 0 /\ i \in 1 .. 7
                   /\ ctx.enckey = key /\ ctx.deckey = Schedule(key)[7 - i] /\ ctx.rcon = {7 - i}

(* At a block: those before it are done, those after it are as they were. *)
AtBlockInv(before) ==
  /\ calls # <<>> /\ idx \in 0 .. Count(before) - 1
  /\ ctx.enckey = key /\ ctx.deckey = Schedule(key)[7]
  /\ \A j \in 0 .. Count(before) - 1 :
       /\ j < idx => Does(Last(calls), BlockOf(before, j), BlockOf(data, j))
       /\ j > idx => BlockOf(data, j) = BlockOf(before, j)

(* Before the next round of a block, with the keys of the round before. *)
EncryptRoundInv(before) ==
  /\ Last(calls) = "encrypt" /\ i \in 1 .. 14
  /\ ctx.key = Schedule(key)[(i - 1) \div 2] /\ ctx.rcon = {(i - 1) \div 2}
  /\ \E p : /\ Path(key, p, 0, i - 1)
            /\ p[0] = AddKey(key, BlockOf(before, idx), 0) /\ p[i - 1] = BlockOf(data, idx)

DecryptRoundInv(before) ==
  /\ Last(calls) = "decrypt" /\ i \in 1 .. 13
  /\ ctx.key = Schedule(key)[(i + 1) \div 2] /\ ctx.rcon = {(i + 1) \div 2}
  /\ \E p : /\ Path(key, p, i, 14)
            /\ p[14] = BlockOf(before, idx) /\ p[i] = BlockOf(data, idx)

ProgressInv(before) ==
  /\ at \in {"idle", "init", "encrypt", "decrypt", "encrypt round", "decrypt round", "done"}
  /\ at = "idle" => IdleInv(before)
  /\ at = "init" => InitInv(before)
  /\ at = "done" => calls # <<>> /\ Turns(Last(calls), before, data)
  /\ at \in {"encrypt", "decrypt", "encrypt round", "decrypt round"} => AtBlockInv(before)
  /\ at \in {"encrypt", "decrypt"} => at = Last(calls) /\ BlockOf(data, idx) = BlockOf(before, idx)
  /\ at = "encrypt round" => EncryptRoundInv(before)
  /\ at = "decrypt round" => DecryptRoundInv(before)

(* An array of another length is never touched. *)
IInv == /\ TypeInv
        /\ IF WholeBlocks(original)
           THEN \E before : BeganWith(before) /\ ProgressInv(before)
           ELSE at = "idle" /\ data = original

LEMMA InitIInv == CryptoInit => IInv
<1> SUFFICES ASSUME CryptoInit PROVE IInv
  OBVIOUS
<1>1. key \in CipherKeys /\ original \in Seq(Bytes) /\ original # <<>> /\ data = original
      /\ ctx = NoContents /\ at = "idle" /\ calls = <<>>
  BY CryptoAssumption DEF CryptoInit, CipherKeys
<1>2. NoContents \in [key : CipherKeys, enckey : CipherKeys, deckey : CipherKeys, rcon : Bytes]
  BY DEF NoContents, NoKey, CipherKeys, Bytes
<1>3. calls \in Seq(Services) /\ Len(calls) = 0
  BY <1>1
<1>4. TypeInv
  BY <1>1, <1>2, <1>3 DEF TypeInv
<1>5. BeganWith(original) /\ ProgressInv(original)
  BY <1>1, <1>3 DEF BeganWith, ProgressInv, IdleInv
<1>6. QED
  BY <1>1, <1>4, <1>5 DEF IInv

(* What a call finds in the keys of its context stays there. *)
LEMMA LastCall ==
  \A c \in Seq(Services) : c # <<>> => Last(c) \in Services /\ Last(c) = c[Len(c)] /\ Len(c) > 0
BY DEF Last

LEMMA CallStep ==
  ASSUME IInv, NEW what \in Services, Call(what) PROVE IInv'
<1>1. /\ at = "idle" /\ calls' = Append(calls, what)
      /\ key' = key /\ data' = data /\ original' = original
  BY DEF Call
<1>2. /\ calls' \in Seq(Services) /\ calls' # <<>> /\ Last(calls') = what
      /\ Len(calls') = Len(calls) + 1 /\ Len(calls) \in Nat
      /\ \A n \in 1 .. Len(calls) : calls'[n] = calls[n]
  <2>1. \A s \in Seq(Services), w \in Services :
          /\ Append(s, w) \in Seq(Services) /\ Len(Append(s, w)) = Len(s) + 1 /\ Len(s) \in Nat
          /\ Append(s, w) # <<>> /\ Append(s, w)[Len(s) + 1] = w
          /\ \A n \in 1 .. Len(s) : Append(s, w)[n] = s[n]
    OBVIOUS
  <2>2. calls \in Seq(Services)
    BY DEF IInv, TypeInv
  <2>3. /\ calls' \in Seq(Services) /\ Len(calls') = Len(calls) + 1 /\ Len(calls) \in Nat
        /\ calls' # <<>> /\ calls'[Len(calls) + 1] = what
        /\ \A n \in 1 .. Len(calls) : calls'[n] = calls[n]
    BY <1>1, <2>1, <2>2, Zenon
  <2>4. Last(calls') = calls'[Len(calls')]
    BY <2>3, LastCall
  <2>5. QED
    BY <2>3, <2>4
<1>3. CASE WholeBlocks(original)
  <2>1. PICK before : BeganWith(before) /\ ProgressInv(before)
    BY <1>3 DEF IInv
  <2>2. WholeBlocks(data)
    BY <1>3 DEF WholeBlocks, IInv, TypeInv
  <2>3. /\ at' = "init" /\ idx' = 0 /\ i' = 7
        /\ ctx' = [ctx EXCEPT !.enckey = key, !.deckey = key, !.rcon = {0}]
    BY <2>2 DEF Call, Goto
  <2>4. {0} \in Bytes
    BY RoundConstants
  <2>5. key \in CipherKeys
        /\ ctx \in [key : CipherKeys, enckey : CipherKeys, deckey : CipherKeys, rcon : Bytes]
    BY DEF IInv, TypeInv
  <2>6. /\ ctx' \in [key : CipherKeys, enckey : CipherKeys, deckey : CipherKeys, rcon : Bytes]
        /\ ctx'.enckey = key /\ ctx'.deckey = key /\ ctx'.rcon = {0}
    BY <2>3, <2>4, <2>5
  <2>7. TypeInv'
    BY <1>1, <1>2, <2>6 DEF IInv, TypeInv
  <2>8. IdleInv(before)
    BY <1>1, <2>1 DEF ProgressInv
  <2>9. BeganWith(data)'
    <3>1. data \in Seq(Bytes) /\ Len(data) = Len(original) /\ calls \in Seq(Services)
      BY DEF IInv, TypeInv
    <3>2. CASE Len(calls) = 0
      <4>1. calls = <<>> /\ Len(calls') = 1
        BY <1>2, <3>1, <3>2
      <4>2. data = original
        BY <2>8, <4>1 DEF IdleInv
      <4>3. QED
        BY <1>1, <3>1, <4>1, <4>2 DEF BeganWith
    <3>3. CASE Len(calls) = 1
      <4>1. calls # <<>> /\ Len(calls') = 2 /\ Last(calls) = calls[1] /\ calls'[1] = calls[1]
        <5>1. calls # <<>>
          <6>1. Len(<<>>) = 0
            OBVIOUS
          <6>2. QED
            BY <3>3, <6>1
        <5>2. Last(calls) = calls[1]
          BY <3>1, <3>3, <5>1, LastCall
        <5>3. Len(calls') = 2 /\ 1 \in 1 .. Len(calls)
          BY <1>2, <3>3
        <5>4. QED
          BY <1>2, <5>1, <5>2, <5>3
      <4>2. before = original
        BY <2>1, <3>3 DEF BeganWith
      <4>3. Turns(calls[1], original, data)
        BY <2>8, <4>1, <4>2 DEF IdleInv
      <4>4. Turns(calls[1], original, data)'
        BY <1>1, <4>1, <4>3 DEF Turns, Does
      <4>5. QED
        BY <1>1, <3>1, <4>1, <4>4 DEF BeganWith
    <3>4. CASE Len(calls) # 0 /\ Len(calls) # 1
      <4>1. Len(calls') # 1 /\ Len(calls') # 2
        <5>1. \A n \in Nat : n # 0 /\ n # 1 => n + 1 # 1 /\ n + 1 # 2
          OBVIOUS
        <5>2. Len(calls') = Len(calls) + 1 /\ Len(calls) \in Nat
          BY <1>2
        <5>3. QED
          BY <3>4, <5>1, <5>2
      <4>2. QED
        BY <1>1, <3>1, <4>1 DEF BeganWith
    <3>5. QED
      BY <3>2, <3>3, <3>4
  <2>10. InitInv(data)'
    <3>1. 7 - 7 = 0 /\ 7 \in 1 .. 7 /\ Schedule(key)[0] = key
      BY <2>5, ScheduleFacts
    <3>2. QED
      BY <1>1, <1>2, <2>3, <2>6, <3>1 DEF InitInv
  <2>11. ProgressInv(data)'
    BY <2>3, <2>10 DEF ProgressInv
  <2>12. QED
    BY <1>1, <1>3, <2>7, <2>9, <2>11 DEF IInv
<1>4. CASE ~WholeBlocks(original)
  <2>1. data = original
    BY <1>4 DEF IInv
  <2>2. at' = at /\ ctx' = ctx
    BY <1>4, <2>1 DEF Call, place
  <2>3. TypeInv'
    BY <1>1, <1>2, <2>2 DEF IInv, TypeInv
  <2>4. QED
    BY <1>1, <1>4, <2>1, <2>2, <2>3 DEF IInv
<1>5. QED
  BY <1>3, <1>4

(* The steps of a call under way, by what they rely on: they leave the key, *)
(* the calls and the array at the beginning alone.                          *)
Rest == key' = key /\ original' = original /\ calls' = calls

LEMMA RestStays ==
  ASSUME TypeInv, Rest, NEW before, BeganWith(before),
         data' \in Seq(Bytes), Len(data') = Len(data),
         ctx' \in [key : CipherKeys, enckey : CipherKeys, deckey : CipherKeys, rcon : Bytes]
  PROVE  TypeInv' /\ BeganWith(before)'
<1>1. TypeInv'
  BY DEF TypeInv, Rest
<1>2. Turns(calls[1], original, before) => Turns(calls[1], original, before)'
  BY DEF Turns, Does, Rest
<1>3. BeganWith(before)'
  BY <1>2 DEF BeganWith, Rest
<1>4. QED
  BY <1>1, <1>3

(* What the array of the call gives about its blocks. *)
LEMMA SameShape ==
  ASSUME TypeInv, WholeBlocks(original), NEW before, BeganWith(before)
  PROVE  /\ WholeBlocks(data) /\ WholeBlocks(before)
         /\ Count(data) = Count(before) /\ Len(data) = Len(before)
         /\ data \in Seq(Bytes) /\ before \in Seq(Bytes)
         /\ calls \in Seq(Services) /\ key \in CipherKeys
<1>1. /\ data \in Seq(Bytes) /\ before \in Seq(Bytes)
      /\ Len(data) = Len(original) /\ Len(before) = Len(original)
      /\ calls \in Seq(Services) /\ key \in CipherKeys
  BY DEF TypeInv, BeganWith
<1>2. original # <<>> /\ original \in Seq(Bytes) /\ Len(original) # 0 /\ Len(original) % BlockSize = 0
  BY DEF TypeInv, WholeBlocks
<1>3. data # <<>> /\ before # <<>>
  BY <1>1, <1>2
<1>4. QED
  BY <1>1, <1>2, <1>3 DEF WholeBlocks, Count

(* The key to decrypt with is one step of the schedule further. *)
LEMMA ExpandDeckeyStep ==
  ASSUME TypeInv, WholeBlocks(original), NEW before, BeganWith(before), ProgressInv(before),
         ExpandDeckey
  PROVE  TypeInv' /\ BeganWith(before)' /\ ProgressInv(before)'
<1>1. /\ Rest /\ data' = data /\ at = "init"
      /\ ctx' = [ctx EXCEPT !.deckey = aes_expandEncKey(@, ctx.rcon), !.rcon = rj_xtime(@)]
  BY DEF ExpandDeckey, Rest
<1>2. /\ calls # <<>> /\ data = before /\ i \in 1 .. 7
      /\ ctx.enckey = key /\ ctx.deckey = Schedule(key)[7 - i] /\ ctx.rcon = {7 - i}
  BY <1>1 DEF ProgressInv, InitInv
<1>3. /\ ctx \in [key : CipherKeys, enckey : CipherKeys, deckey : CipherKeys, rcon : Bytes]
      /\ key \in CipherKeys
  BY DEF TypeInv
<1> DEFINE n == 7 - i
<1>4. n \in 0 .. 6 /\ n + 1 \in 0 .. 7 /\ n + 1 = 7 - (i - 1) /\ i - 1 \in 0 .. 6
  BY <1>2
<1>5. ctx.deckey = Schedule(key)[n] /\ ctx.rcon = {n}
  BY <1>2
<1> HIDE DEF n
<1>6. /\ aes_expandEncKey(ctx.deckey, ctx.rcon) = Schedule(key)[n + 1]
      /\ Schedule(key)[n + 1] \in CipherKeys
      /\ rj_xtime(ctx.rcon) = {n + 1} /\ {n + 1} \in Bytes
  <2>1. rj_xtime({n}) = {n + 1} /\ {n + 1} \in Bytes
    BY <1>4, RoundConstants
  <2>2. /\ aes_expandEncKey(Schedule(key)[n], {n}) = Schedule(key)[n + 1]
        /\ Schedule(key)[n + 1] \in CipherKeys
    BY <1>3, <1>4, ScheduleFacts
  <2>3. QED
    BY <1>5, <2>1, <2>2
<1>7. /\ ctx' \in [key : CipherKeys, enckey : CipherKeys, deckey : CipherKeys, rcon : Bytes]
      /\ ctx'.enckey = key /\ ctx'.deckey = Schedule(key)[n + 1] /\ ctx'.rcon = {n + 1}
  BY <1>1, <1>2, <1>3, <1>6
<1>8. TypeInv' /\ BeganWith(before)'
  BY <1>1, <1>7, SameShape, RestStays
<1>9. CASE i > 1
  <2>1. at' = "init" /\ idx' = 0 /\ i' = i - 1
    BY <1>9 DEF ExpandDeckey, Goto
  <2>2. InitInv(before)'
    <3>1. i' \in 1 .. 7 /\ 7 - i' = n + 1
      BY <1>2, <1>4, <1>9, <2>1
    <3>2. QED
      BY <1>1, <1>2, <1>7, <2>1, <3>1 DEF InitInv, Rest
  <2>3. QED
    BY <1>8, <2>1, <2>2 DEF ProgressInv
<1>10. CASE ~(i > 1)
  <2>1. at' = Last(calls) /\ idx' = 0 /\ i' = 0
    BY <1>10 DEF ExpandDeckey, Goto
  <2>2. Last(calls) \in {"encrypt", "decrypt"}
    BY <1>2, LastCall, SameShape DEF Services
  <2>3. i = 1 /\ n + 1 = 7
    BY <1>2, <1>4, <1>10
  <2>4. 0 \in 0 .. Count(before) - 1 /\ \A j \in 0 .. Count(before) - 1 : ~(j < 0)
    BY SameShape, Positions
  <2>5. AtBlockInv(before)'
    BY <1>1, <1>2, <1>7, <2>1, <2>3, <2>4 DEF AtBlockInv, Rest
  <2>6. at' = Last(calls)' /\ BlockOf(data, idx)' = BlockOf(before, idx)'
    BY <1>1, <1>2, <2>1 DEF Rest
  <2>7. QED
    BY <1>8, <2>1, <2>2, <2>5, <2>6 DEF ProgressInv
<1>11. QED
  BY <1>9, <1>10

(* A step of a round changes one block. *)
OtherBlocksStay(before) == /\ data' \in Seq(Bytes) /\ Len(data') = Len(data)
                           /\ \A j \in 0 .. Count(before) - 1 :
                                j # idx => BlockOf(data', j) = BlockOf(data, j)

LEMMA BufIs ==
  ASSUME TypeInv, WholeBlocks(original), NEW before, BeganWith(before), AtBlockInv(before)
  PROVE  /\ Buf = BlockOf(data, idx) /\ BlockOf(data, idx) \in Blocks
         /\ BlockOf(before, idx) \in Blocks
         /\ \A block \in Blocks :
              SetBuf(block) => OtherBlocksStay(before) /\ BlockOf(data', idx) = block
<1>1. /\ WholeBlocks(data) /\ data \in Seq(Bytes) /\ Count(data) = Count(before)
      /\ WholeBlocks(before) /\ before \in Seq(Bytes)
      /\ idx \in 0 .. Count(data) - 1 /\ idx \in 0 .. Count(before) - 1
  BY SameShape DEF AtBlockInv
<1>2. Buf = BlockOf(data, idx) /\ BlockOf(data, idx) \in Blocks /\ BlockOf(before, idx) \in Blocks
  BY <1>1, BlockFacts DEF Buf
<1>3. ASSUME NEW block \in Blocks, SetBuf(block)
      PROVE  OtherBlocksStay(before) /\ BlockOf(data', idx) = block
  <2>1. data' = Replaced(data, idx, block)
    BY <1>3 DEF SetBuf, Replaced
  <2>2. /\ data' \in Seq(Bytes) /\ Len(data') = Len(data)
        /\ BlockOf(data', idx) = block
        /\ \A l \in 0 .. Count(data) - 1 : l # idx => BlockOf(data', l) = BlockOf(data, l)
    BY <1>1, <2>1, BlockReplaced
  <2>3. QED
    BY <1>1, <2>2 DEF OtherBlocksStay
<1>4. QED
  BY <1>2, <1>3

KeysStay == ctx'.enckey = ctx.enckey /\ ctx'.deckey = ctx.deckey

(* To the next round. *)
LEMMA BlockStays ==
  ASSUME NEW before, AtBlockInv(before), Rest, KeysStay, OtherBlocksStay(before), idx' = idx
  PROVE  AtBlockInv(before)'
<1>1. \A j \in 0 .. Count(before) - 1 : j < idx \/ j > idx => j # idx
  BY DEF AtBlockInv
<1>2. ASSUME NEW j \in 0 .. Count(before) - 1
      PROVE  /\ j < idx => Does(Last(calls), BlockOf(before, j), BlockOf(data', j))
             /\ j > idx => BlockOf(data', j) = BlockOf(before, j)
  BY <1>1 DEF AtBlockInv, OtherBlocksStay
<1>3. QED
  BY <1>2 DEF AtBlockInv, Rest, KeysStay, Does

(* To the next block. *)
LEMMA BlockDone ==
  ASSUME TypeInv, WholeBlocks(original), NEW before, BeganWith(before), AtBlockInv(before),
         Rest, KeysStay, OtherBlocksStay(before), NextBlock,
         Does(Last(calls), BlockOf(before, idx), BlockOf(data', idx))
  PROVE  ProgressInv(before)'
<1>1. /\ Count(data) = Count(before) /\ Count(before) \in Nat
      /\ idx \in 0 .. Count(before) - 1 /\ calls # <<>> /\ Last(calls) \in Services
  BY SameShape, Positions, LastCall DEF AtBlockInv
<1>2. \A j \in 0 .. Count(before) - 1 : j = idx \/ j < idx \/ j > idx
  BY <1>1
<1>3. ASSUME NEW j \in 0 .. Count(before) - 1, j <= idx
      PROVE  Does(Last(calls), BlockOf(before, j), BlockOf(data', j))
  BY <1>1, <1>2, <1>3 DEF AtBlockInv, OtherBlocksStay
<1>4. ASSUME NEW j \in 0 .. Count(before) - 1, j > idx
      PROVE  BlockOf(data', j) = BlockOf(before, j)
  BY <1>1, <1>4 DEF AtBlockInv, OtherBlocksStay
<1>5. CASE idx + 1 < Count(before)
  <2>1. at' = Last(calls) /\ idx' = idx + 1
    BY <1>1, <1>5 DEF NextBlock, Goto, Count, BlockSize
  <2>2. idx + 1 \in 0 .. Count(before) - 1 /\ idx + 1 > idx
        /\ \A j \in 0 .. Count(before) - 1 : (j < idx + 1 => j <= idx) /\ (j > idx + 1 => j > idx)
    BY <1>1, <1>5
  <2>3. AtBlockInv(before)'
    BY <1>3, <1>4, <2>1, <2>2 DEF AtBlockInv, Rest, KeysStay, Does
  <2>4. at' = Last(calls') /\ BlockOf(data', idx') = BlockOf(before, idx')
    BY <1>4, <2>1, <2>2 DEF Rest
  <2>5. QED
    BY <1>1, <2>1, <2>3, <2>4 DEF ProgressInv, Services
<1>6. CASE ~(idx + 1 < Count(before))
  <2>1. at' = "done"
    BY <1>1, <1>6 DEF NextBlock, Goto, Count, BlockSize
  <2>2. \A j \in 0 .. Count(before) - 1 : j <= idx
    BY <1>1, <1>6
  <2>3. Turns(Last(calls), before, data)'
    BY <1>3, <2>2 DEF Turns, Rest, Does
  <2>4. QED
    BY <1>1, <2>1, <2>3 DEF ProgressInv, Rest
<1>7. QED
  BY <1>5, <1>6

(* The first key is added, and the first round begins. *)
LEMMA EncryptBlockStep ==
  ASSUME TypeInv, WholeBlocks(original), NEW before, BeganWith(before), ProgressInv(before),
         EncryptBlock
  PROVE  TypeInv' /\ BeganWith(before)' /\ ProgressInv(before)'
<1> DEFINE block == AddKey(key, BlockOf(data, idx), 0)
<1>1. /\ at = "encrypt" /\ Rest
      /\ ctx' = [ctx EXCEPT !.key = ctx.enckey, !.rcon = {0}]
      /\ at' = "encrypt round" /\ idx' = idx /\ i' = 1
  BY DEF EncryptBlock, Rest, Goto, WorkingKey
<1>2. /\ AtBlockInv(before) /\ Last(calls) = "encrypt" /\ BlockOf(data, idx) = BlockOf(before, idx)
  BY <1>1 DEF ProgressInv
<1>3. /\ ctx \in [key : CipherKeys, enckey : CipherKeys, deckey : CipherKeys, rcon : Bytes]
      /\ key \in CipherKeys /\ ctx.enckey = key /\ Schedule(key)[0] = key /\ {0} \in Bytes
  BY <1>2, ScheduleFacts, RoundConstants DEF TypeInv, AtBlockInv
<1>4. Buf = BlockOf(data, idx) /\ BlockOf(data, idx) \in Blocks
  BY <1>2, BufIs
<1>5. block \in Blocks /\ block = aes_addRoundKey(Buf, ctx.enckey, 0)
  <2>1. 0 \div 2 = 0 /\ 16 * (0 % 2) = 0
    OBVIOUS
  <2>2. block = aes_addRoundKey(BlockOf(data, idx), Schedule(key)[0], 0)
    BY <2>1 DEF AddKey
  <2>3. QED
    BY <1>3, <1>4, <2>2, AddKeyInverts
<1> HIDE DEF block
<1>6. SetBuf(block)
  BY <1>5 DEF EncryptBlock, WorkingKey
<1>7. OtherBlocksStay(before) /\ BlockOf(data', idx) = block
  BY <1>2, <1>5, <1>6, BufIs
<1>8. /\ ctx' \in [key : CipherKeys, enckey : CipherKeys, deckey : CipherKeys, rcon : Bytes]
      /\ ctx'.key = key /\ ctx'.rcon = {0} /\ KeysStay
  BY <1>1, <1>3 DEF KeysStay
<1>9. TypeInv' /\ BeganWith(before)'
  BY <1>1, <1>7, <1>8, RestStays DEF OtherBlocksStay
<1>10. AtBlockInv(before)'
  BY <1>1, <1>2, <1>7, <1>8, BlockStays
<1>11. EncryptRoundInv(before)'
  <2> DEFINE p == [m \in 0 .. 14 |-> block]
  <2>1. p \in [0 .. 14 -> Blocks] /\ p[0] = block
    BY <1>5
  <2> HIDE DEF p
  <2>2. Path(key, p, 0, 0)
    BY <2>1 DEF Path
  <2>3. (1 - 1) \div 2 = 0 /\ 1 - 1 = 0 /\ 1 \in 1 .. 14
    OBVIOUS
  <2>4. p[0] = AddKey(key, BlockOf(before, idx), 0)
    BY <1>2, <2>1 DEF block
  <2>5. i' - 1 = 0 /\ (i' - 1) \div 2 = 0 /\ i' \in 1 .. 14
    BY <1>1, <2>3
  <2>6. Path(key', p, 0, i' - 1) /\ p[0] = AddKey(key', BlockOf(before, idx'), 0)
        /\ p[i' - 1] = BlockOf(data', idx')
    BY <1>1, <1>7, <2>1, <2>2, <2>4, <2>5 DEF Rest
  <2>7. ctx'.key = Schedule(key')[(i' - 1) \div 2] /\ ctx'.rcon = {(i' - 1) \div 2}
    BY <1>1, <1>3, <1>8, <2>5 DEF Rest
  <2>8. QED
    BY <1>1, <1>2, <2>5, <2>6, <2>7 DEF EncryptRoundInv, Rest
<1>12. QED
  BY <1>1, <1>9, <1>10, <1>11 DEF ProgressInv

(* The round key, on the way to encrypt: every second round needs the next key of the *)
(* schedule.                                                                          *)
LEMMA EncryptKeys ==
  ASSUME NEW k \in CipherKeys, NEW m \in 1 .. 14
  PROVE  /\ m % 2 = 1 => m \div 2 = (m - 1) \div 2
         /\ m % 2 # 1 => /\ aes_expandEncKey(Schedule(k)[(m - 1) \div 2], {(m - 1) \div 2})
                             = Schedule(k)[m \div 2]
                         /\ rj_xtime({(m - 1) \div 2}) = {m \div 2}
         /\ Schedule(k)[m \div 2] \in CipherKeys /\ {m \div 2} \in Bytes
<1> DEFINE n == (m - 1) \div 2
<1>1. /\ m % 2 = 1 => m \div 2 = n
      /\ m % 2 # 1 => m \div 2 = n + 1 /\ n \in 0 .. 6
      /\ m \div 2 \in 0 .. 7
  OBVIOUS
<1> HIDE DEF n
<1>2. CASE m % 2 = 1
  BY <1>1, <1>2, ScheduleFacts, RoundConstants DEF n
<1>3. CASE m % 2 # 1
  <2>1. m \div 2 = n + 1 /\ n \in 0 .. 6 /\ n + 1 \in 0 .. 7
    BY <1>1, <1>3
  <2>2. rj_xtime({n}) = {n + 1} /\ {n + 1} \in Bytes
    BY <2>1, RoundConstants
  <2>3. /\ aes_expandEncKey(Schedule(k)[n], {n}) = Schedule(k)[n + 1]
        /\ Schedule(k)[n + 1] \in CipherKeys
    BY <2>1, ScheduleFacts
  <2>4. QED
    BY <1>3, <2>1, <2>2, <2>3 DEF n
<1>4. QED
  BY <1>2, <1>3

LEMMA EncryptRoundStep ==
  ASSUME TypeInv, WholeBlocks(original), NEW before, BeganWith(before), ProgressInv(before),
         EncryptRound
  PROVE  TypeInv' /\ BeganWith(before)' /\ ProgressInv(before)'
<1>1. at = "encrypt round" /\ Rest
  BY DEF EncryptRound, Rest
<1>2. AtBlockInv(before) /\ EncryptRoundInv(before)
  BY <1>1 DEF ProgressInv
<1>3. /\ Last(calls) = "encrypt" /\ i \in 1 .. 14
      /\ ctx.key = Schedule(key)[(i - 1) \div 2] /\ ctx.rcon = {(i - 1) \div 2}
      /\ ctx \in [key : CipherKeys, enckey : CipherKeys, deckey : CipherKeys, rcon : Bytes]
      /\ key \in CipherKeys
  BY <1>2 DEF EncryptRoundInv, TypeInv
<1>4. PICK p : /\ Path(key, p, 0, i - 1)
               /\ p[0] = AddKey(key, BlockOf(before, idx), 0) /\ p[i - 1] = BlockOf(data, idx)
  BY <1>2 DEF EncryptRoundInv
<1>5. PICK q : Path(key, q, 0, i) /\ q[0] = p[0] /\ q[i] = Round(key, p[i - 1], i)
  BY <1>3, <1>4, PathGrows
<1>6. Buf = p[i - 1] /\ p[i - 1] \in Blocks
  BY <1>2, <1>4, BufIs
<1> DEFINE odd == i % 2 = 1
           working == IF odd THEN ctx.key ELSE aes_expandEncKey(ctx.key, ctx.rcon)
           rcon == IF odd THEN ctx.rcon ELSE rj_xtime(ctx.rcon)
<1>7. /\ working = Schedule(key)[i \div 2] /\ rcon = {i \div 2}
      /\ working \in CipherKeys /\ rcon \in Bytes
  <2>1. CASE odd
    BY <1>3, <2>1, EncryptKeys
  <2>2. CASE ~odd
    <3> DEFINE n == (i - 1) \div 2
    <3>1. /\ aes_expandEncKey(Schedule(key)[n], {n}) = Schedule(key)[i \div 2]
          /\ rj_xtime({n}) = {i \div 2}
          /\ Schedule(key)[i \div 2] \in CipherKeys /\ {i \div 2} \in Bytes
      BY <1>3, <2>2, EncryptKeys
    <3>2. ctx.key = Schedule(key)[n] /\ ctx.rcon = {n}
      BY <1>3
    <3> HIDE DEF n
    <3>3. working = aes_expandEncKey(Schedule(key)[n], {n}) /\ rcon = rj_xtime({n})
      BY <2>2, <3>2
    <3> HIDE DEF odd, working, rcon
    <3>4. QED
      BY <3>1, <3>3
  <2>3. QED
    BY <2>1, <2>2
<1>8. (IF odd THEN 16 ELSE 0) = 16 * (i % 2)
  BY <1>3
<1>9. /\ SetBuf(aes_addRoundKey(IF i < Rounds THEN aes_mixColumns(Shifted(Buf)) ELSE Shifted(Buf),
                                working, IF odd THEN 16 ELSE 0))
      /\ ctx' = [ctx EXCEPT !.key = working, !.rcon = rcon]
      /\ IF i < Rounds THEN Goto("encrypt round", idx, i + 1) ELSE NextBlock
  BY DEF EncryptRound, Shifted
<1> HIDE DEF odd, working, rcon
<1>10. /\ ctx' \in [key : CipherKeys, enckey : CipherKeys, deckey : CipherKeys, rcon : Bytes]
       /\ ctx'.key = working /\ ctx'.rcon = rcon /\ KeysStay
  BY <1>3, <1>7, <1>9 DEF KeysStay
<1>11. SetBuf(q[i])
  BY <1>5, <1>6, <1>7, <1>8, <1>9 DEF Round, AddKey
<1>12. q[i] \in Blocks
  BY <1>3, <1>5, <1>6, RoundInverts
<1>13. OtherBlocksStay(before) /\ BlockOf(data', idx) = q[i]
  BY <1>2, <1>11, <1>12, BufIs
<1>14. TypeInv' /\ BeganWith(before)'
  BY <1>1, <1>10, <1>13, RestStays DEF OtherBlocksStay
<1>15. CASE i < Rounds
  <2>1. at' = "encrypt round" /\ idx' = idx /\ i' = i + 1
    BY <1>9, <1>15 DEF Goto
  <2>2. AtBlockInv(before)'
    BY <1>1, <1>2, <1>10, <1>13, <2>1, BlockStays
  <2>3. i' - 1 = i /\ i' \in 1 .. 14
    <3>1. i \in 1 .. 14 /\ i < 14
      BY <1>3, <1>15 DEF Rounds
    <3>2. \A m \in 1 .. 14 : m < 14 => (m + 1) - 1 = m /\ m + 1 \in 1 .. 14
      OBVIOUS
    <3>3. QED
      BY <2>1, <3>1, <3>2
  <2>4. Path(key', q, 0, i' - 1) /\ q[0] = AddKey(key', BlockOf(before, idx'), 0)
        /\ q[i' - 1] = BlockOf(data', idx')
    BY <1>1, <1>4, <1>5, <1>13, <2>1, <2>3 DEF Rest
  <2>5. ctx'.key = Schedule(key')[(i' - 1) \div 2] /\ ctx'.rcon = {(i' - 1) \div 2}
    BY <1>1, <1>7, <1>10, <2>3 DEF Rest
  <2>6. EncryptRoundInv(before)'
    BY <1>1, <1>3, <2>3, <2>4, <2>5 DEF EncryptRoundInv, Rest
  <2>7. QED
    BY <1>14, <2>1, <2>2, <2>6 DEF ProgressInv
<1>16. CASE ~(i < Rounds)
  <2>1. i = 14 /\ NextBlock
    BY <1>3, <1>9, <1>16 DEF Rounds
  <2>2. Encrypts(key, BlockOf(before, idx), BlockOf(data', idx))
    BY <1>4, <1>5, <1>13, <2>1 DEF Encrypts
  <2>3. Does(Last(calls), BlockOf(before, idx), BlockOf(data', idx))
    BY <1>3, <2>2 DEF Does
  <2>4. ProgressInv(before)'
    BY <1>1, <1>2, <1>10, <1>13, <2>1, <2>3, BlockDone
  <2>5. QED
    BY <1>14, <2>4
<1>17. QED
  BY <1>15, <1>16

(* The last key is added, and the last round is undone. *)
LEMMA DecryptBlockStep ==
  ASSUME TypeInv, WholeBlocks(original), NEW before, BeganWith(before), ProgressInv(before),
         DecryptBlock
  PROVE  TypeInv' /\ BeganWith(before)' /\ ProgressInv(before)'
<1> DEFINE block == Undo(key, BlockOf(before, idx), 14)
<1>1. /\ at = "decrypt" /\ Rest
      /\ ctx' = [ctx EXCEPT !.key = ctx.deckey, !.rcon = {7}]
      /\ at' = "decrypt round" /\ idx' = idx /\ i' = 13
  BY DEF DecryptBlock, Rest, Goto, WorkingKey
<1>2. /\ AtBlockInv(before) /\ Last(calls) = "decrypt" /\ BlockOf(data, idx) = BlockOf(before, idx)
  BY <1>1 DEF ProgressInv
<1>3. /\ ctx \in [key : CipherKeys, enckey : CipherKeys, deckey : CipherKeys, rcon : Bytes]
      /\ key \in CipherKeys /\ ctx.deckey = Schedule(key)[7] /\ {7} \in Bytes
      /\ Schedule(key)[7] \in CipherKeys
  BY <1>2, ScheduleFacts, RoundConstants DEF TypeInv, AtBlockInv
<1>4. Buf = BlockOf(before, idx) /\ BlockOf(before, idx) \in Blocks
  BY <1>2, BufIs
<1>5. block \in Blocks /\ block = Unshift(aes_addRoundKey(Buf, ctx.deckey, 0))
  <2>1. 14 \div 2 = 7 /\ 16 * (14 % 2) = 0 /\ ~(14 < Rounds) /\ 14 \in 1 .. 14
    BY DEF Rounds
  <2>2. block = Unshift(aes_addRoundKey(BlockOf(before, idx), Schedule(key)[7], 0))
    BY <2>1 DEF Undo, AddKey
  <2>3. block \in Blocks
    BY <1>3, <1>4, <2>1, RoundInverts
  <2>4. QED
    BY <1>3, <1>4, <2>2, <2>3
<1>6. PICK q : /\ Path(key, q, 13, 14) /\ q[14] = BlockOf(before, idx) /\ q[13] = block
  <2> DEFINE p == [m \in 0 .. 14 |-> BlockOf(before, idx)]
  <2>1. p \in [0 .. 14 -> Blocks] /\ p[14] = BlockOf(before, idx)
    BY <1>4
  <2> HIDE DEF p
  <2>2. Path(key, p, 14, 14)
    BY <2>1 DEF Path
  <2>3. \A m \in 1 .. 14 : Path(key, p, m, 14) =>
          \E q : Path(key, q, m - 1, 14) /\ q[14] = p[14] /\ q[m - 1] = Undo(key, p[m], m)
    BY <1>3, PathGrows
  <2>4. 14 \in 1 .. 14 /\ 14 - 1 = 13
    OBVIOUS
  <2>5. PICK q : Path(key, q, 14 - 1, 14) /\ q[14] = p[14] /\ q[14 - 1] = Undo(key, p[14], 14)
    BY <2>2, <2>3, <2>4
  <2>6. Path(key, q, 13, 14) /\ q[14] = BlockOf(before, idx) /\ q[13] = block
    BY <2>1, <2>4, <2>5
  <2>7. QED
    BY <2>6
<1> HIDE DEF block
<1>7. SetBuf(block)
  BY <1>5 DEF DecryptBlock, WorkingKey
<1>8. OtherBlocksStay(before) /\ BlockOf(data', idx) = block
  BY <1>2, <1>5, <1>7, BufIs
<1>9. /\ ctx' \in [key : CipherKeys, enckey : CipherKeys, deckey : CipherKeys, rcon : Bytes]
      /\ ctx'.key = Schedule(key)[7] /\ ctx'.rcon = {7} /\ KeysStay
  BY <1>1, <1>3 DEF KeysStay
<1>10. TypeInv' /\ BeganWith(before)'
  BY <1>1, <1>8, <1>9, RestStays DEF OtherBlocksStay
<1>11. AtBlockInv(before)'
  BY <1>1, <1>2, <1>8, <1>9, BlockStays
<1>12. DecryptRoundInv(before)'
  <2>1. i' \in 1 .. 13 /\ (i' + 1) \div 2 = 7
    <3>1. 13 \in 1 .. 13 /\ (13 + 1) \div 2 = 7
      OBVIOUS
    <3>2. QED
      BY <1>1, <3>1
  <2>2. Path(key', q, i', 14) /\ q[14] = BlockOf(before, idx') /\ q[i'] = BlockOf(data', idx')
    BY <1>1, <1>6, <1>8 DEF Rest
  <2>3. ctx'.key = Schedule(key')[(i' + 1) \div 2] /\ ctx'.rcon = {(i' + 1) \div 2}
    BY <1>1, <1>9, <2>1 DEF Rest
  <2>4. QED
    BY <1>1, <1>2, <2>1, <2>2, <2>3 DEF DecryptRoundInv, Rest
<1>13. QED
  BY <1>1, <1>10, <1>11, <1>12 DEF ProgressInv

(* The round key, on the way to decrypt: every second round needs the key before in *)
(* the schedule.                                                                    *)
LEMMA DecryptKeys ==
  ASSUME NEW k \in CipherKeys, NEW m \in 1 .. 13
  PROVE  /\ m % 2 # 1 => m \div 2 = (m + 1) \div 2
         /\ m % 2 = 1 => /\ RconBack({(m + 1) \div 2}) = {m \div 2}
                         /\ aes_expandDecKey(Schedule(k)[(m + 1) \div 2], {m \div 2})
                             = Schedule(k)[m \div 2]
         /\ Schedule(k)[m \div 2] \in CipherKeys /\ {m \div 2} \in Bytes
<1> DEFINE n == (m + 1) \div 2
<1>1. /\ m % 2 # 1 => m \div 2 = n
      /\ m % 2 = 1 => m \div 2 = n - 1 /\ n \in 1 .. 7
      /\ m \div 2 \in 0 .. 7
  OBVIOUS
<1> HIDE DEF n
<1>2. CASE m % 2 # 1
  BY <1>1, <1>2, ScheduleFacts, RoundConstants DEF n
<1>3. CASE m % 2 = 1
  <2>1. m \div 2 = n - 1 /\ n \in 1 .. 7 /\ n - 1 \in 0 .. 7
    BY <1>1, <1>3
  <2>2. RconBack({n}) = {n - 1} /\ {n - 1} \in Bytes
    BY <2>1, RoundConstants
  <2>3. /\ aes_expandDecKey(Schedule(k)[n], {n - 1}) = Schedule(k)[n - 1]
        /\ Schedule(k)[n - 1] \in CipherKeys
    BY <2>1, ScheduleFacts
  <2>4. QED
    BY <1>3, <2>1, <2>2, <2>3 DEF n
<1>4. QED
  BY <1>2, <1>3

LEMMA DecryptRoundStep ==
  ASSUME TypeInv, WholeBlocks(original), NEW before, BeganWith(before), ProgressInv(before),
         DecryptRound
  PROVE  TypeInv' /\ BeganWith(before)' /\ ProgressInv(before)'
<1>1. at = "decrypt round" /\ Rest
  BY DEF DecryptRound, Rest
<1>2. AtBlockInv(before) /\ DecryptRoundInv(before)
  BY <1>1 DEF ProgressInv
<1>3. /\ Last(calls) = "decrypt" /\ i \in 1 .. 13
      /\ ctx.key = Schedule(key)[(i + 1) \div 2] /\ ctx.rcon = {(i + 1) \div 2}
      /\ ctx \in [key : CipherKeys, enckey : CipherKeys, deckey : CipherKeys, rcon : Bytes]
      /\ key \in CipherKeys
  BY <1>2 DEF DecryptRoundInv, TypeInv
<1>4. PICK p : /\ Path(key, p, i, 14)
               /\ p[14] = BlockOf(before, idx) /\ p[i] = BlockOf(data, idx)
  BY <1>2 DEF DecryptRoundInv
<1>5. i \in 1 .. 14
  BY <1>3
<1>6. PICK q : Path(key, q, i - 1, 14) /\ q[14] = p[14] /\ q[i - 1] = Undo(key, p[i], i)
  BY <1>3, <1>4, <1>5, PathGrows
<1>7. Buf = p[i] /\ p[i] \in Blocks
  BY <1>2, <1>4, BufIs
<1> DEFINE odd == i % 2 = 1
           rcon == IF odd THEN RconBack(ctx.rcon) ELSE ctx.rcon
           working == IF odd THEN aes_expandDecKey(ctx.key, rcon) ELSE ctx.key
           added == aes_addRoundKey(Buf, working, IF odd THEN 16 ELSE 0)
           block == Unshift(aes_mixColumns_inv(added))
           last == aes_addRoundKey(block, working, 0)
<1>8. /\ SetBuf(IF i > 1 THEN block ELSE last)
      /\ ctx' = [ctx EXCEPT !.key = working, !.rcon = rcon]
      /\ IF i > 1 THEN Goto("decrypt round", idx, i - 1) ELSE NextBlock
  BY DEF DecryptRound
<1>9. /\ working = Schedule(key)[i \div 2] /\ rcon = {i \div 2}
      /\ working \in CipherKeys /\ rcon \in Bytes
  <2> DEFINE n == (i + 1) \div 2
  <2>1. ctx.key = Schedule(key)[n] /\ ctx.rcon = {n}
    BY <1>3
  <2>2. Schedule(key)[i \div 2] \in CipherKeys /\ {i \div 2} \in Bytes
    BY <1>3, DecryptKeys
  <2>3. CASE odd
    <3>1. /\ RconBack({n}) = {i \div 2}
          /\ aes_expandDecKey(Schedule(key)[n], {i \div 2}) = Schedule(key)[i \div 2]
      BY <1>3, <2>3, DecryptKeys
    <3> HIDE DEF n
    <3>2. rcon = RconBack({n}) /\ working = aes_expandDecKey(Schedule(key)[n], rcon)
      BY <2>1, <2>3
    <3> HIDE DEF odd, rcon, working
    <3>3. QED
      BY <2>2, <3>1, <3>2
  <2>4. CASE ~odd
    <3>1. i \div 2 = n
      BY <1>3, <2>4, DecryptKeys
    <3> HIDE DEF n
    <3>2. rcon = {n} /\ working = Schedule(key)[n]
      BY <2>1, <2>4
    <3> HIDE DEF odd, rcon, working
    <3>3. QED
      BY <2>2, <3>1, <3>2
  <2>5. QED
    BY <2>3, <2>4
<1>10. (IF odd THEN 16 ELSE 0) = 16 * (i % 2)
  BY <1>3
<1> HIDE DEF odd, working, rcon
<1>11. block = q[i - 1] /\ q[i - 1] \in Blocks
  <2>1. i < Rounds
    BY <1>3 DEF Rounds
  <2>2. added = AddKey(key, p[i], i)
    BY <1>7, <1>9, <1>10 DEF AddKey
  <2>3. Undo(key, p[i], i) = Unshift(aes_mixColumns_inv(AddKey(key, p[i], i)))
    BY <2>1 DEF Undo
  <2>4. Undo(key, p[i], i) \in Blocks
    BY <1>3, <1>5, <1>7, RoundInverts
  <2> HIDE DEF added
  <2>5. QED
    BY <1>6, <2>2, <2>3, <2>4
<1>12. last \in Blocks /\ (i = 1 => last = AddKey(key, q[0], 0))
  <2> HIDE DEF block
  <2>1. last \in Blocks
    BY <1>9, <1>11, AddRoundKeyInverts
  <2>2. ASSUME i = 1 PROVE last = AddKey(key, q[0], 0)
    <3>1. 1 \div 2 = 0 /\ 0 \div 2 = 0 /\ 16 * (0 % 2) = 0 /\ 1 - 1 = 0
      OBVIOUS
    <3>2. working = Schedule(key)[0] /\ block = q[0]
      BY <1>9, <1>11, <2>2, <3>1
    <3>3. AddKey(key, q[0], 0) = aes_addRoundKey(q[0], Schedule(key)[0], 0)
      BY <3>1 DEF AddKey
    <3>4. QED
      BY <3>2, <3>3
  <2>3. QED
    BY <2>1, <2>2
<1> HIDE DEF added, block, last
<1>13. /\ ctx' \in [key : CipherKeys, enckey : CipherKeys, deckey : CipherKeys, rcon : Bytes]
       /\ ctx'.key = working /\ ctx'.rcon = rcon /\ KeysStay
  BY <1>3, <1>8, <1>9 DEF KeysStay
<1>14. CASE i > 1
  <2>1. at' = "decrypt round" /\ idx' = idx /\ i' = i - 1 /\ SetBuf(q[i - 1])
    BY <1>8, <1>11, <1>14 DEF Goto
  <2>2. OtherBlocksStay(before) /\ BlockOf(data', idx) = q[i - 1]
    BY <1>2, <1>11, <2>1, BufIs
  <2>3. TypeInv' /\ BeganWith(before)'
    BY <1>1, <1>13, <2>2, RestStays DEF OtherBlocksStay
  <2>4. AtBlockInv(before)'
    BY <1>1, <1>2, <1>13, <2>1, <2>2, BlockStays
  <2>5. i' + 1 = i /\ i' \in 1 .. 13
    <3>1. \A m \in 1 .. 13 : m > 1 => (m - 1) + 1 = m /\ m - 1 \in 1 .. 13
      OBVIOUS
    <3>2. QED
      BY <1>3, <1>14, <2>1, <3>1
  <2>6. Path(key', q, i', 14) /\ q[14] = BlockOf(before, idx') /\ q[i'] = BlockOf(data', idx')
    BY <1>1, <1>4, <1>6, <2>1, <2>2 DEF Rest
  <2>7. ctx'.key = Schedule(key')[(i' + 1) \div 2] /\ ctx'.rcon = {(i' + 1) \div 2}
    BY <1>1, <1>9, <1>13, <2>5 DEF Rest
  <2>8. DecryptRoundInv(before)'
    BY <1>1, <1>3, <2>5, <2>6, <2>7 DEF DecryptRoundInv, Rest
  <2>9. QED
    BY <2>1, <2>3, <2>4, <2>8 DEF ProgressInv
<1>15. CASE ~(i > 1)
  <2>1. i = 1 /\ i - 1 = 0 /\ NextBlock /\ SetBuf(last)
    BY <1>3, <1>8, <1>15
  <2>2. OtherBlocksStay(before) /\ BlockOf(data', idx) = last
    BY <1>2, <1>12, <2>1, BufIs
  <2>3. TypeInv' /\ BeganWith(before)'
    BY <1>1, <1>13, <2>2, RestStays DEF OtherBlocksStay
  <2>4. q[0] = AddKey(key, last, 0)
    <3>1. 0 \in 0 .. 14 /\ q[0] \in Blocks
      BY <1>11, <2>1
    <3>2. QED
      BY <1>3, <1>12, <2>1, <3>1, AddKeyInverts
  <2>5. Encrypts(key, BlockOf(data', idx), BlockOf(before, idx))
    BY <1>4, <1>6, <2>1, <2>2, <2>4 DEF Encrypts
  <2>6. Does(Last(calls), BlockOf(before, idx), BlockOf(data', idx))
    BY <1>3, <2>5 DEF Does
  <2>7. ProgressInv(before)'
    BY <1>1, <1>2, <1>13, <2>1, <2>2, <2>6, BlockDone
  <2>8. QED
    BY <2>3, <2>7
<1>16. QED
  BY <1>14, <1>15

(* The context is wiped. *)
LEMMA DoneStep ==
  ASSUME TypeInv, WholeBlocks(original), NEW before, BeganWith(before), ProgressInv(before), Done
  PROVE  TypeInv' /\ BeganWith(before)' /\ ProgressInv(before)'
<1>1. at = "done" /\ Rest /\ data' = data /\ ctx' = NoContents /\ at' = "idle"
  BY DEF Done, Rest, Goto
<1>2. NoContents \in [key : CipherKeys, enckey : CipherKeys, deckey : CipherKeys, rcon : Bytes]
  BY DEF NoContents, NoKey, CipherKeys, Bytes
<1>3. TypeInv' /\ BeganWith(before)'
  BY <1>1, <1>2, RestStays DEF TypeInv
<1>4. calls # <<>> /\ Turns(Last(calls), before, data)
  BY <1>1 DEF ProgressInv
<1>5. IdleInv(before)'
  BY <1>1, <1>4 DEF IdleInv, Turns, Does, Rest
<1>6. QED
  BY <1>1, <1>3, <1>5 DEF ProgressInv

LEMMA IInvStep == IInv /\ [CryptoNext]_cryptoVars => IInv'
<1> SUFFICES ASSUME IInv, [CryptoNext]_cryptoVars PROVE IInv'
  OBVIOUS
<1>1. CASE TbxCryptoAes256Encrypt
  BY <1>1, CallStep DEF TbxCryptoAes256Encrypt, Services
<1>2. CASE TbxCryptoAes256Decrypt
  BY <1>2, CallStep DEF TbxCryptoAes256Decrypt, Services
<1> DEFINE Pass == ExpandDeckey \/ EncryptBlock \/ EncryptRound \/ DecryptBlock \/ DecryptRound \/ Done
<1>3. CASE Pass
  <2>1. at # "idle"
    BY <1>3 DEF ExpandDeckey, EncryptBlock, EncryptRound, DecryptBlock, DecryptRound, Done
  <2>2. WholeBlocks(original) /\ TypeInv
    BY <2>1 DEF IInv
  <2>3. PICK before : BeganWith(before) /\ ProgressInv(before)
    BY <2>2 DEF IInv
  <2>4. TypeInv' /\ BeganWith(before)' /\ ProgressInv(before)'
    <3>1. CASE ExpandDeckey
      BY <2>2, <2>3, <3>1, ExpandDeckeyStep
    <3>2. CASE EncryptBlock
      BY <2>2, <2>3, <3>2, EncryptBlockStep
    <3>3. CASE EncryptRound
      BY <2>2, <2>3, <3>3, EncryptRoundStep
    <3>4. CASE DecryptBlock
      BY <2>2, <2>3, <3>4, DecryptBlockStep
    <3>5. CASE DecryptRound
      BY <2>2, <2>3, <3>5, DecryptRoundStep
    <3>6. CASE Done
      BY <2>2, <2>3, <3>6, DoneStep
    <3>7. QED
      BY <1>3, <3>1, <3>2, <3>3, <3>4, <3>5, <3>6
  <2>5. original' = original
    BY <1>3 DEF ExpandDeckey, EncryptBlock, EncryptRound, DecryptBlock, DecryptRound, Done
  <2>6. WholeBlocks(original)'
    BY <2>2, <2>5
  <2>7. QED
    BY <2>4, <2>6 DEF IInv
<1>4. CASE UNCHANGED cryptoVars
  <2>1. /\ key' = key /\ data' = data /\ ctx' = ctx /\ at' = at /\ idx' = idx /\ i' = i
        /\ original' = original /\ calls' = calls
    BY <1>4 DEF cryptoVars, place
  <2>2. TypeInv'
    BY <2>1 DEF IInv, TypeInv
  <2>3. ASSUME NEW before, BeganWith(before), ProgressInv(before)
        PROVE  BeganWith(before)' /\ ProgressInv(before)'
    <3>1. BeganWith(before)'
      BY <2>1, <2>3 DEF BeganWith, Turns, Does
    <3>2. IdleInv(before) => IdleInv(before)'
      BY <2>1 DEF IdleInv, Turns, Does
    <3>3. InitInv(before) => InitInv(before)'
      BY <2>1 DEF InitInv
    <3>4. AtBlockInv(before) => AtBlockInv(before)'
      BY <2>1 DEF AtBlockInv, Does
    <3>5. EncryptRoundInv(before) => EncryptRoundInv(before)'
      BY <2>1 DEF EncryptRoundInv
    <3>6. DecryptRoundInv(before) => DecryptRoundInv(before)'
      BY <2>1 DEF DecryptRoundInv
    <3>7. Turns(Last(calls), before, data) => Turns(Last(calls), before, data)'
      BY <2>1 DEF Turns, Does
    <3>8. ProgressInv(before)'
      BY <2>1, <2>3, <3>2, <3>3, <3>4, <3>5, <3>6, <3>7 DEF ProgressInv
    <3>9. QED
      BY <3>1, <3>8
  <2>4. CASE WholeBlocks(original)
    <3>1. PICK before : BeganWith(before) /\ ProgressInv(before)
      BY <2>4 DEF IInv
    <3>2. QED
      BY <2>1, <2>2, <2>3, <2>4, <3>1 DEF IInv
  <2>5. CASE ~WholeBlocks(original)
    BY <2>1, <2>2, <2>5 DEF IInv
  <2>6. QED
    BY <2>4, <2>5
<1>5. QED
  BY <1>1, <1>2, <1>3, <1>4 DEF CryptoNext

(* For every key and every array: what TbxCryptoAes256Decrypt does undoes what          *)
(* TbxCryptoAes256Encrypt did, and the other way round, in every block of the array and *)
(* with the round keys that one computes forwards and the other one backwards.          *)
THEOREM DecryptionInverts == CryptoSpec => []DecryptInverts
<1>1. IInv => DecryptInverts
  <2> SUFFICES ASSUME IInv, Returned,
                      calls \in {<<"encrypt", "decrypt">>, <<"decrypt", "encrypt">>}
               PROVE  data = original
    BY DEF DecryptInverts
  <2>1. CASE ~WholeBlocks(original)
    BY <2>1 DEF IInv
  <2>2. CASE WholeBlocks(original)
    <3>1. PICK before : BeganWith(before) /\ ProgressInv(before)
      BY <2>2 DEF IInv
    <3>2. /\ WholeBlocks(data) /\ WholeBlocks(before)
          /\ Count(data) = Count(before) /\ data \in Seq(Bytes) /\ before \in Seq(Bytes)
          /\ calls \in Seq(Services) /\ key \in CipherKeys
          /\ original \in Seq(Bytes) /\ Len(data) = Len(original)
      BY <2>2, <3>1, SameShape DEF IInv, TypeInv
    <3>3. Count(original) = Count(before)
      BY <3>2 DEF Count
    <3>4. /\ Len(calls) = 2 /\ calls # <<>>
          /\ \/ calls[1] = "encrypt" /\ calls[2] = "decrypt"
             \/ calls[1] = "decrypt" /\ calls[2] = "encrypt"
      OBVIOUS
    <3>5. Last(calls) = calls[2]
      BY <3>2, <3>4, LastCall
    <3>6. Turns(calls[1], original, before) /\ Turns(calls[2], before, data)
      BY <3>1, <3>4, <3>5 DEF BeganWith, ProgressInv, Returned, IdleInv
    <3>7. ASSUME NEW j \in 0 .. Count(original) - 1 PROVE BlockOf(data, j) = BlockOf(original, j)
      <4>1. Does(calls[1], BlockOf(original, j), BlockOf(before, j))
            /\ Does(calls[2], BlockOf(before, j), BlockOf(data, j))
        BY <3>3, <3>6 DEF Turns
      <4>2. BlockOf(original, j) \in Blocks /\ BlockOf(before, j) \in Blocks /\ BlockOf(data, j) \in Blocks
        BY <2>2, <3>2, <3>3, BlockFacts
      <4>3. CASE calls[1] = "encrypt" /\ calls[2] = "decrypt"
        <5>1. /\ Encrypts(key, BlockOf(original, j), BlockOf(before, j))
              /\ Encrypts(key, BlockOf(data, j), BlockOf(before, j))
          BY <4>1, <4>3 DEF Does
        <5>2. QED
          BY <3>2, <4>2, <5>1, EncryptsOne
      <4>4. CASE calls[1] = "decrypt" /\ calls[2] = "encrypt"
        <5>1. /\ Encrypts(key, BlockOf(before, j), BlockOf(original, j))
              /\ Encrypts(key, BlockOf(before, j), BlockOf(data, j))
          BY <4>1, <4>4 DEF Does
        <5>2. QED
          BY <3>2, <4>2, <5>1, EncryptsOne
      <4>5. QED
        BY <3>4, <4>3, <4>4
    <3>8. QED
      BY <2>2, <3>2, <3>7, SameBlocks
  <2>3. QED
    BY <2>1, <2>2
<1>2. QED
  BY InitIInv, IInvStep, <1>1, PTL DEF CryptoSpec
-----------------------------------------------------------------------------
(* What Fips197 computes, step by step, is what the code computes. *)

(* The operators that it takes from other modules are those of the code. *)

LEMMA SameResidue ==
  \A p, degree, low : Standard!Residue(p, degree, low) = Residue(p, degree, low)
BY DEF Standard!Residue, Standard!FoldSet, Standard!MapThenFoldSet, Standard!PowerOfX,
       Standard!BitXor, Residue, FoldSet, MapThenFoldSet, PowerOfX, BitXor

LEMMA SameCardinality == \A S : Standard!Cardinality(S) = Cardinality(S)
BY DEF Standard!Cardinality, Cardinality

LEMMA SamePower ==
  \A n, degree, low : Standard!PowerOfX(n, degree, low) = PowerOfX(n, degree, low)
BY DEF Standard!PowerOfX, Standard!BitXor, PowerOfX, BitXor

(* The polynomial of AES. *)
Low == {4, 3, 1, 0}

(* A byte shifted by one is reduced to the one that is doubled; a byte is reduced. *)
LEMMA Reduces ==
  ASSUME NEW p \in Bytes
  PROVE  /\ Standard!Residue({e + 1 : e \in p}, 8, {4, 3, 1, 0}) = rj_xtime(p)
         /\ Standard!Residue(p, 8, {4, 3, 1, 0}) = p
<1>1. Divisor(8, Low) /\ p \in Remainders(8)
  BY DEF Divisor, Remainders, Low, Bytes
<1>2. IsFiniteSet(p)
  BY <1>1, ResidueStays
<1>3. Residue(p, 8, Low) = p
  BY <1>1, ResidueStays
<1>4. Residue(Times(p, 1), 8, Low) = DivideBit(p, 8, Low)
  <2>1. p \in SUBSET Nat
    BY DEF Bytes
  <2>2. Residue(Times(p, 1), 8, Low) = DivideBit(Residue(p, 8, Low), 8, Low)
    BY <1>1, <1>2, <2>1, ResidueShifts
  <2>3. QED
    BY <1>3, <2>2
<1>5. DivideBit(p, 8, Low) = rj_xtime(p)
  <2>1. 8 - 1 = 7
    OBVIOUS
  <2>2. QED
    BY <2>1 DEF DivideBit, rj_xtime, Low
<1>6. QED
  BY <1>3, <1>4, <1>5, SameResidue DEF Times, Low

(* The coefficients 2 and 3 of the columns. *)
LEMMA Doubles ==
  ASSUME NEW p \in Bytes
  PROVE  Standard!Times({1}, p) = rj_xtime(p)
<1>1. Standard!Product({1}, p) = {e + 1 : e \in p}
  <2> DEFINE A(e) == {j \in {1} : e - j \in p}
  <2>1. \A e : e \in Standard!Product({1}, p) <=> /\ \E j \in {1}, x \in p : e = j + x
                                                 /\ Cardinality(A(e)) % 2 = 1
    BY SameCardinality DEF Standard!Product
  <2>2. ASSUME NEW x \in p PROVE Cardinality(A(1 + x)) % 2 = 1
    <3>1. x \in Nat /\ (1 + x) - 1 = x
      BY DEF Bytes
    <3>2. A(1 + x) = {1}
      BY <3>1
    <3> HIDE DEF A
    <3>3. Cardinality({1}) = 1
      BY FS_Singleton
    <3>4. 1 % 2 = 1
      OBVIOUS
    <3>5. QED
      BY <3>2, <3>3, <3>4
  <2> HIDE DEF A
  <2>3. \A x \in p : 1 + x = x + 1
    BY DEF Bytes
  <2>4. \A e : e \in Standard!Product({1}, p) <=> \E x \in p : e = x + 1
    BY <2>1, <2>2, <2>3
  <2>5. QED
    BY <2>4
<1>2. QED
  BY <1>1, Reduces DEF Standard!Times

LEMMA Triples ==
  ASSUME NEW p \in Bytes
  PROVE  Standard!Times({1, 0}, p) = BitXor(rj_xtime(p), p)
<1>1. Standard!Product({1, 0}, p) = BitXor({e + 1 : e \in p}, p)
  <2> DEFINE A(e) == {j \in {1, 0} : e - j \in p}
  <2>1. \A e : e \in Standard!Product({1, 0}, p) <=> /\ \E j \in {1, 0}, x \in p : e = j + x
                                                    /\ Cardinality(A(e)) % 2 = 1
    BY SameCardinality DEF Standard!Product
  <2>2. \A x \in p : x \in Int
    BY DEF Bytes
  <2>3. ASSUME NEW e \in Int
        PROVE  Cardinality(A(e)) % 2 = 1 <=> ~(e - 1 \in p <=> e \in p)
    <3>1. e - 0 = e
      OBVIOUS
    <3>2. Cardinality({1}) = 1 /\ Cardinality({0}) = 1 /\ Cardinality({}) = 0 /\ Cardinality({1, 0}) = 2
      <4>1. Cardinality({1}) = 1 /\ Cardinality({0}) = 1 /\ Cardinality({}) = 0 /\ IsFiniteSet({0})
        BY FS_Singleton, FS_EmptySet
      <4>2. Cardinality({0} \cup {1}) = 1 + 1
        BY <4>1, FS_AddElement
      <4>3. {0} \cup {1} = {1, 0} /\ 1 + 1 = 2
        OBVIOUS
      <4>4. QED
        BY <4>1, <4>2, <4>3
    <3>3. 0 % 2 = 0 /\ 1 % 2 = 1 /\ 2 % 2 = 0 /\ 0 # 1
      OBVIOUS
    <3>4. CASE e - 1 \in p /\ e \in p
      <4>1. A(e) = {1, 0}
        BY <3>1, <3>4
      <4> HIDE DEF A
      <4>2. QED
        BY <3>2, <3>3, <3>4, <4>1
    <3>5. CASE e - 1 \in p /\ e \notin p
      <4>1. A(e) = {1}
        BY <3>1, <3>5
      <4> HIDE DEF A
      <4>2. QED
        BY <3>2, <3>3, <3>5, <4>1
    <3>6. CASE e - 1 \notin p /\ e \in p
      <4>1. A(e) = {0}
        BY <3>1, <3>6
      <4> HIDE DEF A
      <4>2. QED
        BY <3>2, <3>3, <3>6, <4>1
    <3>7. CASE e - 1 \notin p /\ e \notin p
      <4>1. A(e) = {}
        BY <3>1, <3>7
      <4> HIDE DEF A
      <4>2. QED
        BY <3>2, <3>3, <3>7, <4>1
    <3>8. QED
      BY <3>4, <3>5, <3>6, <3>7
  <2> HIDE DEF A
  <2>4. \A e \in Int : (\E j \in {1, 0}, x \in p : e = j + x) <=> (e - 1 \in p \/ e \in p)
    <3>1. \A e \in Int, x \in Int : (e = 1 + x <=> x = e - 1) /\ (e = 0 + x <=> x = e)
      OBVIOUS
    <3>2. QED
      BY <2>2, <3>1
  <2>5. \A e : (\E j \in {1, 0}, x \in p : e = j + x) => e \in Int
    BY <2>2
  <2>6. \A e : e \in {x + 1 : x \in p} <=> e \in Int /\ e - 1 \in p
    <3>1. \A x \in Int : x + 1 \in Int /\ (x + 1) - 1 = x /\ x = (x - 1) + 1
      OBVIOUS
    <3>2. QED
      BY <2>2, <3>1
  <2>7. \A e : e \in Standard!Product({1, 0}, p) <=> e \in Int /\ ~(e - 1 \in p <=> e \in p)
    BY <2>1, <2>3, <2>4, <2>5
  <2>8. \A e : e \in BitXor({x + 1 : x \in p}, p) <=> e \in Int /\ ~(e - 1 \in p <=> e \in p)
    BY <2>2, <2>6 DEF BitXor
  <2>9. QED
    BY <2>7, <2>8
<1> DEFINE q == {e + 1 : e \in p}
<1>2. q \in SUBSET Nat /\ p \in SUBSET Nat /\ IsFiniteSet(p) /\ IsFiniteSet(q)
  <2>1. p \subseteq 0 .. 8 /\ q \subseteq 0 .. 8 /\ 0 .. 8 \subseteq Nat
    BY DEF Bytes
  <2> HIDE DEF q
  <2>2. 0 \in Int /\ 8 \in Int
    OBVIOUS
  <2>3. IsFiniteSet(0 .. 8)
    BY <2>2, FS_Interval
  <2>4. QED
    BY <2>1, <2>3, FS_Subset
<1>3. Divisor(8, Low)
  BY DEF Divisor, Low
<1>4. Residue(BitXor(q, p), 8, Low) = BitXor(Residue(q, 8, Low), Residue(p, 8, Low))
  <2> HIDE DEF q
  <2>1. QED
    BY <1>2, <1>3, ResidueLinear
<1>5. Residue(q, 8, Low) = rj_xtime(p) /\ Residue(p, 8, Low) = p
  BY Reduces, SameResidue DEF Low
<1>6. QED
  BY <1>1, <1>4, <1>5, SameResidue DEF Standard!Times, Low

(* The round constants, ... *)
LEMMA StandardRcon ==
  \A n \in 1 .. 7 : Standard!PowerOfX(n - 1, 8, {4, 3, 1, 0}) = {n - 1}
<1>1. Divisor(8, Low)
  BY DEF Divisor, Low
<1>2. \A n \in 0 .. 7 : PowerOfX(n, 8, Low) = {n}
  BY <1>1, LowPowers
<1>3. QED
  BY <1>2, SamePower DEF Low

LEMMA SameXor == \A a, b : Standard!BitXor(a, b) = BitXor(a, b)
BY DEF Standard!BitXor, BitXor

(* Where the bytes of a column and of a row are. *)
LEMMA StandardPositions ==
  \A n \in 1 .. 16 :
    LET r == Standard!Row(n)
        c == Standard!Column(n)
    IN /\ r \in 0 .. 3 /\ c \in 0 .. 3 /\ n = 1 + r + 4 * c
       /\ 1 + r + (4 * (c % 4)) = n
       /\ 1 + ((r + 1) % 4) + (4 * (c % 4)) = Below(n)
       /\ 1 + ((r + 2) % 4) + (4 * (c % 4)) = Below(Below(n))
       /\ 1 + ((r + 3) % 4) + (4 * (c % 4)) = Below(Below(Below(n)))
       /\ 1 + r + (4 * ((c + r) % 4)) = ShiftedFrom[n] + 1
BY DEF Standard!Row, Standard!Column, Below, ShiftedFrom

(* ... the columns, the rows and the S-box. *)
LEMMA StandardMixes ==
  ASSUME NEW b \in Blocks
  PROVE  Standard!MixColumns(b) = aes_mixColumns(b)
<1>1. ASSUME NEW w \in Bytes, NEW x \in Bytes, NEW y \in Bytes, NEW z \in Bytes
      PROVE  Standard!BitXor(Standard!BitXor(Standard!Times({1}, w), Standard!Times({1, 0}, x)),
                             Standard!BitXor(y, z))
               = Mixed(w, x, y, z)
  <2>1. rj_xtime(BitXor(w, x)) = BitXor(rj_xtime(w), rj_xtime(x))
    BY XtimeLinear
  <2>2. \A v, u : BitXor(BitXor(u, BitXor(v, x)), BitXor(y, z))
                    = BitXor(BitXor(w, BitXor(BitXor(w, x), BitXor(y, z))), BitXor(u, v))
    BY DEF BitXor
  <2>3. Standard!Times({1}, w) = rj_xtime(w) /\ Standard!Times({1, 0}, x) = BitXor(rj_xtime(x), x)
    BY Doubles, Triples
  <2>4. QED
    BY <2>1, <2>2, <2>3, SameXor DEF Mixed, Sum4
<1>2. \A n \in 1 .. 16 : b[n] \in Bytes
  BY DEF Blocks
<1> DEFINE F(n) == Mixed(b[n], b[Below(n)], b[Below(Below(n))], b[Below(Below(Below(n)))])
<1>3. Standard!MixColumns(b) = [n \in 1 .. 16 |-> F(n)]
  <2> DEFINE G(n) == Standard!BitXor(
                       Standard!BitXor(
                         Standard!Times({1}, Standard!At(b, Standard!Row(n), Standard!Column(n))),
                         Standard!Times({1, 0}, Standard!At(b, (Standard!Row(n) + 1) % 4, Standard!Column(n)))),
                       Standard!BitXor(Standard!At(b, (Standard!Row(n) + 2) % 4, Standard!Column(n)),
                                       Standard!At(b, (Standard!Row(n) + 3) % 4, Standard!Column(n))))
  <2>1. Standard!MixColumns(b) = [n \in 1 .. 16 |-> G(n)]
    BY DEF Standard!MixColumns
  <2>2. ASSUME NEW n \in 1 .. 16 PROVE G(n) = F(n)
    <3>1. /\ Standard!At(b, Standard!Row(n), Standard!Column(n)) = b[n]
          /\ Standard!At(b, (Standard!Row(n) + 1) % 4, Standard!Column(n)) = b[Below(n)]
          /\ Standard!At(b, (Standard!Row(n) + 2) % 4, Standard!Column(n)) = b[Below(Below(n))]
          /\ Standard!At(b, (Standard!Row(n) + 3) % 4, Standard!Column(n)) = b[Below(Below(Below(n)))]
      BY StandardPositions DEF Standard!At
    <3>2. Below(n) \in 1 .. 16 /\ Below(Below(n)) \in 1 .. 16 /\ Below(Below(Below(n))) \in 1 .. 16
      BY Around
    <3> DEFINE w == b[n]
               x == b[Below(n)]
               y == b[Below(Below(n))]
               z == b[Below(Below(Below(n)))]
    <3>3. w \in Bytes /\ x \in Bytes /\ y \in Bytes /\ z \in Bytes
      BY <1>2, <3>2
    <3>4. G(n) = Standard!BitXor(Standard!BitXor(Standard!Times({1}, w), Standard!Times({1, 0}, x)),
                                 Standard!BitXor(y, z))
      BY <3>1
    <3>5. F(n) = Mixed(w, x, y, z)
      OBVIOUS
    <3> HIDE DEF w, x, y, z, G, F
    <3>6. QED
      BY <1>1, <3>3, <3>4, <3>5
  <2> HIDE DEF G
  <2>3. QED
    BY <2>1, <2>2
<1>4. aes_mixColumns(b) \in Blocks /\ \A n \in 1 .. 16 : aes_mixColumns(b)[n] = F(n)
  BY MixColumnsIs
<1> HIDE DEF F
<1>5. aes_mixColumns(b) = [n \in 1 .. 16 |-> F(n)]
  BY <1>4 DEF Blocks
<1>6. QED
  BY <1>3, <1>5

LEMMA StandardShifts ==
  ASSUME NEW b \in Blocks
  PROVE  Standard!ShiftRows(b) = aes_shiftRows(b)
<1>1. aes_shiftRows(b) = [n \in 1 .. 16 |-> b[ShiftedFrom[n] + 1]]
  BY ShiftRowsIs
<1>2. Standard!ShiftRows(b)
        = [n \in 1 .. 16 |-> Standard!At(b, Standard!Row(n), Standard!Column(n) + Standard!Row(n))]
  BY DEF Standard!ShiftRows
<1>3. \A n \in 1 .. 16 : Standard!At(b, Standard!Row(n), Standard!Column(n) + Standard!Row(n))
                           = b[ShiftedFrom[n] + 1]
  BY StandardPositions DEF Standard!At
<1>4. QED
  BY <1>1, <1>2, <1>3

LEMMA StandardSubstitutes ==
  ASSUME SboxIsFips197, NEW b \in Blocks
  PROVE  Standard!SubBytes(b) = aes_subBytes(b)
<1>1. aes_subBytes(b) = [n \in 1 .. 16 |-> rj_sbox(b[n])] /\ \A n \in 1 .. 16 : b[n] \in Bytes
  BY SubBytesIs DEF Blocks
<1>2. QED
  BY <1>1 DEF Standard!SubBytes, SboxIsFips197
-----------------------------------------------------------------------------
(* What an expansion makes of each byte. *)
LEMMA ChainsAre ==
  ASSUME NEW l \in CipherKeys, NEW m \in {4, 20}
  PROVE  /\ ChainWords(l, m, m + 4, m + 8) \in CipherKeys
         /\ \A n \in 1 .. 32 :
              ChainWords(l, m, m + 4, m + 8)[n] =
                IF n \in m + 1 .. m + 12 THEN BitXor(l[n], ChainWords(l, m, m + 4, m + 8)[n - 4])
                ELSE l[n]
<1> DEFINE a == ChainWord(l, m)
           b == ChainWord(a, m + 4)
           c == ChainWord(b, m + 8)
<1>1. m \in 4 .. 28 /\ m + 4 \in 4 .. 28 /\ m + 8 \in 4 .. 28
  OBVIOUS
<1>2. a \in CipherKeys /\ \A n \in 1 .. 32 :
        a[n] = IF n \in m + 1 .. m + 4 THEN BitXor(l[n], l[n - 4]) ELSE l[n]
  BY <1>1, ChainWordIs
<1> HIDE DEF a
<1>3. b \in CipherKeys /\ \A n \in 1 .. 32 :
        b[n] = IF n \in (m + 4) + 1 .. (m + 4) + 4 THEN BitXor(a[n], a[n - 4]) ELSE a[n]
  BY <1>1, <1>2, ChainWordIs
<1> HIDE DEF b
<1>4. c \in CipherKeys /\ \A n \in 1 .. 32 :
        c[n] = IF n \in (m + 8) + 1 .. (m + 8) + 4 THEN BitXor(b[n], b[n - 4]) ELSE b[n]
  BY <1>1, <1>3, ChainWordIs
<1>5. ChainWords(l, m, m + 4, m + 8) = c
  BY DEF ChainWords, a, b
<1> HIDE DEF c
<1>6. ASSUME NEW n \in 1 .. 32
      PROVE  c[n] = IF n \in m + 1 .. m + 12 THEN BitXor(l[n], c[n - 4]) ELSE l[n]
  <2>1. CASE n \in m + 1 .. m + 4
    <3>1. /\ n - 4 \in 1 .. 32 /\ n - 4 \notin m + 1 .. m + 4
          /\ n \notin (m + 4) + 1 .. (m + 4) + 4 /\ n - 4 \notin (m + 4) + 1 .. (m + 4) + 4
          /\ n \notin (m + 8) + 1 .. (m + 8) + 4 /\ n - 4 \notin (m + 8) + 1 .. (m + 8) + 4
          /\ n \in m + 1 .. m + 12
      BY <2>1
    <3>2. QED
      BY <1>2, <1>3, <1>4, <2>1, <3>1
  <2>2. CASE n \in (m + 4) + 1 .. (m + 4) + 4
    <3>1. /\ n - 4 \in 1 .. 32 /\ n \notin m + 1 .. m + 4
          /\ n - 4 \notin (m + 4) + 1 .. (m + 4) + 4
          /\ n \notin (m + 8) + 1 .. (m + 8) + 4 /\ n - 4 \notin (m + 8) + 1 .. (m + 8) + 4
          /\ n \in m + 1 .. m + 12
      BY <2>2
    <3>2. QED
      BY <1>2, <1>3, <1>4, <2>2, <3>1
  <2>3. CASE n \in (m + 8) + 1 .. (m + 8) + 4
    <3>1. /\ n - 4 \in 1 .. 32 /\ n \notin m + 1 .. m + 4
          /\ n \notin (m + 4) + 1 .. (m + 4) + 4
          /\ n - 4 \notin (m + 8) + 1 .. (m + 8) + 4
          /\ n \in m + 1 .. m + 12
      BY <2>3
    <3>2. QED
      BY <1>2, <1>3, <1>4, <2>3, <3>1
  <2>4. CASE n \notin m + 1 .. m + 12
    <3>1. /\ n \notin m + 1 .. m + 4 /\ n \notin (m + 4) + 1 .. (m + 4) + 4
          /\ n \notin (m + 8) + 1 .. (m + 8) + 4
      BY <2>4
    <3>2. QED
      BY <1>2, <1>3, <1>4, <2>4, <3>1
  <2>5. \/ n \in m + 1 .. m + 4 \/ n \in (m + 4) + 1 .. (m + 4) + 4
        \/ n \in (m + 8) + 1 .. (m + 8) + 4 \/ n \notin m + 1 .. m + 12
    OBVIOUS
  <2>6. QED
    BY <2>1, <2>2, <2>3, <2>4, <2>5
<1>7. QED
  BY <1>4, <1>5, <1>6

(* Each byte of the next key, from those of the key and from those four before it. *)
LEMMA ExpandIs ==
  ASSUME NEW k \in CipherKeys, NEW rc \in Bytes
  PROVE  LET e == aes_expandEncKey(k, rc)
         IN /\ e[1] = BitXor(k[1], BitXor(rj_sbox(k[30]), rc))
            /\ e[2] = BitXor(k[2], rj_sbox(k[31]))
            /\ e[3] = BitXor(k[3], rj_sbox(k[32]))
            /\ e[4] = BitXor(k[4], rj_sbox(k[29]))
            /\ \A n \in 17 .. 20 : e[n] = BitXor(k[n], rj_sbox(e[n - 4]))
            /\ \A n \in (5 .. 16) \cup (21 .. 32) : e[n] = BitXor(k[n], e[n - 4])
<1> DEFINE a == SubstituteFirst(k, rc)
           b == ChainWords(a, 4, 8, 12)
           c == SubstituteFifth(b)
           d == ChainWords(c, 20, 24, 28)
<1>1. /\ a \in CipherKeys
      /\ a[1] = BitXor(k[1], BitXor(rj_sbox(k[30]), rc)) /\ a[2] = BitXor(k[2], rj_sbox(k[31]))
      /\ a[3] = BitXor(k[3], rj_sbox(k[32])) /\ a[4] = BitXor(k[4], rj_sbox(k[29]))
      /\ \A n \in 5 .. 32 : a[n] = k[n]
  BY FirstIs
<1> HIDE DEF a
<1>2. \A l \in CipherKeys, m \in {4, 20} :
        /\ ChainWords(l, m, m + 4, m + 8) \in CipherKeys
        /\ \A n \in 1 .. 32 :
              ChainWords(l, m, m + 4, m + 8)[n] =
                IF n \in m + 1 .. m + 12 THEN BitXor(l[n], ChainWords(l, m, m + 4, m + 8)[n - 4])
                ELSE l[n]
  BY ChainsAre
<1>3. 4 + 4 = 8 /\ 4 + 8 = 12 /\ 20 + 4 = 24 /\ 20 + 8 = 28
      /\ 4 + 1 = 5 /\ 4 + 12 = 16 /\ 20 + 1 = 21 /\ 20 + 12 = 32
  OBVIOUS
<1>4. b \in CipherKeys /\ \A n \in 1 .. 32 : b[n] = IF n \in 5 .. 16 THEN BitXor(a[n], b[n - 4]) ELSE a[n]
  <2> DEFINE m == 4
  <2>1. m \in {4, 20} /\ m + 4 = 8 /\ m + 8 = 12 /\ m + 1 = 5 /\ m + 12 = 16
    OBVIOUS
  <2>2. ChainWords(a, m, 8, 12) = b
    OBVIOUS
  <2> HIDE DEF m, b
  <2>3. QED
    BY <1>1, <1>2, <2>1, <2>2
<1> HIDE DEF b
<1>5. c \in CipherKeys /\ \A n \in 1 .. 32 :
        c[n] = IF n \in 17 .. 20 THEN BitXor(b[n], rj_sbox(b[n - 4])) ELSE b[n]
  BY <1>4, FifthIs
<1> HIDE DEF c
<1>6. d \in CipherKeys /\ \A n \in 1 .. 32 : d[n] = IF n \in 21 .. 32 THEN BitXor(c[n], d[n - 4]) ELSE c[n]
  <2> DEFINE m == 20
  <2>1. m \in {4, 20} /\ m + 4 = 24 /\ m + 8 = 28 /\ m + 1 = 21 /\ m + 12 = 32
    OBVIOUS
  <2>2. ChainWords(c, m, 24, 28) = d
    OBVIOUS
  <2> HIDE DEF m, d
  <2>3. QED
    BY <1>2, <1>5, <2>1, <2>2
<1>7. aes_expandEncKey(k, rc) = d
  BY DEF aes_expandEncKey, a, b, c
<1> HIDE DEF d
<1>8. \A n \in 1 .. 4 : d[n] = a[n]
  BY <1>4, <1>5, <1>6
<1>9. \A n \in 5 .. 16 : d[n] = BitXor(k[n], d[n - 4])
  <2>1. \A n \in 5 .. 16 : n - 4 \in 1 .. 32 /\ n - 4 \notin 17 .. 20 /\ n - 4 \notin 21 .. 32
                           /\ n \notin 17 .. 20 /\ n \notin 21 .. 32 /\ n \in 1 .. 32 /\ n \in 5 .. 32
    OBVIOUS
  <2>2. QED
    BY <1>1, <1>4, <1>5, <1>6, <2>1
<1>10. \A n \in 17 .. 20 : d[n] = BitXor(k[n], rj_sbox(d[n - 4]))
  <2>1. \A n \in 17 .. 20 : n - 4 \in 1 .. 32 /\ n - 4 \notin 17 .. 20 /\ n - 4 \notin 21 .. 32
                           /\ n \notin 5 .. 16 /\ n \notin 21 .. 32 /\ n \in 1 .. 32 /\ n \in 5 .. 32
    OBVIOUS
  <2>2. QED
    BY <1>1, <1>4, <1>5, <1>6, <2>1
<1>11. \A n \in 21 .. 32 : d[n] = BitXor(k[n], d[n - 4])
  <2>1. \A n \in 21 .. 32 : n \notin 5 .. 16 /\ n \notin 17 .. 20 /\ n \in 1 .. 32 /\ n \in 5 .. 32
    OBVIOUS
  <2>2. QED
    BY <1>1, <1>4, <1>5, <1>6, <2>1
<1>12. \A n \in (5 .. 16) \cup (21 .. 32) : d[n] = BitXor(k[n], d[n - 4])
  BY <1>9, <1>11
<1>13. 1 \in 1 .. 4 /\ 2 \in 1 .. 4 /\ 3 \in 1 .. 4 /\ 4 \in 1 .. 4
  OBVIOUS
<1>14. d[1] = a[1] /\ d[2] = a[2] /\ d[3] = a[3] /\ d[4] = a[4]
  BY <1>8, <1>13
<1>15. QED
  BY <1>1, <1>7, <1>10, <1>12, <1>14
-----------------------------------------------------------------------------
(* The words of the standard and the keys of the code. *)

(* The words of the schedule of k, counted from 0: eight to each of its keys. *)
KeyWord(k, m) == [b \in 1 .. 4 |-> Schedule(k)[m \div 8][4 * (m % 8) + b]]

(* Word n of the standard, from the ones before it, is the one the code computes. *)
LEMMA NextWordIs ==
  ASSUME SboxIsFips197, NEW k \in CipherKeys, NEW n \in 8 .. 59,
         \A m \in 0 .. n - 1 : words[m + 1] = KeyWord(k, m)
  PROVE  Standard!NextWord(n) = KeyWord(k, n)
<1> DEFINE q == n \div 8
           r == n % 8
           old == Schedule(k)[q - 1]
           new == Schedule(k)[q]
           S(x) == Standard!SubByte(x)
           changed == CASE n % 8 = 0 -> Standard!AddWords(Standard!SubWord(Standard!RotWord(words[n])),
                                                          Standard!Rcon(n \div 8))
                        [] n % 8 = 4 -> Standard!SubWord(words[n])
                        [] OTHER -> words[n]
<1>1. /\ q \in 1 .. 7 /\ r \in 0 .. 7 /\ q - 1 \in 0 .. 6 /\ (q - 1) + 1 = q
      /\ (n - 8) \div 8 = q - 1 /\ (n - 8) % 8 = r
      /\ r = 0 => (n - 1) \div 8 = q - 1 /\ (n - 1) % 8 = 7
      /\ r # 0 => (n - 1) \div 8 = q /\ (n - 1) % 8 = r - 1
      /\ n - 8 \in 0 .. n - 1 /\ (n - 8) + 1 = n - 7 /\ n - 1 \in 0 .. n - 1 /\ (n - 1) + 1 = n
  OBVIOUS
<1>2. words[n - 7] = KeyWord(k, n - 8) /\ words[n] = KeyWord(k, n - 1)
  <2>1. \A m \in 0 .. n - 1 : words[m + 1] = KeyWord(k, m)
    OBVIOUS
  <2>2. words[(n - 8) + 1] = KeyWord(k, n - 8) /\ words[(n - 1) + 1] = KeyWord(k, n - 1)
    BY <1>1, <2>1
  <2>3. QED
    BY <1>1, <2>2
<1>3. Standard!NextWord(n) = Standard!AddWords(words[n - 7], changed)
  BY DEF Standard!NextWord
<1> HIDE DEF changed
<1>4. Standard!NextWord(n) = [b \in 1 .. 4 |-> BitXor(words[n - 7][b], changed[b])]
  BY <1>3, SameXor DEF Standard!AddWords
<1>5. \A b \in 1 .. 4 : words[n - 7][b] = old[4 * r + b]
  BY <1>1, <1>2 DEF KeyWord
<1>6. \A b \in 1 .. 4 : words[n][b] = IF r = 0 THEN old[28 + b] ELSE new[4 * (r - 1) + b]
  <2>1. CASE r = 0
    <3>1. 4 * 7 = 28
      OBVIOUS
    <3>2. QED
      BY <1>1, <1>2, <2>1, <3>1 DEF KeyWord
  <2>2. CASE r # 0
    BY <1>1, <1>2, <2>2 DEF KeyWord
  <2>3. QED
    BY <2>1, <2>2
<1>7. /\ old \in CipherKeys /\ new \in CipherKeys /\ {q - 1} \in Bytes
      /\ new = aes_expandEncKey(old, {q - 1})
  <2>1. q - 1 \in 0 .. 7 /\ q \in 0 .. 7
    BY <1>1
  <2>2. {q - 1} \in Bytes
    BY <2>1, RoundConstants
  <2> HIDE DEF q
  <2> DEFINE p == q - 1
  <2>3. p \in 0 .. 6 /\ p \in 0 .. 7 /\ p + 1 = q
    BY <1>1, <2>1
  <2>4. old = Schedule(k)[p]
    OBVIOUS
  <2> HIDE DEF p, old
  <2>5. aes_expandEncKey(old, {p}) = Schedule(k)[p + 1] /\ old \in CipherKeys /\ new \in CipherKeys
    BY <2>1, <2>3, <2>4, ScheduleFacts
  <2>6. QED
    BY <2>2, <2>3, <2>5 DEF p
<1> HIDE DEF q, r, old, new
<1>8. /\ new[1] = BitXor(old[1], BitXor(rj_sbox(old[30]), {q - 1}))
      /\ new[2] = BitXor(old[2], rj_sbox(old[31]))
      /\ new[3] = BitXor(old[3], rj_sbox(old[32]))
      /\ new[4] = BitXor(old[4], rj_sbox(old[29]))
      /\ \A j \in 17 .. 20 : new[j] = BitXor(old[j], rj_sbox(new[j - 4]))
      /\ \A j \in (5 .. 16) \cup (21 .. 32) : new[j] = BitXor(old[j], new[j - 4])
  BY <1>7, ExpandIs
<1>9. \A x \in Bytes : S(x) = rj_sbox(x)
  BY DEF SboxIsFips197
<1>10. \A j \in 1 .. 32 : old[j] \in Bytes /\ new[j] \in Bytes
  BY <1>7 DEF CipherKeys
<1>11. KeyWord(k, n) = [b \in 1 .. 4 |-> new[4 * r + b]]
  BY DEF KeyWord, q, r, new
<1>12. \A b \in 1 .. 4 : BitXor(old[4 * r + b], changed[b]) = new[4 * r + b]
  <2>1. CASE r = 0
    <3> DEFINE last == words[n]
               rot == Standard!RotWord(last)
               sub == Standard!SubWord(rot)
    <3>1. last[1] = old[29] /\ last[2] = old[30] /\ last[3] = old[31] /\ last[4] = old[32]
      BY <1>6, <2>1
    <3>2. rot[1] = old[30] /\ rot[2] = old[31] /\ rot[3] = old[32] /\ rot[4] = old[29]
      BY <3>1 DEF Standard!RotWord
    <3> HIDE DEF last, rot
    <3>3. /\ sub[1] = rj_sbox(old[30]) /\ sub[2] = rj_sbox(old[31])
          /\ sub[3] = rj_sbox(old[32]) /\ sub[4] = rj_sbox(old[29])
      <4>1. sub = [b \in 1 .. 4 |-> S(rot[b])]
        BY DEF Standard!SubWord
      <4>2. sub[1] = S(rot[1]) /\ sub[2] = S(rot[2]) /\ sub[3] = S(rot[3]) /\ sub[4] = S(rot[4])
        BY <4>1
      <4> HIDE DEF sub, S
      <4>3. QED
        BY <1>9, <1>10, <3>2, <4>2
    <3> HIDE DEF sub
    <3> DEFINE rc == Standard!Rcon(q)
    <3>4. rc = <<{q - 1}, {}, {}, {}>>
      BY <1>1, StandardRcon DEF Standard!Rcon
    <3> HIDE DEF rc
    <3>5. changed = Standard!AddWords(sub, rc)
      BY <2>1 DEF changed, sub, rot, last, rc, q, r
    <3>6. changed = [b \in 1 .. 4 |-> BitXor(sub[b], rc[b])]
      BY <3>5, SameXor DEF Standard!AddWords
    <3>7. \A x : BitXor(x, {}) = x
      BY DEF BitXor
    <3>8. /\ changed[1] = BitXor(rj_sbox(old[30]), {q - 1})
          /\ changed[2] = rj_sbox(old[31])
          /\ changed[3] = rj_sbox(old[32])
          /\ changed[4] = rj_sbox(old[29])
      <4>1. rc[1] = {q - 1} /\ rc[2] = {} /\ rc[3] = {} /\ rc[4] = {}
        BY <3>4
      <4>2. /\ changed[1] = BitXor(sub[1], rc[1]) /\ changed[2] = BitXor(sub[2], rc[2])
            /\ changed[3] = BitXor(sub[3], rc[3]) /\ changed[4] = BitXor(sub[4], rc[4])
        BY <3>6
      <4>3. QED
        BY <3>3, <3>7, <4>1, <4>2
    <3>9. \A b \in 1 .. 4 : 4 * r + b = b
      BY <2>1
    <3>10. /\ BitXor(old[1], changed[1]) = new[1] /\ BitXor(old[2], changed[2]) = new[2]
           /\ BitXor(old[3], changed[3]) = new[3] /\ BitXor(old[4], changed[4]) = new[4]
      BY <1>8, <3>8
    <3>11. \A b \in 1 .. 4 : b = 1 \/ b = 2 \/ b = 3 \/ b = 4
      OBVIOUS
    <3>12. QED
      BY <3>9, <3>10, <3>11
  <2>2. CASE r = 4
    <3>1. changed = Standard!SubWord(words[n])
      BY <2>2 DEF changed, r
    <3>2. \A b \in 1 .. 4 : /\ words[n][b] = new[12 + b] /\ 12 + b \in 1 .. 32
                            /\ 4 * r + b \in 17 .. 20 /\ (4 * r + b) - 4 = 12 + b
      <4>1. r # 0 /\ 4 * (r - 1) = 12
        BY <2>2
      <4>2. QED
        BY <1>6, <2>2, <4>1
    <3>3. changed = [b \in 1 .. 4 |-> S(words[n][b])]
      BY <3>1 DEF Standard!SubWord
    <3> HIDE DEF S
    <3>4. \A b \in 1 .. 4 : changed[b] = rj_sbox(new[12 + b])
      BY <1>9, <1>10, <3>2, <3>3
    <3>5. QED
      BY <1>8, <3>2, <3>4
  <2>3. CASE r # 0 /\ r # 4
    <3>1. changed = words[n]
      BY <2>3 DEF changed, r
    <3>2. \A b \in 1 .. 4 : /\ 4 * r + b \in (5 .. 16) \cup (21 .. 32)
                            /\ (4 * r + b) - 4 = 4 * (r - 1) + b
      BY <1>1, <2>3
    <3>3. \A b \in 1 .. 4 : changed[b] = new[(4 * r + b) - 4]
      BY <1>6, <2>3, <3>1, <3>2
    <3>4. QED
      BY <1>8, <3>2, <3>3
  <2>4. QED
    BY <2>1, <2>2, <2>3
<1>13. QED
  BY <1>4, <1>5, <1>11, <1>12

(* The first eight are the key. *)
LEMMA FirstWords ==
  ASSUME NEW k \in CipherKeys, NEW n \in 1 .. 8
  PROVE  SubSeq(k, (4 * n) - 3, 4 * n) = KeyWord(k, n - 1)
<1>1. k \in Seq(Bytes) /\ Len(k) = 32
  <2>1. 32 \in Nat
    OBVIOUS
  <2>2. QED
    BY <2>1, ArrayIs DEF CipherKeys
<1>2. (n - 1) \div 8 = 0 /\ 4 * ((n - 1) % 8) = (4 * n) - 4
  OBVIOUS
<1>3. Schedule(k)[0] = k
  BY ScheduleFacts
<1>4. KeyWord(k, n - 1) = [b \in 1 .. 4 |-> k[(4 * n) - 4 + b]]
  BY <1>2, <1>3 DEF KeyWord
<1>5. SubSeq(k, (4 * n) - 3, 4 * n) = [b \in 1 .. 4 |-> k[(4 * n) - 4 + b]]
  <2> DEFINE from == (4 * n) - 3
             to == 4 * n
  <2>1. /\ from \in 1 .. 32 /\ to \in 1 .. 32 /\ (to - from) + 1 = 4 /\ from <= to
        /\ \A b \in 1 .. 4 : (from + b) - 1 = (4 * n) - 4 + b
    OBVIOUS
  <2> HIDE DEF from, to
  <2>2. SubSeq(k, from, to) = [b \in 1 .. (to - from) + 1 |-> k[(from + b) - 1]]
    BY <1>1, <2>1
  <2>3. QED
    BY <2>1, <2>2 DEF from, to
<1>6. QED
  BY <1>4, <1>5

(* With all the words made, the key of a round is the one the code adds. *)
LEMMA StandardAdds ==
  ASSUME NEW k \in CipherKeys, NEW b \in Blocks, NEW m \in 0 .. 14,
         \A j \in 0 .. 59 : words[j + 1] = KeyWord(k, j)
  PROVE  Standard!AddRoundKey(b, m) = AddKey(k, b, m)
<1> DEFINE half == Schedule(k)[m \div 2]
           from == 16 * (m % 2)
<1>1. m \div 2 \in 0 .. 7 /\ from \in {0, 16}
  OBVIOUS
<1>2. half \in CipherKeys
  BY <1>1, ScheduleFacts
<1>3. AddKey(k, b, m) = [n \in 1 .. 16 |-> BitXor(b[n], half[from + n])]
  BY <1>1, <1>2, AddRoundKeyIs DEF AddKey
<1>4. ASSUME NEW n \in 1 .. 16
      PROVE  words[(4 * m) + 1 + Standard!Column(n)][1 + Standard!Row(n)] = half[from + n]
  <2> DEFINE c == Standard!Column(n)
             l == Standard!Row(n)
             j == (4 * m) + c
  <2>1. c \in 0 .. 3 /\ l \in 0 .. 3 /\ n = 1 + l + 4 * c
    BY StandardPositions
  <2> HIDE DEF c, l
  <2>2. /\ j \in 0 .. 59 /\ (4 * m) + 1 + c = j + 1 /\ 1 + l \in 1 .. 4
        /\ j \div 8 = m \div 2 /\ 4 * (j % 8) + (1 + l) = from + n
    BY <2>1
  <2>3. words[j + 1] = KeyWord(k, j)
    BY <2>2
  <2>4. KeyWord(k, j)[1 + l] = Schedule(k)[j \div 8][4 * (j % 8) + (1 + l)]
    BY <2>2 DEF KeyWord
  <2> HIDE DEF j, half, from
  <2>5. QED
    BY <2>2, <2>3, <2>4 DEF c, l, half
<1> HIDE DEF half, from
<1>5. QED
  BY <1>3, <1>4, SameXor DEF Standard!AddRoundKey
-----------------------------------------------------------------------------
(* What the standard has computed: the words of the schedule, the blocks that are *)
(* encrypted, and the rounds of the one under way.                               *)
WordsInv ==
  /\ words \in Seq([1 .. 4 -> Bytes]) /\ Len(words) \in 8 .. 60
  /\ \A m \in 0 .. Len(words) - 1 : words[m + 1] = KeyWord(key, m)

AnswerInv ==
  /\ answer \in Seq(Blocks) /\ Len(answer) <= Count(original)
  /\ \A j \in 0 .. Len(answer) - 1 : Encrypts(key, BlockOf(original, j), answer[j + 1])
  /\ calls # <<>> => Len(answer) = Count(original)

RoundInv ==
  /\ round \in 0 .. 14
  /\ Len(words) < 60 => round = 0 /\ answer = <<>>
  /\ round > 0 => /\ Len(answer) < Count(original)
                  /\ \E p : /\ Path(key, p, 0, round - 1)
                            /\ p[0] = AddKey(key, BlockOf(original, Len(answer)), 0)
                            /\ p[round - 1] = state

StandardInv == WholeBlocks(original) => WordsInv /\ AnswerInv /\ RoundInv

LEMMA KeyWordType ==
  ASSUME NEW k \in CipherKeys, NEW m \in 0 .. 59
  PROVE  KeyWord(k, m) \in [1 .. 4 -> Bytes]
<1>1. m \div 8 \in 0 .. 7 /\ \A b \in 1 .. 4 : 4 * (m % 8) + b \in 1 .. 32
  OBVIOUS
<1>2. Schedule(k)[m \div 8] \in CipherKeys
  BY <1>1, ScheduleFacts
<1>3. QED
  BY <1>1, <1>2 DEF KeyWord, CipherKeys

(* Before a step, nothing is computed but the words that are the key. *)
LEMMA StandardBegins ==
  ASSUME TypeInv, calls = <<>>, Standard!FipsInit, WholeBlocks(original)
  PROVE  WordsInv /\ AnswerInv /\ RoundInv
<1>1. /\ words = [n \in 1 .. 8 |-> SubSeq(key, (4 * n) - 3, 4 * n)]
      /\ round = 0 /\ answer = <<>>
  BY DEF Standard!FipsInit
<1>2. key \in CipherKeys /\ original \in Seq(Bytes)
  BY DEF TypeInv
<1>3. \A n \in 1 .. 8 : words[n] = KeyWord(key, n - 1)
  BY <1>1, <1>2, FirstWords
<1>4. \A n \in 1 .. 8 : words[n] \in [1 .. 4 -> Bytes]
  <2>1. \A n \in 1 .. 8 : n - 1 \in 0 .. 59
    OBVIOUS
  <2>2. QED
    BY <1>2, <1>3, <2>1, KeyWordType
<1>5. words \in Seq([1 .. 4 -> Bytes]) /\ Len(words) = 8
  <2> DEFINE W == [1 .. 4 -> Bytes]
  <2>1. DOMAIN words = 1 .. 8 /\ words = [n \in 1 .. 8 |-> words[n]]
    BY <1>1
  <2>2. \A n \in 1 .. 8 : words[n] \in W
    BY <1>4
  <2> DEFINE c == 8
  <2>3. c \in Nat
    OBVIOUS
  <2>4. words \in [1 .. c -> W]
    BY <2>1, <2>2
  <2> HIDE DEF W, c
  <2>5. words \in Seq(W) /\ Len(words) = c
    BY <2>3, <2>4
  <2>6. QED
    BY <2>5 DEF W, c
<1>6. WordsInv
  <2>1. \A m \in 0 .. 7 : m + 1 \in 1 .. 8 /\ (m + 1) - 1 = m
    OBVIOUS
  <2>2. \A m \in 0 .. 7 : words[m + 1] = KeyWord(key, m)
    BY <1>3, <2>1
  <2>3. 8 - 1 = 7 /\ 8 \in 8 .. 60
    OBVIOUS
  <2>4. QED
    BY <1>5, <2>2, <2>3 DEF WordsInv
<1>7. Count(original) \in Nat
  BY <1>2, Positions
<1>8. Len(answer) = 0 /\ answer \in Seq(Blocks)
  BY <1>1
<1>9. AnswerInv
  BY <1>7, <1>8 DEF AnswerInv
<1>10. RoundInv
  BY <1>1 DEF RoundInv
<1>11. QED
  BY <1>6, <1>9, <1>10

(* The given of the standard is the array in blocks. *)
LEMMA StandardGiven ==
  ASSUME TypeInv, WholeBlocks(original)
  PROVE  /\ Standard!Finished <=> Len(answer) = Count(original)
         /\ \A j \in 0 .. Count(original) - 1 :
              /\ BlockOf(original, j) \in Blocks
              /\ SubSeq(original, BlockSize * ((j + 1) - 1) + 1, BlockSize * (j + 1)) = BlockOf(original, j)
<1>1. original \in Seq(Bytes)
  BY DEF TypeInv
<1>2. Count(original) \in Nat
  BY <1>1, Positions
<1>3. Standard!Finished <=> Len(answer) = Count(original)
  <2> DEFINE c == Count(original)
  <2> DEFINE plain == [b \in 1 .. c |-> SubSeq(original, (BlockSize * (b - 1)) + 1, BlockSize * b)]
  <2>1. Standard!Finished <=> Len(answer) = Len(plain)
    BY DEF Standard!Finished, Count
  <2> HIDE DEF c
  <2>2. Len(plain) = c
    BY <1>2 DEF c
  <2> HIDE DEF plain
  <2>3. QED
    BY <2>1, <2>2 DEF c
<1>4. \A j \in 0 .. Count(original) - 1 : (j + 1) - 1 = j
  BY <1>2
<1>5. \A j \in 0 .. Count(original) - 1 :
        /\ BlockOf(original, j) \in Blocks
        /\ SubSeq(original, BlockSize * j + 1, BlockSize * (j + 1)) = BlockOf(original, j)
  BY <1>1, BlockFacts
<1>6. QED
  BY <1>3, <1>4, <1>5

(* The standard leaves what is given alone. *)
Given == key' = key /\ original' = original /\ calls' = calls

(* One more word. *)
LEMMA KeyExpansionStep ==
  ASSUME SboxIsFips197, TypeInv, WholeBlocks(original), WordsInv, AnswerInv, RoundInv, Given,
         Standard!KeyExpansion
  PROVE  WordsInv' /\ AnswerInv' /\ RoundInv'
<1> DEFINE n == Len(words)
<1>1. /\ n < 60 /\ words' = Append(words, Standard!NextWord(n))
      /\ round' = round /\ answer' = answer
  <2>1. 4 * (14 + 1) = 60
    OBVIOUS
  <2>2. QED
    BY <2>1 DEF Standard!KeyExpansion, Standard!CipherRounds
<1>2. /\ n \in 8 .. 59 /\ words \in Seq([1 .. 4 -> Bytes])
      /\ \A m \in 0 .. n - 1 : words[m + 1] = KeyWord(key, m)
  <2>1. /\ n \in 8 .. 60 /\ words \in Seq([1 .. 4 -> Bytes])
        /\ \A m \in 0 .. n - 1 : words[m + 1] = KeyWord(key, m)
    BY DEF WordsInv
  <2> HIDE DEF n
  <2>2. n \in 8 .. 59
    BY <1>1, <2>1
  <2>3. QED
    BY <2>1, <2>2
<1>3. key \in CipherKeys
  BY DEF TypeInv
<1>4. words' = Append(words, KeyWord(key, n)) /\ KeyWord(key, n) \in [1 .. 4 -> Bytes]
  <2>1. n \in 0 .. 59
    BY <1>2
  <2>2. KeyWord(key, n) \in [1 .. 4 -> Bytes]
    BY <1>3, <2>1, KeyWordType
  <2> HIDE DEF n
  <2>3. Standard!NextWord(n) = KeyWord(key, n)
    BY <1>2, <1>3, NextWordIs
  <2>4. QED
    BY <1>1, <2>2, <2>3
<1>5. WordsInv'
  <2> DEFINE W == [1 .. 4 -> Bytes]
             w == KeyWord(key, n)
  <2>1. words \in Seq(W) /\ w \in W /\ words' = Append(words, w)
    BY <1>2, <1>4
  <2> HIDE DEF W, w
  <2>2. /\ words' \in Seq(W) /\ Len(words') = n + 1 /\ words'[n + 1] = w
        /\ \A m \in 1 .. n : words'[m] = words[m]
    BY <2>1
  <2> HIDE DEF n
  <2>3. n + 1 \in 8 .. 60 /\ (n + 1) - 1 = n /\ \A m \in 0 .. n : m = n \/ (m \in 0 .. n - 1 /\ m + 1 \in 1 .. n)
    BY <1>2
  <2>4. \A m \in 0 .. n : words'[m + 1] = KeyWord(key, m)
    BY <1>2, <2>2, <2>3 DEF w
  <2>5. QED
    BY <2>2, <2>3, <2>4 DEF WordsInv, W, Given
<1>6. AnswerInv'
  BY <1>1 DEF AnswerInv, Given
<1>7. RoundInv'
  BY <1>1 DEF RoundInv
<1>8. QED
  BY <1>5, <1>6, <1>7

(* Where a block is under way, all the words of the schedule are there. *)
LEMMA WordsMade ==
  ASSUME WordsInv, RoundInv, Len(words) = 60 \/ round > 0
  PROVE  Len(words) = 60 /\ \A j \in 0 .. 59 : words[j + 1] = KeyWord(key, j)
<1>1. Len(words) = 60
  <2>1. Len(words) \in 8 .. 60
    BY DEF WordsInv
  <2>2. CASE round > 0
    <3>1. Len(words) < 60 => round = 0
      BY DEF RoundInv
    <3>2. round # 0
      BY <2>2
    <3>3. \A n \in 8 .. 60 : n < 60 \/ n = 60
      OBVIOUS
    <3>4. QED
      BY <2>1, <3>1, <3>2, <3>3, Zenon
  <2>3. QED
    BY <2>2
<1>2. 60 - 1 = 59
  OBVIOUS
<1>3. QED
  BY <1>1, <1>2 DEF WordsInv

(* A block is begun, goes through its rounds, and is done. *)
LEMMA BeginBlockStep ==
  ASSUME TypeInv, WholeBlocks(original), WordsInv, AnswerInv, RoundInv, Given,
         Standard!BeginBlock
  PROVE  WordsInv' /\ AnswerInv' /\ RoundInv'
<1> DEFINE block == BlockOf(original, Len(answer))
<1>1. /\ Len(words) = 60 /\ round = 0 /\ ~Standard!Finished
      /\ round' = 1 /\ words' = words /\ answer' = answer
  <2>1. 4 * (14 + 1) = 60
    OBVIOUS
  <2>2. QED
    BY <2>1 DEF Standard!BeginBlock, Standard!CipherRounds
<1>2. key \in CipherKeys /\ original \in Seq(Bytes)
  BY DEF TypeInv
<1>3. Count(original) \in Nat
  BY <1>2, Positions
<1>4. Len(answer) \in 0 .. Count(original) - 1
  BY <1>1, <1>3, StandardGiven DEF AnswerInv
<1>5. block \in Blocks
  BY <1>4, StandardGiven
<1>6. state' = Standard!AddRoundKey(block, 0)
  <2> DEFINE f == [b \in 1 .. Len(original) \div BlockSize |->
                     SubSeq(original, (BlockSize * (b - 1)) + 1, BlockSize * b)]
             l == Len(answer)
  <2>1. state' = Standard!AddRoundKey(f[l + 1], 0)
    BY DEF Standard!BeginBlock
  <2>2. l + 1 \in 1 .. Len(original) \div BlockSize
    BY <1>3, <1>4 DEF Count
  <2>3. f[l + 1] = SubSeq(original, (BlockSize * ((l + 1) - 1)) + 1, BlockSize * (l + 1))
    BY <2>2
  <2> HIDE DEF f, l
  <2>4. f[l + 1] = BlockOf(original, l)
    BY <1>4, <2>3, StandardGiven DEF l
  <2>5. QED
    BY <2>1, <2>4 DEF l
<1> HIDE DEF block
<1>7. state' = AddKey(key, block, 0) /\ AddKey(key, block, 0) \in Blocks
  <2>1. \A j \in 0 .. 59 : words[j + 1] = KeyWord(key, j)
    BY <1>1, WordsMade
  <2>2. 0 \in 0 .. 14
    OBVIOUS
  <2>3. Standard!AddRoundKey(block, 0) = AddKey(key, block, 0)
    BY <1>2, <1>5, <2>1, <2>2, StandardAdds
  <2>4. AddKey(key, block, 0) \in Blocks
    BY <1>2, <1>5, <2>2, AddKeyInverts
  <2>5. QED
    BY <1>6, <2>3, <2>4
<1>8. \E p : Path(key, p, 0, 1 - 1) /\ p[0] = AddKey(key, block, 0) /\ p[1 - 1] = state'
  <2> DEFINE p == [m \in 0 .. 14 |-> AddKey(key, block, 0)]
  <2>1. p \in [0 .. 14 -> Blocks] /\ p[0] = AddKey(key, block, 0)
    BY <1>7
  <2> HIDE DEF p
  <2>2. 1 - 1 = 0 /\ 0 + 1 .. 0 = {}
    OBVIOUS
  <2>3. Path(key, p, 0, 1 - 1)
    BY <2>1, <2>2 DEF Path
  <2>4. QED
    BY <1>7, <2>1, <2>2, <2>3
<1>9. RoundInv'
  <2>1. Len(answer) < Count(original) /\ 1 \in 0 .. 14 /\ 1 > 0
    BY <1>3, <1>4
  <2>2. PICK p : Path(key, p, 0, 1 - 1) /\ p[0] = AddKey(key, block, 0) /\ p[1 - 1] = state'
    BY <1>8
  <2>3. /\ Path(key', p, 0, round' - 1) /\ p[0] = AddKey(key', BlockOf(original', Len(answer')), 0)
        /\ p[round' - 1] = state'
    BY <1>1, <2>2 DEF Given, block
  <2>4. Len(words') = 60 /\ ~(60 < 60) /\ Len(answer') < Count(original') /\ round' \in 0 .. 14
    BY <1>1, <2>1 DEF Given
  <2>5. QED
    BY <2>3, <2>4 DEF RoundInv
<1>10. WordsInv' /\ AnswerInv'
  BY <1>1 DEF WordsInv, AnswerInv, Given
<1>11. QED
  BY <1>9, <1>10

(* What a round of the standard makes of its state. *)
LEMMA StandardRounds ==
  ASSUME SboxIsFips197, NEW k \in CipherKeys, NEW b \in Blocks, NEW m \in 1 .. 14,
         \A j \in 0 .. 59 : words[j + 1] = KeyWord(k, j)
  PROVE  /\ m < 14 => Standard!AddRoundKey(Standard!MixColumns(Standard!ShiftRows(Standard!SubBytes(b))), m)
                        = Round(k, b, m)
         /\ m = 14 => Standard!AddRoundKey(Standard!ShiftRows(Standard!SubBytes(b)), m) = Round(k, b, m)
<1>1. aes_subBytes(b) \in Blocks /\ Shifted(b) \in Blocks
  BY SubBytesIs, ShiftedInverts
<1>2. Standard!ShiftRows(Standard!SubBytes(b)) = Shifted(b)
  <2>1. Standard!SubBytes(b) = aes_subBytes(b)
    BY StandardSubstitutes
  <2>2. Standard!ShiftRows(aes_subBytes(b)) = aes_shiftRows(aes_subBytes(b))
    BY <1>1, StandardShifts
  <2>3. QED
    BY <2>1, <2>2 DEF Shifted
<1>3. /\ Standard!MixColumns(Shifted(b)) = aes_mixColumns(Shifted(b))
      /\ aes_mixColumns(Shifted(b)) \in Blocks
  BY <1>1, StandardMixes, MixColumnsIs
<1>4. m \in 0 .. 14
  OBVIOUS
<1>5. \A c \in Blocks : Standard!AddRoundKey(c, m) = AddKey(k, c, m)
  BY <1>4, StandardAdds
<1>6. QED
  BY <1>1, <1>2, <1>3, <1>5 DEF Round, Rounds

LEMMA RoundStep ==
  ASSUME SboxIsFips197, TypeInv, WholeBlocks(original), WordsInv, AnswerInv, RoundInv, Given,
         Standard!Round
  PROVE  WordsInv' /\ AnswerInv' /\ RoundInv'
<1>1. /\ round \in 1 .. 13
      /\ state' = Standard!AddRoundKey(
                    Standard!MixColumns(Standard!ShiftRows(Standard!SubBytes(state))), round)
      /\ round' = round + 1 /\ words' = words /\ answer' = answer
  <2>1. 14 - 1 = 13
    OBVIOUS
  <2>2. QED
    BY <2>1 DEF Standard!Round, Standard!CipherRounds
<1>2. key \in CipherKeys
  BY DEF TypeInv
<1>3. round > 0 /\ round < 14 /\ round \in 1 .. 14 /\ round - 1 \in 0 .. 14
      /\ round + 1 \in 0 .. 14 /\ (round + 1) - 1 = round /\ round + 1 > 0
  BY <1>1
<1>4. /\ Len(words) = 60 /\ Len(answer) < Count(original)
      /\ \A j \in 0 .. 59 : words[j + 1] = KeyWord(key, j)
  BY <1>3, WordsMade DEF RoundInv
<1>5. PICK p : /\ Path(key, p, 0, round - 1)
               /\ p[0] = AddKey(key, BlockOf(original, Len(answer)), 0)
               /\ p[round - 1] = state
  BY <1>3 DEF RoundInv
<1>6. state \in Blocks
  BY <1>3, <1>5 DEF Path
<1>7. state' = Round(key, state, round)
  BY <1>1, <1>2, <1>3, <1>4, <1>6, StandardRounds
<1>8. PICK q : Path(key, q, 0, round) /\ q[0] = p[0] /\ q[round] = Round(key, p[round - 1], round)
  BY <1>2, <1>3, <1>5, PathGrows
<1>9. /\ Path(key, q, 0, (round + 1) - 1)
      /\ q[0] = AddKey(key, BlockOf(original, Len(answer)), 0)
      /\ q[(round + 1) - 1] = state'
  BY <1>3, <1>5, <1>7, <1>8
<1>10. RoundInv'
  <2>1. /\ Path(key', q, 0, round' - 1) /\ q[0] = AddKey(key', BlockOf(original', Len(answer')), 0)
        /\ q[round' - 1] = state'
    BY <1>1, <1>9 DEF Given
  <2>2. Len(words') = 60 /\ ~(60 < 60) /\ Len(answer') < Count(original') /\ round' \in 0 .. 14
    BY <1>1, <1>3, <1>4 DEF Given
  <2>3. QED
    BY <2>1, <2>2 DEF RoundInv
<1>11. WordsInv' /\ AnswerInv'
  BY <1>1 DEF WordsInv, AnswerInv, Given
<1>12. QED
  BY <1>10, <1>11

LEMMA FinalRoundStep ==
  ASSUME SboxIsFips197, TypeInv, WholeBlocks(original), WordsInv, AnswerInv, RoundInv, Given,
         Standard!FinalRound
  PROVE  WordsInv' /\ AnswerInv' /\ RoundInv'
<1> DEFINE l == Len(answer)
           c == Round(key, state, 14)
<1>1. /\ round = 14
      /\ answer' = Append(answer, Standard!AddRoundKey(Standard!ShiftRows(Standard!SubBytes(state)), round))
      /\ round' = 0 /\ words' = words
  BY DEF Standard!FinalRound, Standard!CipherRounds
<1>2. key \in CipherKeys /\ original \in Seq(Bytes)
  BY DEF TypeInv
<1>3. Count(original) \in Nat
  BY <1>2, Positions
<1>4. round > 0
  BY <1>1
<1>5. /\ Len(words) = 60 /\ l < Count(original)
      /\ \A j \in 0 .. 59 : words[j + 1] = KeyWord(key, j)
  BY <1>4, WordsMade DEF RoundInv
<1>6. PICK p : /\ Path(key, p, 0, round - 1) /\ p[0] = AddKey(key, BlockOf(original, l), 0)
               /\ p[round - 1] = state
  BY <1>4 DEF RoundInv
<1>7. 14 \in 1 .. 14 /\ 14 - 1 = 13 /\ 13 \in 0 .. 14
  OBVIOUS
<1>8. Path(key, p, 0, 14 - 1) /\ p[14 - 1] = state
  BY <1>1, <1>6
<1>9. state \in Blocks
  BY <1>7, <1>8 DEF Path
<1>10. answer' = Append(answer, c) /\ c \in Blocks
  <2> DEFINE m == 14
  <2>1. m = 14 /\ m \in 1 .. 14
    OBVIOUS
  <2> HIDE DEF m
  <2>2. Standard!AddRoundKey(Standard!ShiftRows(Standard!SubBytes(state)), m) = Round(key, state, m)
    BY <1>2, <1>5, <1>9, <2>1, StandardRounds
  <2>3. Round(key, state, m) \in Blocks
    BY <1>2, <1>9, <2>1, RoundInverts
  <2>4. QED
    BY <1>1, <2>1, <2>2, <2>3
<1>11. Encrypts(key, BlockOf(original, l), c)
  <2> DEFINE m == 14
  <2>1. m = 14 /\ m \in 1 .. 14
    OBVIOUS
  <2>2. Path(key, p, 0, m - 1) /\ p[m - 1] = state
    BY <1>8
  <2> HIDE DEF m
  <2>3. PICK q : Path(key, q, 0, m) /\ q[0] = p[0] /\ q[m] = Round(key, p[m - 1], m)
    BY <1>2, <2>1, <2>2, PathGrows
  <2>4. QED
    BY <1>6, <2>1, <2>2, <2>3 DEF Encrypts
<1> HIDE DEF c
<1>12. answer \in Seq(Blocks) /\ l \in Nat /\ l + 1 <= Count(original)
       /\ \A j \in 0 .. l - 1 : Encrypts(key, BlockOf(original, j), answer[j + 1])
  <2>1. /\ answer \in Seq(Blocks)
        /\ \A j \in 0 .. l - 1 : Encrypts(key, BlockOf(original, j), answer[j + 1])
    BY DEF AnswerInv
  <2>2. l \in Nat
    BY <2>1
  <2> HIDE DEF l
  <2>3. l + 1 <= Count(original)
    BY <1>3, <1>5, <2>2
  <2>4. QED
    BY <2>1, <2>2, <2>3
<1>13. /\ answer' \in Seq(Blocks) /\ Len(answer') = l + 1 /\ answer'[l + 1] = c
       /\ \A j \in 1 .. l : answer'[j] = answer[j]
  BY <1>10, <1>12
<1>14. calls = <<>>
  <2>1. calls # <<>> => l = Count(original)
    BY DEF AnswerInv
  <2> HIDE DEF l
  <2>2. QED
    BY <1>3, <1>5, <1>12, <2>1
<1> HIDE DEF l
<1>15. \A j \in 0 .. l : Encrypts(key, BlockOf(original, j), answer'[j + 1])
  <2>1. \A j \in 0 .. l : j = l \/ (j \in 0 .. l - 1 /\ j + 1 \in 1 .. l)
    BY <1>12
  <2>2. QED
    BY <1>11, <1>12, <1>13, <2>1
<1>16. AnswerInv'
  <2>1. (l + 1) - 1 = l
    BY <1>12
  <2>2. QED
    BY <1>12, <1>13, <1>14, <1>15, <2>1 DEF AnswerInv, Given
<1>17. RoundInv'
  BY <1>1, <1>5 DEF RoundInv
<1>18. WordsInv'
  BY <1>1 DEF WordsInv, Given
<1>19. QED
  BY <1>16, <1>17, <1>18
-----------------------------------------------------------------------------
(* The standard and the code together. *)

(* The inductive invariant: that of the code beside that of the standard. *)
StandardIInv == IInv /\ StandardInv

LEMMA StandardStep ==
  ASSUME SboxIsFips197, StandardIInv, Next
  PROVE  StandardIInv'
<1>1. IInv /\ StandardInv
  BY DEF StandardIInv
<1>2. [CryptoNext]_cryptoVars
  BY DEF Next, UseRandom, UseChecksum, UseStandard, UseCrypto
<1>3. IInv'
  BY <1>1, <1>2, IInvStep
<1>4. key' = key /\ original' = original
  <2>1. CASE CryptoNext
    BY <2>1 DEF CryptoNext, TbxCryptoAes256Encrypt, TbxCryptoAes256Decrypt, Call, ExpandDeckey,
                EncryptBlock, EncryptRound, DecryptBlock, DecryptRound, Done
  <2>2. CASE UNCHANGED cryptoVars
    BY <2>2 DEF cryptoVars
  <2>3. QED
    BY <1>2, <2>1, <2>2
<1>5. WholeBlocks(original') <=> WholeBlocks(original)
  BY <1>4
<1>6. ASSUME WholeBlocks(original) PROVE WordsInv' /\ AnswerInv' /\ RoundInv'
  <2>1. TypeInv /\ WordsInv /\ AnswerInv /\ RoundInv
    BY <1>1, <1>6 DEF IInv, StandardInv
  <2>2. CASE UseStandard
    <3>1. Given /\ Standard!FipsNext
      BY <2>2 DEF UseStandard, cryptoVars, Given
    <3>2. CASE Standard!KeyExpansion
      BY <1>6, <2>1, <3>1, <3>2, KeyExpansionStep
    <3>3. CASE Standard!BeginBlock
      BY <1>6, <2>1, <3>1, <3>3, BeginBlockStep
    <3>4. CASE Standard!Round
      BY <1>6, <2>1, <3>1, <3>4, RoundStep
    <3>5. CASE Standard!FinalRound
      BY <1>6, <2>1, <3>1, <3>5, FinalRoundStep
    <3>6. QED
      BY <3>1, <3>2, <3>3, <3>4, <3>5 DEF Standard!FipsNext
  <2>3. CASE UseCrypto
    <3>1. Standard!Finished /\ words' = words /\ round' = round /\ state' = state /\ answer' = answer
      BY <2>3 DEF UseCrypto, standardVars
    <3>2. Len(answer) = Count(original)
      BY <1>6, <2>1, <3>1, StandardGiven
    <3>3. WordsInv'
      BY <1>4, <2>1, <3>1 DEF WordsInv
    <3>4. AnswerInv'
      BY <1>4, <2>1, <3>1, <3>2 DEF AnswerInv
    <3>5. RoundInv'
      BY <1>4, <2>1, <3>1 DEF RoundInv
    <3>6. QED
      BY <3>3, <3>4, <3>5
  <2>4. CASE UseRandom \/ UseChecksum
    <3>1. /\ words' = words /\ round' = round /\ state' = state /\ answer' = answer /\ calls' = calls
      BY <2>4 DEF UseRandom, UseChecksum, standardVars, cryptoVars
    <3>2. WordsInv'
      BY <1>4, <2>1, <3>1 DEF WordsInv
    <3>3. AnswerInv'
      BY <1>4, <2>1, <3>1 DEF AnswerInv
    <3>4. RoundInv'
      BY <1>4, <2>1, <3>1 DEF RoundInv
    <3>5. QED
      BY <3>2, <3>3, <3>4
  <2>5. QED
    BY <2>2, <2>3, <2>4 DEF Next
<1>7. StandardInv'
  BY <1>5, <1>6 DEF StandardInv
<1>8. QED
  BY <1>3, <1>7 DEF StandardIInv

LEMMA StandardStays ==
  ASSUME StandardIInv, UNCHANGED vars PROVE StandardIInv'
<1>1. /\ UNCHANGED cryptoVars /\ key' = key /\ original' = original /\ calls' = calls
      /\ words' = words /\ round' = round /\ state' = state /\ answer' = answer
  BY DEF vars, cryptoVars, standardVars
<1>2. IInv'
  BY <1>1, IInvStep DEF StandardIInv
<1>3. StandardInv'
  BY <1>1 DEF StandardIInv, StandardInv, WordsInv, AnswerInv, RoundInv
<1>4. QED
  BY <1>2, <1>3 DEF StandardIInv

(* What the standard has computed for an array is what encrypting leaves in it. *)
LEMMA EncryptedIsExpected ==
  ASSUME StandardIInv, Returned, calls = <<"encrypt">>, WholeBlocks(original)
  PROVE  data = ExpectedBytes
<1>1. TypeInv /\ AnswerInv
  BY DEF StandardIInv, IInv, StandardInv
<1>2. PICK before : BeganWith(before) /\ ProgressInv(before)
  BY DEF StandardIInv, IInv
<1>3. /\ Len(calls) = 1 /\ calls # <<>> /\ calls[1] = "encrypt" /\ calls \in Seq(Services)
  BY <1>1 DEF TypeInv
<1>4. Last(calls) = "encrypt"
  BY <1>3, LastCall
<1>5. Turns("encrypt", original, data)
  BY <1>2, <1>3, <1>4 DEF BeganWith, ProgressInv, Returned, IdleInv
<1>6. /\ key \in CipherKeys /\ original \in Seq(Bytes) /\ data \in Seq(Bytes)
      /\ Len(data) = Len(original) /\ WholeBlocks(data) /\ Count(data) = Count(original)
  <2>1. /\ WholeBlocks(data) /\ WholeBlocks(before) /\ Count(data) = Count(before)
    BY <1>1, <1>2, SameShape
  <2>2. before = original
    BY <1>2, <1>3 DEF BeganWith
  <2>3. QED
    BY <1>1, <2>1, <2>2 DEF TypeInv
<1>7. Len(answer) = Count(original) /\ answer \in Seq(Blocks)
  BY <1>1, <1>3 DEF AnswerInv
<1>8. ASSUME NEW j \in 0 .. Count(original) - 1 PROVE answer[j + 1] = BlockOf(data, j)
  <2>1. Encrypts(key, BlockOf(original, j), answer[j + 1])
    BY <1>1, <1>7 DEF AnswerInv
  <2>2. Encrypts(key, BlockOf(original, j), BlockOf(data, j))
    BY <1>5 DEF Turns, Does
  <2>3. BlockOf(original, j) \in Blocks /\ BlockOf(data, j) \in Blocks
    BY <1>6, BlockFacts
  <2>4. answer[j + 1] \in Blocks
    <3>1. Count(original) \in Nat
      BY <1>6, Positions
    <3>2. j + 1 \in 1 .. Len(answer)
      BY <1>7, <3>1
    <3>3. QED
      BY <1>7, <3>2
  <2>5. QED
    BY <1>6, <2>1, <2>2, <2>3, <2>4, EncryptsOne
<1>9. ASSUME NEW n \in DOMAIN original
      PROVE  data[n] = answer[1 + ((n - 1) \div 16)][1 + ((n - 1) % 16)]
  <2>1. n \in 1 .. Len(original)
    BY <1>6
  <2>2. PICK j \in 0 .. Count(original) - 1, m \in 1 .. 16 : n = 16 * j + m
    BY <1>6, <2>1, Positions DEF BlockSize
  <2>3. Count(original) \in Nat /\ j \in Nat
    BY <1>6, Positions
  <2>4. (n - 1) \div 16 = j /\ 1 + ((n - 1) % 16) = m /\ 1 + j = j + 1
    <3>1. \A a \in Nat, b \in 1 .. 16 : /\ ((16 * a + b) - 1) \div 16 = a
                                        /\ 1 + (((16 * a + b) - 1) % 16) = b /\ 1 + a = a + 1
      OBVIOUS
    <3>2. QED
      BY <2>2, <2>3, <3>1
  <2>5. data[n] = BlockOf(data, j)[m]
    BY <2>2 DEF BlockOf, BlockSize
  <2>6. QED
    BY <1>8, <2>4, <2>5
<1>10. data = [n \in DOMAIN original |-> data[n]]
  BY <1>6
<1>11. ExpectedBytes = [n \in DOMAIN original |->
                          answer[1 + ((n - 1) \div 16)][1 + ((n - 1) % 16)]]
  BY DEF ExpectedBytes, BlockSize
<1>12. QED
  BY <1>9, <1>10, <1>11

(* For every key and every array: what TbxCryptoAes256Encrypt leaves in the array is   *)
(* what FIPS 197 asks for, in every block, and an array that is not made of whole      *)
(* blocks is untouched.  That the table of the S-box is the standard's, a formula      *)
(* without variables, is what TLC evaluates.                                           *)
THEOREM EncryptionIsFips197 ==
  ASSUME SboxIsFips197
  PROVE  Spec => []EncryptIsFips197
<1>1. Init => StandardIInv
  <2> SUFFICES ASSUME Init PROVE StandardIInv
    OBVIOUS
  <2>1. IInv
    BY InitIInv DEF Init
  <2>2. calls = <<>> /\ Standard!FipsInit
    BY DEF Init, CryptoInit
  <2>3. StandardInv
    BY <2>1, <2>2, StandardBegins DEF StandardInv, IInv
  <2>4. QED
    BY <2>1, <2>3 DEF StandardIInv
<1>2. StandardIInv /\ [Next]_vars => StandardIInv'
  BY StandardStep, StandardStays
<1>3. StandardIInv => EncryptIsFips197
  <2> SUFFICES ASSUME StandardIInv, Returned, calls = <<"encrypt">>
               PROVE  IF WholeBlocks(original) THEN data = ExpectedBytes ELSE data = original
    BY DEF EncryptIsFips197
  <2>1. CASE WholeBlocks(original)
    BY <2>1, EncryptedIsExpected
  <2>2. CASE ~WholeBlocks(original)
    BY <2>2 DEF StandardIInv, IInv
  <2>3. QED
    BY <2>1, <2>2
<1>4. QED
  BY <1>1, <1>2, <1>3, PTL DEF Spec
=============================================================================
