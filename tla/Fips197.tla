------------------------------ MODULE Fips197 -------------------------------
(***************************************************************************)
(* AES-256 as FIPS 197 defines it: in the field GF(2^8), with no tables    *)
(* and with the whole key schedule made in advance.  A byte is a           *)
(* polynomial; the state is a sequence of 16 of them, column by column.    *)
(***************************************************************************)
EXTENDS Polynomials

VARIABLES cipherKey,  \* 32 bytes; given
          plaintext,  \* a sequence of blocks of 16 bytes; given
          words,      \* the key schedule as far as it is made
          round,      \* the next round of the block; 0 before the block is begun
          state,      \* the state of that block
          answer      \* the blocks that are done

given == <<cipherKey, plaintext>>

CipherRounds == 14

(* Multiplication modulo x^8 + x^4 + x^3 + x + 1. *)
Times(p, q) == Residue(Product(p, q), 8, {4, 3, 1, 0})

(* p^254, the product of p^2, p^4, ..., p^128: p^255 is 1, and 0 for 0. *)
ReciprocalOf(p) ==
  LET square[i \in 0 .. 7] == IF i = 0 THEN p ELSE Times(square[i - 1], square[i - 1])
      product[i \in 0 .. 7] == IF i = 0 THEN {0} ELSE Times(product[i - 1], square[i])
  IN product[7]

(* SubBytes: the reciprocal, then an affine transformation of its bits. *)
SubByte(p) ==
  LET r == ReciprocalOf(p)
      Affine(b) == Cardinality({i \in {0, 4, 5, 6, 7} : (b + i) % 8 \in r}) % 2 = 1
  IN BitXor({b \in 0 .. 7 : Affine(b)}, {0, 1, 5, 6})
-----------------------------------------------------------------------------
AddWords(v, w) == [b \in 1 .. 4 |-> BitXor(v[b], w[b])]
SubWord(w) == [b \in 1 .. 4 |-> SubByte(w[b])]
RotWord(w) == <<w[2], w[3], w[4], w[1]>>
Rcon(n) == <<PowerOfX(n - 1, 8, {4, 3, 1, 0}), {}, {}, {}>>

(* Word n of the schedule, from the ones before it; FIPS 197 counts from 0. *)
NextWord(n) ==
  LET last == words[n]
      changed == CASE n % 8 = 0 -> AddWords(SubWord(RotWord(last)), Rcon(n \div 8))
                   [] n % 8 = 4 -> SubWord(last)
                   [] OTHER -> last
  IN AddWords(words[n - 7], changed)

(* The byte of a sequence of 16 in this row and, counted around, column. *)
At(block, row, column) == block[1 + row + (4 * (column % 4))]
Row(n) == (n - 1) % 4
Column(n) == (n - 1) \div 4

AddRoundKey(block, r) ==
  [n \in 1 .. 16 |-> BitXor(block[n], words[(4 * r) + 1 + Column(n)][1 + Row(n)])]

SubBytes(block) == [n \in 1 .. 16 |-> SubByte(block[n])]

ShiftRows(block) == [n \in 1 .. 16 |-> At(block, Row(n), Column(n) + Row(n))]

MixColumns(block) ==
  LET Mixed(r, c) == BitXor(BitXor(Times({1}, At(block, r, c)),
                                   Times({1, 0}, At(block, (r + 1) % 4, c))),
                            BitXor(At(block, (r + 2) % 4, c), At(block, (r + 3) % 4, c)))
  IN [n \in 1 .. 16 |-> Mixed(Row(n), Column(n))]
-----------------------------------------------------------------------------
FipsInit == /\ words = [n \in 1 .. 8 |-> SubSeq(cipherKey, (4 * n) - 3, 4 * n)]
            /\ round = 0
            /\ state = <<>>
            /\ answer = <<>>

Finished == Len(answer) = Len(plaintext)

KeyExpansion == /\ Len(words) < 4 * (CipherRounds + 1)
                /\ words' = Append(words, NextWord(Len(words)))
                /\ UNCHANGED <<round, state, answer>>

BeginBlock == /\ Len(words) = 4 * (CipherRounds + 1)
              /\ round = 0
              /\ ~Finished
              /\ state' = AddRoundKey(plaintext[Len(answer) + 1], 0)
              /\ round' = 1
              /\ UNCHANGED <<words, answer>>

Round == /\ round \in 1 .. CipherRounds - 1
         /\ state' = AddRoundKey(MixColumns(ShiftRows(SubBytes(state))), round)
         /\ round' = round + 1
         /\ UNCHANGED <<words, answer>>

FinalRound == /\ round = CipherRounds
              /\ answer' = Append(answer, AddRoundKey(ShiftRows(SubBytes(state)), round))
              /\ round' = 0
              /\ state' = <<>>
              /\ UNCHANGED words

FipsNext == UNCHANGED given /\ (KeyExpansion \/ BeginBlock \/ Round \/ FinalRound)
=============================================================================
