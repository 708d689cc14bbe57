------------------------------- MODULE Aes256 -------------------------------
(***************************************************************************)
(* tbx_aes256.c: the steps of the AES-256 block cipher on 16 bytes and of  *)
(* its key schedule on 32.  Byte n of an array of the code is element      *)
(* n + 1 of a sequence; an operator returns what the code leaves in the    *)
(* array.                                                                  *)
(***************************************************************************)
EXTENDS Words, Sequences

Sbox == <<
  \h63,\h7c,\h77,\h7b,\hf2,\h6b,\h6f,\hc5,\h30,\h01,\h67,\h2b,\hfe,\hd7,\hab,\h76,
  \hca,\h82,\hc9,\h7d,\hfa,\h59,\h47,\hf0,\had,\hd4,\ha2,\haf,\h9c,\ha4,\h72,\hc0,
  \hb7,\hfd,\h93,\h26,\h36,\h3f,\hf7,\hcc,\h34,\ha5,\he5,\hf1,\h71,\hd8,\h31,\h15,
  \h04,\hc7,\h23,\hc3,\h18,\h96,\h05,\h9a,\h07,\h12,\h80,\he2,\heb,\h27,\hb2,\h75,
  \h09,\h83,\h2c,\h1a,\h1b,\h6e,\h5a,\ha0,\h52,\h3b,\hd6,\hb3,\h29,\he3,\h2f,\h84,
  \h53,\hd1,\h00,\hed,\h20,\hfc,\hb1,\h5b,\h6a,\hcb,\hbe,\h39,\h4a,\h4c,\h58,\hcf,
  \hd0,\hef,\haa,\hfb,\h43,\h4d,\h33,\h85,\h45,\hf9,\h02,\h7f,\h50,\h3c,\h9f,\ha8,
  \h51,\ha3,\h40,\h8f,\h92,\h9d,\h38,\hf5,\hbc,\hb6,\hda,\h21,\h10,\hff,\hf3,\hd2,
  \hcd,\h0c,\h13,\hec,\h5f,\h97,\h44,\h17,\hc4,\ha7,\h7e,\h3d,\h64,\h5d,\h19,\h73,
  \h60,\h81,\h4f,\hdc,\h22,\h2a,\h90,\h88,\h46,\hee,\hb8,\h14,\hde,\h5e,\h0b,\hdb,
  \he0,\h32,\h3a,\h0a,\h49,\h06,\h24,\h5c,\hc2,\hd3,\hac,\h62,\h91,\h95,\he4,\h79,
  \he7,\hc8,\h37,\h6d,\h8d,\hd5,\h4e,\ha9,\h6c,\h56,\hf4,\hea,\h65,\h7a,\hae,\h08,
  \hba,\h78,\h25,\h2e,\h1c,\ha6,\hb4,\hc6,\he8,\hdd,\h74,\h1f,\h4b,\hbd,\h8b,\h8a,
  \h70,\h3e,\hb5,\h66,\h48,\h03,\hf6,\h0e,\h61,\h35,\h57,\hb9,\h86,\hc1,\h1d,\h9e,
  \he1,\hf8,\h98,\h11,\h69,\hd9,\h8e,\h94,\h9b,\h1e,\h87,\he9,\hce,\h55,\h28,\hdf,
  \h8c,\ha1,\h89,\h0d,\hbf,\he6,\h42,\h68,\h41,\h99,\h2d,\h0f,\hb0,\h54,\hbb,\h16>>

SboxInv == <<
  \h52,\h09,\h6a,\hd5,\h30,\h36,\ha5,\h38,\hbf,\h40,\ha3,\h9e,\h81,\hf3,\hd7,\hfb,
  \h7c,\he3,\h39,\h82,\h9b,\h2f,\hff,\h87,\h34,\h8e,\h43,\h44,\hc4,\hde,\he9,\hcb,
  \h54,\h7b,\h94,\h32,\ha6,\hc2,\h23,\h3d,\hee,\h4c,\h95,\h0b,\h42,\hfa,\hc3,\h4e,
  \h08,\h2e,\ha1,\h66,\h28,\hd9,\h24,\hb2,\h76,\h5b,\ha2,\h49,\h6d,\h8b,\hd1,\h25,
  \h72,\hf8,\hf6,\h64,\h86,\h68,\h98,\h16,\hd4,\ha4,\h5c,\hcc,\h5d,\h65,\hb6,\h92,
  \h6c,\h70,\h48,\h50,\hfd,\hed,\hb9,\hda,\h5e,\h15,\h46,\h57,\ha7,\h8d,\h9d,\h84,
  \h90,\hd8,\hab,\h00,\h8c,\hbc,\hd3,\h0a,\hf7,\he4,\h58,\h05,\hb8,\hb3,\h45,\h06,
  \hd0,\h2c,\h1e,\h8f,\hca,\h3f,\h0f,\h02,\hc1,\haf,\hbd,\h03,\h01,\h13,\h8a,\h6b,
  \h3a,\h91,\h11,\h41,\h4f,\h67,\hdc,\hea,\h97,\hf2,\hcf,\hce,\hf0,\hb4,\he6,\h73,
  \h96,\hac,\h74,\h22,\he7,\had,\h35,\h85,\he2,\hf9,\h37,\he8,\h1c,\h75,\hdf,\h6e,
  \h47,\hf1,\h1a,\h71,\h1d,\h29,\hc5,\h89,\h6f,\hb7,\h62,\h0e,\haa,\h18,\hbe,\h1b,
  \hfc,\h56,\h3e,\h4b,\hc6,\hd2,\h79,\h20,\h9a,\hdb,\hc0,\hfe,\h78,\hcd,\h5a,\hf4,
  \h1f,\hdd,\ha8,\h33,\h88,\h07,\hc7,\h31,\hb1,\h12,\h10,\h59,\h27,\h80,\hec,\h5f,
  \h60,\h51,\h7f,\ha9,\h19,\hb5,\h4a,\h0d,\h2d,\he5,\h7a,\h9f,\h93,\hc9,\h9c,\hef,
  \ha0,\he0,\h3b,\h4d,\hae,\h2a,\hf5,\hb0,\hc8,\heb,\hbb,\h3c,\h83,\h53,\h99,\h61,
  \h17,\h2b,\h04,\h7e,\hba,\h77,\hd6,\h26,\he1,\h69,\h14,\h63,\h55,\h21,\h0c,\h7d>>

(* The number that a byte stands for, and a table of bytes. *)
Number(x) == CHOOSE n \in 0 .. 255 : Word(n) = x
Looked(table) == [x \in Bytes |-> Word(table[1 + Number(x)])]

SboxBytes    == Looked(Sbox)
SboxInvBytes == Looked(SboxInv)

(* Mutant; no specification uses it: one entry is mistyped. *)
SboxMistyped(x) == IF x = 0 .. 6 THEN {5} ELSE SboxBytes[x]

rj_sbox(x)     == SboxBytes[x]
rj_sbox_inv(x) == SboxInvBytes[x]

(* An array, as a tuple: its elements are computed once. *)
Array(f) == SubSeq(f, 1, Len(f))
-----------------------------------------------------------------------------
(* Mutant; no specification uses it. *)

(* The round constant is not wound back. *)
RconKept(rc) == rc
-----------------------------------------------------------------------------
(* Doubling in the field of AES. *)
rj_xtime(x) == IF 7 \in x THEN BitXor(ShiftLeft(x, 8), {4, 3, 1, 0}) ELSE ShiftLeft(x, 8)

aes_subBytes(buf)     == Array([n \in 1 .. 16 |-> rj_sbox(buf[n])])
aes_subBytes_inv(buf) == Array([n \in 1 .. 16 |-> rj_sbox_inv(buf[n])])

(* The round key is the 16 bytes of the key from byte number from on. *)
aes_addRoundKey(buf, key, from) == Array([n \in 1 .. 16 |-> BitXor(buf[n], key[from + n])])

(* Where each byte comes from. *)
ShiftedFrom    == <<0, 5, 10, 15, 4, 9, 14, 3, 8, 13, 2, 7, 12, 1, 6, 11>>
ShiftedInvFrom == <<0, 13, 10, 7, 4, 1, 14, 11, 8, 5, 2, 15, 12, 9, 6, 3>>

aes_shiftRows(buf)     == Array([n \in 1 .. 16 |-> buf[ShiftedFrom[n] + 1]])
aes_shiftRows_inv(buf) == Array([n \in 1 .. 16 |-> buf[ShiftedInvFrom[n] + 1]])

(* The byte that follows in the same column of four, around. *)
Below(n) == IF n % 4 = 0 THEN n - 3 ELSE n + 1

(* The four bytes of the column together. *)
ColumnSum(buf, n) ==
  LET b == Below(n)
      c == Below(b)
  IN BitXor(BitXor(buf[n], buf[b]), BitXor(buf[c], buf[Below(c)]))

aes_mixColumns(buf) ==
  Array([n \in 1 .. 16 |->
    BitXor(BitXor(buf[n], ColumnSum(buf, n)), rj_xtime(BitXor(buf[n], buf[Below(n)])))])

aes_mixColumns_inv(buf) ==
  Array([n \in 1 .. 16 |->
    LET e == ColumnSum(buf, n)
        ac == BitXor(buf[n], buf[Below(Below(n))])
        x == BitXor(e, rj_xtime(rj_xtime(BitXor(rj_xtime(e), ac))))
    IN BitXor(BitXor(buf[n], x), rj_xtime(BitXor(buf[n], buf[Below(n)])))])
-----------------------------------------------------------------------------
(* The bytes from number i on, each combined with the one four before it.  *)
ChainWord(k, i) ==
  Array([n \in 1 .. 32 |-> IF n \in i + 1 .. i + 4 THEN BitXor(k[n], k[n - 4]) ELSE k[n]])

(* The three passes of a loop over words. *)
ChainWords(k, i1, i2, i3) == ChainWord(ChainWord(ChainWord(k, i1), i2), i3)

(* The words that go through the S-box: the first with the last word, rotated, and the    *)
(* round constant, the fifth with the fourth.                                             *)
SubstituteFirst(k, rc) ==
  Array([n \in 1 .. 32 |->
    CASE n = 1        -> BitXor(k[n], BitXor(rj_sbox(k[30]), rc))
      [] n \in {2, 3} -> BitXor(k[n], rj_sbox(k[29 + n]))
      [] n = 4        -> BitXor(k[n], rj_sbox(k[29]))
      [] OTHER        -> k[n]])

SubstituteFifth(k) ==
  Array([n \in 1 .. 32 |-> IF n \in 17 .. 20 THEN BitXor(k[n], rj_sbox(k[n - 4])) ELSE k[n]])

(* The next 32 bytes of the key schedule. *)
aes_expandEncKey(k, rc) ==
  ChainWords(SubstituteFifth(ChainWords(SubstituteFirst(k, rc), 4, 8, 12)), 20, 24, 28)

(* The 32 bytes before them; rc is the round constant already wound back. *)
aes_expandDecKey(k, rc) ==
  SubstituteFirst(ChainWords(SubstituteFifth(ChainWords(k, 28, 24, 20)), 12, 8, 4), rc)

(* The round constant of the step before. *)
RconBack(rc) == BitXor(ShiftRight(rc), IF 0 \in rc THEN {7, 3, 2, 0} ELSE {})
=============================================================================
