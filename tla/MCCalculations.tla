--------------------------- MODULE MCCalculations ---------------------------
(* Two contexts that draw random numbers; messages of up to six bytes; two *)
(* keys, for two blocks, for one, and for an array of 20 bytes.            *)
EXTENDS Calculations

CONSTANTS c1, c2

(* Zero, which is replaced; one, of which the first shift leaves only the  *)
(* polynomial; all bits.                                                   *)
MCHandlerValues == {{}, {0}, 0 .. 31}

(* The defaults of the source. *)
MCCrc16Polynom == Word(\h1021)
MCCrc16Initial == Word(\hFFFF)
MCCrc32Polynom == Word32(Word(\h04C1), Word(\h1DB7))
MCCrc32Initial == Word32(Word(\hFFFF), Word(\hFFFF))

MCMessageBytes == {{}, {7}, {0, 2, 5}}

AsBytes(array) == [n \in DOMAIN array |-> Word(array[n])]

(* FIPS 197, C.3 *)
MCExample ==
  [key |-> AsBytes([n \in 1 .. 32 |-> n - 1]),
   block |-> AsBytes([n \in 1 .. 16 |-> 17 * (n - 1)]),
   answer |-> AsBytes(<<\h8e, \ha2, \hb7, \hca, \h51, \h67, \h45, \hbf,
                        \hea, \hfc, \h49, \h90, \h4b, \h49, \h60, \h89>>)]

OtherKey == AsBytes([n \in 1 .. 32 |-> (163 * n + 91) % 256])
OtherBlock == AsBytes([n \in 1 .. 16 |-> (59 * n * n + 200) % 256])

MCKeys == {MCExample.key, OtherKey}
MCArrays == {MCExample.block \o OtherBlock, OtherBlock, SubSeq(OtherKey, 1, 20)}

Interchangeable == Permutations(Contexts)
=============================================================================
