---------------------------- MODULE Calculations ----------------------------
(***************************************************************************)
(* An application that uses one of the services that compute something:    *)
(* random numbers (Random), checksums (Checksum) or ciphers (Crypto, beside*)
(* Fips197, which says what to expect).  They share no state: one of them  *)
(* is chosen at the beginning and the others rest.                         *)
(***************************************************************************)
EXTENDS Random, Checksum, Crypto

CONSTANTS Example  \* a key, a block and the answer, from the standard

VARIABLES service,                      \* the one that is used
          words, round, state, answer   \* of Fips197

standardVars == <<words, round, state, answer>>
vars == <<service, randomVars, message, cryptoVars, standardVars>>

Standard == INSTANCE Fips197 WITH
  cipherKey <- key,
  plaintext <- [b \in 1 .. Len(original) \div BlockSize |->
                  SubSeq(original, (BlockSize * (b - 1)) + 1, BlockSize * b)]

Init == /\ service \in {"random", "checksum", "crypto"}
        /\ RandomInit
        /\ ChecksumInit
        /\ CryptoInit
        /\ Standard!FipsInit
        /\ service # "crypto" => key = (CHOOSE k \in Keys : TRUE) /\ data = (CHOOSE d \in Arrays : TRUE)

UseRandom == /\ service = "random"
             /\ RandomNext
             /\ UNCHANGED <<service, message, cryptoVars, standardVars>>

UseChecksum == /\ service = "checksum"
               /\ Lengthen
               /\ UNCHANGED <<service, randomVars, cryptoVars, standardVars>>

(* What the standard says first, then what the code does. *)
UseStandard == /\ service = "crypto"
               /\ UNCHANGED <<service, randomVars, message, cryptoVars>>
               /\ Standard!FipsNext

UseCrypto == /\ service = "crypto"
             /\ Standard!Finished
             /\ CryptoNext
             /\ UNCHANGED <<service, randomVars, message, standardVars>>

Next == UseRandom \/ UseChecksum \/ UseStandard \/ UseCrypto

Spec == Init /\ [][Next]_vars
-----------------------------------------------------------------------------
ExpectedBytes ==
  [n \in DOMAIN original |-> answer[1 + ((n - 1) \div BlockSize)][1 + ((n - 1) % BlockSize)]]

(* The table of the code, at every byte, is what the standard computes. *)
SboxIsFips197 == \A x \in Bytes : rj_sbox(x) = Standard!SubByte(x)

(* What TbxCryptoAes256Encrypt leaves in the array is what FIPS 197 asks   *)
(* for, block by block: the tables, the round keys computed on the way and *)
(* the context reused for all blocks change nothing.  An array that is not *)
(* made of whole blocks is untouched.                                      *)
EncryptIsFips197 ==
  Returned /\ calls = <<"encrypt">> =>
    IF WholeBlocks(original) THEN data = ExpectedBytes
    ELSE data = original

(* The table of the code is, at every byte, what the reference computes,   *)
(* and the code gives the answer that the standard prints for its example: *)
(* the reference is FIPS 197, and not the code's mistakes over again.      *)
AnswersExample ==
  Returned /\ calls = <<"encrypt">> =>
    /\ SboxIsFips197
    /\ key = Example.key /\ SubSeq(original, 1, BlockSize) = Example.block
         => SubSeq(data, 1, BlockSize) = Example.answer
=============================================================================
