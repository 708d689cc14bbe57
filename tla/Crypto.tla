------------------------------- MODULE Crypto -------------------------------
(***************************************************************************)
(* tbx_crypto.c and the block operations of tbx_aes256.c: an application   *)
(* has an array of bytes encrypted and decrypted with one key, in place,   *)
(* in blocks of 16 bytes and with the round keys computed on the way.  A   *)
(* step is one pass of a loop of the code.                                 *)
(***************************************************************************)
EXTENDS Aes256, SequencesExt

CONSTANTS Keys,     \* the keys of the application
          Arrays,   \* the arrays it may start with
          MaxCalls  \* bound on the calls

BlockSize == 16
Rounds == 14

ASSUME CryptoAssumption ==
  /\ \A k \in Keys : k \in [1 .. 32 -> Bytes]
  /\ \A d \in Arrays : d # <<>> /\ d \in Seq(Bytes)
  /\ MaxCalls \in Nat

VARIABLES key,       \* the parameter key
          data,      \* the parameter data: the array that is worked on
          ctx,       \* the context: its three keys, and the local rcon
          at,        \* where the code is
          idx,       \* the block of the array, from 0
          i,         \* the counter of the loop in tbx_aes256.c
          original,  \* history: the array at the beginning
          calls      \* history: the calls that returned, and the one under way

place == <<at, idx, i>>
cryptoVars == <<key, data, ctx, place, original, calls>>

NoKey == [n \in 1 .. 32 |-> {}]
NoContents == [key |-> NoKey, enckey |-> NoKey, deckey |-> NoKey, rcon |-> {}]

CryptoInit == /\ key \in Keys
              /\ data \in Arrays
              /\ original = data
              /\ ctx = NoContents
              /\ at = "idle" /\ idx = 0 /\ i = 0
              /\ calls = <<>>

Goto(where, block, counter) == at' = where /\ idx' = block /\ i' = counter
-----------------------------------------------------------------------------
(* Mutants; no specification uses them. *)

(* The working key is not taken anew for the blocks after the first. *)
WorkingKeyKept(from) == IF idx = 0 THEN from ELSE ctx.key
-----------------------------------------------------------------------------
WholeBlocks(array) == array # <<>> /\ Len(array) % BlockSize = 0

(* TbxCryptoAes256Encrypt and TbxCryptoAes256Decrypt.  An array of another *)
(* length is left alone (where assertions are off, or their handler        *)
(* returns); else tbx_aes256_init copies the key twice.                    *)
Call(what) ==
  /\ at = "idle"
  /\ Len(calls) < MaxCalls
  /\ calls' = Append(calls, what)
  /\ IF WholeBlocks(data)
     THEN /\ Goto("init", 0, 7)
          /\ ctx' = [ctx EXCEPT !.enckey = key, !.deckey = key, !.rcon = {0}]
     ELSE UNCHANGED <<place, ctx>>
  /\ UNCHANGED <<key, data, original>>

TbxCryptoAes256Encrypt == Call("encrypt")
TbxCryptoAes256Decrypt == Call("decrypt")

(* The rest of tbx_aes256_init: the key to decrypt with is seven expansions on. *)
ExpandDeckey ==
  /\ at = "init"
  /\ ctx' = [ctx EXCEPT !.deckey = aes_expandEncKey(@, ctx.rcon), !.rcon = rj_xtime(@)]
  /\ IF i > 1 THEN Goto("init", 0, i - 1) ELSE Goto(Last(calls), 0, 0)
  /\ UNCHANGED <<key, data, original, calls>>
-----------------------------------------------------------------------------
Buf == SubSeq(data, BlockSize * idx + 1, BlockSize * (idx + 1))

(* The array with another block in the place of this one. *)
SetBuf(block) ==
  data' = [n \in DOMAIN data |-> IF n \in BlockSize * idx + 1 .. BlockSize * (idx + 1)
                                 THEN block[n - (BlockSize * idx)] ELSE data[n]]

WorkingKey(from) == from

(* aes_addRoundKey_cpy *)
EncryptBlock ==
  LET working == WorkingKey(ctx.enckey)
  IN /\ at = "encrypt"
     /\ SetBuf(aes_addRoundKey(Buf, working, 0))
     /\ ctx' = [ctx EXCEPT !.key = working, !.rcon = {0}]
     /\ Goto("encrypt round", idx, 1)
     /\ UNCHANGED <<key, original, calls>>

(* To the next block of the array, or to tbx_aes256_done, which wipes the context. *)
NextBlock ==
  IF idx + 1 < Len(data) \div BlockSize
  THEN Goto(Last(calls), idx + 1, 0)
  ELSE Goto("done", 0, 0)

(* Rounds 1 to 13, and the last one, without the columns mixed. *)
EncryptRound ==
  LET shifted == aes_shiftRows(aes_subBytes(Buf))
      mixed == IF i < Rounds THEN aes_mixColumns(shifted) ELSE shifted
      odd == i % 2 = 1
      working == IF odd THEN ctx.key ELSE aes_expandEncKey(ctx.key, ctx.rcon)
  IN /\ at = "encrypt round"
     /\ SetBuf(aes_addRoundKey(mixed, working, IF odd THEN 16 ELSE 0))
     /\ ctx' = [ctx EXCEPT !.key = working, !.rcon = IF odd THEN @ ELSE rj_xtime(@)]
     /\ IF i < Rounds THEN Goto("encrypt round", idx, i + 1) ELSE NextBlock
     /\ UNCHANGED <<key, original, calls>>

Unshift(block) == aes_subBytes_inv(aes_shiftRows_inv(block))

DecryptBlock ==
  LET working == WorkingKey(ctx.deckey)
  IN /\ at = "decrypt"
     /\ SetBuf(Unshift(aes_addRoundKey(Buf, working, 0)))
     /\ ctx' = [ctx EXCEPT !.key = working, !.rcon = {7}]
     /\ Goto("decrypt round", idx, 13)
     /\ UNCHANGED <<key, original, calls>>

(* Rounds 13 to 1, and the key that is added after them. *)
DecryptRound ==
  LET odd == i % 2 = 1
      rcon == IF odd THEN RconBack(ctx.rcon) ELSE ctx.rcon
      working == IF odd THEN aes_expandDecKey(ctx.key, rcon) ELSE ctx.key
      added == aes_addRoundKey(Buf, working, IF odd THEN 16 ELSE 0)
      block == Unshift(aes_mixColumns_inv(added))
  IN /\ at = "decrypt round"
     /\ SetBuf(IF i > 1 THEN block ELSE aes_addRoundKey(block, working, 0))
     /\ ctx' = [ctx EXCEPT !.key = working, !.rcon = rcon]
     /\ IF i > 1 THEN Goto("decrypt round", idx, i - 1) ELSE NextBlock
     /\ UNCHANGED <<key, original, calls>>

Done == /\ at = "done"
        /\ ctx' = NoContents
        /\ Goto("idle", 0, 0)
        /\ UNCHANGED <<key, data, original, calls>>

CryptoNext == \/ TbxCryptoAes256Encrypt \/ TbxCryptoAes256Decrypt \/ ExpandDeckey
              \/ EncryptBlock \/ EncryptRound \/ DecryptBlock \/ DecryptRound \/ Done

CryptoSpec == CryptoInit /\ [][CryptoNext]_cryptoVars
-----------------------------------------------------------------------------
Returned == at = "idle"

(* Decrypting what was encrypted, and encrypting what was decrypted, gives *)
(* the array that it began with: the key schedule that is run backwards    *)
(* meets the one that is run forwards.                                     *)
DecryptInverts ==
  Returned /\ calls \in {<<"encrypt", "decrypt">>, <<"decrypt", "encrypt">>} =>
    data = original
=============================================================================
