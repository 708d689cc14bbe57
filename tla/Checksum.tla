------------------------------ MODULE Checksum ------------------------------
(***************************************************************************)
(* tbx_checksum.c: the CRC of an array of bytes, one bit at a time.        *)
(***************************************************************************)
EXTENDS Polynomials

(* The configuration; see the defaults in MCCalculations. *)
CONSTANTS Crc16Polynom, Crc16Initial,   \* TBX_CONF_CHECKSUM_CRC16_...
          Crc32Polynom, Crc32Initial,   \* TBX_CONF_CHECKSUM_CRC32_...
          MessageBytes,                 \* the bytes of messages, as words
          MaxMessage                    \* bound on the length of a message

ASSUME ChecksumAssumption ==
  /\ Crc16Polynom \in SUBSET (0 .. 15) /\ Crc16Initial \in SUBSET (0 .. 15)
  /\ Crc32Polynom \in SUBSET (0 .. 31) /\ Crc32Initial \in SUBSET (0 .. 31)
  /\ MessageBytes \subseteq Bytes
  /\ MaxMessage \in Nat

VARIABLE message  \* the array to calculate a checksum of
-----------------------------------------------------------------------------
(* Mutants; no specification uses them. *)

(* The bit that is shifted out is not looked at before the shift. *)
DivideAfterShift(remainder, width, polynom) ==
  LET shifted == ShiftLeft(remainder, width)
  IN IF width - 1 \in shifted THEN BitXor(shifted, polynom) ELSE shifted
-----------------------------------------------------------------------------
(* Attempts to divide the current bit. *)
DivideBit(remainder, width, polynom) ==
  LET shifted == ShiftLeft(remainder, width)
  IN IF width - 1 \in remainder THEN BitXor(shifted, polynom) ELSE shifted

(* Introduces the next byte into the remainder and divides its eight bits. *)
DivideByte(remainder, byte, width, polynom) ==
  LET divided[bits \in 0 .. 8] ==
        IF bits = 0 THEN BitXor(remainder, {b + width - 8 : b \in byte})
        ELSE DivideBit(divided[bits - 1], width, polynom)
  IN divided[8]

(* An empty array has no checksum: the result is zero. *)
Crc(data, width, polynom, initial) ==
  IF data = <<>> THEN {}
  ELSE FoldLeft(LAMBDA result, byte : DivideByte(result, byte, width, polynom), initial, data)

TbxChecksumCrc16Calculate(data) == Crc(data, 16, Crc16Polynom, Crc16Initial)
TbxChecksumCrc32Calculate(data) == Crc(data, 32, Crc32Polynom, Crc32Initial)
-----------------------------------------------------------------------------
(* The message, one byte longer. *)
Lengthen == /\ Len(message) < MaxMessage
            /\ \E byte \in MessageBytes : message' = Append(message, byte)

ChecksumInit == message = <<>>

ChecksumSpec == ChecksumInit /\ [][Lengthen]_message

(* The CRC16 and CRC32 of a message are the remainders of a division by    *)
(* their polynomials, whatever the length of the message: dividing bit by  *)
(* bit and byte by byte in a register that wraps loses nothing.            *)
CrcIsRemainder ==
  message # <<>> =>
    /\ TbxChecksumCrc16Calculate(message)
         = CrcOf(message, 16, Crc16Polynom, Crc16Initial)
    /\ TbxChecksumCrc32Calculate(message)
         = CrcOf(message, 32, Crc32Polynom, Crc32Initial)
=============================================================================
