--------------------------- MODULE HeapArithmetic ---------------------------
(***************************************************************************)
(* The size computations of tbx_heap.c, in size_t arithmetic.  The heap    *)
(* and the memory pools, which allocate from it, share them.               *)
(***************************************************************************)
EXTENDS Integers

CONSTANTS HeapSize,   \* TBX_CONF_HEAP_SIZE
          WordSize,   \* sizeof(void *)
          SizeMod     \* size_t counts modulo SizeMod, a multiple of the word

ASSUME HeapAssumption == /\ HeapSize \in Nat
                         /\ WordSize \in Nat \ {0}
                         /\ SizeMod \in Nat
                         /\ HeapSize + WordSize < SizeMod
                         /\ SizeMod % WordSize = 0

(* Mutants: the size rounded down to whole words; the counter moved although *)
(* the request was refused.  No specification uses them.                     *)
SizeWantedDown(size) == size - (size % WordSize)
AfterAllocateAnyway(allocated, size) == allocated + SizeWantedDown(size + WordSize)

(* sizeWanted: the size rounded up to whole words. *)
SizeWanted(size) ==
  LET sum == (size + (WordSize - 1)) % SizeMod
  IN  sum - (sum % WordSize)

(* sizeAvailable, when so many bytes are allocated. *)
SizeAvailable(allocated) == (HeapSize - allocated) % SizeMod

Fits(allocated, size) == SizeAvailable(allocated) >= SizeWanted(size)

(* tbxHeapAllocated after TbxHeapAllocate(size), successful or not. *)
AfterAllocate(allocated, size) ==
  IF Fits(allocated, size) THEN allocated + SizeWanted(size) ELSE allocated
=============================================================================
