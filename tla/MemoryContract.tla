--------------------------- MODULE MemoryContract ---------------------------
(***************************************************************************)
(* What an allocator promises: the memory it grants lies in its buffer and *)
(* belongs to nobody else until it is given back.  TbxHeapAllocate never   *)
(* takes memory back; the memory pools do.                                 *)
(***************************************************************************)
EXTENDS Integers

CONSTANTS BufferSize   \* the buffer's bytes are 0 .. BufferSize - 1

VARIABLE granted       \* the grants in force: [start |-> ..., size |-> ...]

Bytes(g) == g.start .. g.start + g.size - 1

ContractInit == granted = {}

(* The allocator returns a pointer: to bytes that nobody owns. *)
Grant(g) == /\ g.size > 0
            /\ Bytes(g) \subseteq 0 .. BufferSize - 1
            /\ \A h \in granted : Bytes(g) \cap Bytes(h) = {}
            /\ granted' = granted \cup {g}

(* The owner gives the memory back. *)
Return(g) == /\ g \in granted
             /\ granted' = granted \ {g}

ContractNext == \/ \E g \in granted' \ granted : Grant(g)
                \/ \E g \in granted \ granted' : Return(g)

ContractSpec == ContractInit /\ [][ContractNext]_granted
=============================================================================
