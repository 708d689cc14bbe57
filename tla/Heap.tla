-------------------------------- MODULE Heap --------------------------------
(***************************************************************************)
(* tbx_heap.c: contexts allocate from one static buffer that only grows.   *)
(* The critical section is the lock that CritSectSingleCore implements;    *)
(* what a context computes outside of it, and each access inside, is a     *)
(* step of its own.                                                        *)
(***************************************************************************)
EXTENDS HeapArithmetic, FiniteSetsExt

CONSTANTS Contexts,
          NoContext,
          Sizes      \* the sizes that callers ask for

ASSUME CallerAssumption == /\ NoContext \notin Contexts
                           /\ Sizes \subseteq 1 .. SizeMod - 1

VARIABLES allocated,   \* tbxHeapAllocated
          holder,      \* the context inside the critical section
          pc,          \* pc[c]: where c is in TbxHeapAllocate or TbxHeapGetFree
          size,        \* the parameter
          wanted,      \* the local sizeWanted
          available,   \* the local sizeAvailable, or the result of GetFree
          result,      \* the local result of TbxHeapAllocate; -1 is NULL
          granted      \* history: the memory that callers were given

ctxVars == <<size, wanted, available, result>>
vars == <<allocated, holder, pc, ctxVars, granted>>

NULL == -1

Init == /\ allocated = 0
        /\ holder = NoContext
        /\ pc = [c \in Contexts |-> "idle"]
        /\ size = [c \in Contexts |-> 1]
        /\ wanted = [c \in Contexts |-> 0]
        /\ available = [c \in Contexts |-> 0]
        /\ result = [c \in Contexts |-> NULL]
        /\ granted = {}

Step(c, from, to) == pc[c] = from /\ pc' = [pc EXCEPT ![c] = to]

(* TbxCriticalSectionEnter and TbxCriticalSectionExit. *)
EnterSection(c) == holder = NoContext /\ holder' = c
ExitSection == holder' = NoContext
-----------------------------------------------------------------------------
(* Mutants: the actions below as a plausible mistake would have them.  No   *)
(* specification uses them; they show that the properties can fail.        *)

(* The critical section is not entered. *)
EnterUnprotected(c) ==
  /\ Step(c, "enter", "read")
  /\ UNCHANGED <<allocated, holder, ctxVars, granted>>

(* An exact fit is refused. *)
RefuseExactFit(c) ==
  /\ available[c] <= wanted[c]
  /\ Step(c, "test", "exit")
  /\ UNCHANGED <<allocated, holder, ctxVars, granted>>

(* One word too much is accepted. *)
TakeAddressOffByOne(c) ==
  /\ available[c] + WordSize >= wanted[c]
  /\ Step(c, "test", "bump")
  /\ result' = [result EXCEPT ![c] = allocated]
  /\ UNCHANGED <<allocated, holder, size, wanted, available, granted>>

(* The counter moves by the size that was not rounded up. *)
BumpUnrounded(c) ==
  /\ Step(c, "bump", "exit")
  /\ allocated' = (allocated + size[c]) % SizeMod
  /\ UNCHANGED <<holder, ctxVars, granted>>
-----------------------------------------------------------------------------
(* TbxHeapAllocate: round the size up, outside the critical section. *)
Call(c) == \E n \in Sizes :
  /\ Step(c, "idle", "enter")
  /\ size' = [size EXCEPT ![c] = n]
  /\ wanted' = [wanted EXCEPT ![c] = SizeWanted(n)]
  /\ result' = [result EXCEPT ![c] = NULL]
  /\ UNCHANGED <<allocated, holder, available, granted>>

Enter(c) ==
  /\ Step(c, "enter", "read")
  /\ EnterSection(c)
  /\ UNCHANGED <<allocated, ctxVars, granted>>

ReadAvailable(c) ==
  /\ Step(c, "read", "test")
  /\ available' = [available EXCEPT ![c] = SizeAvailable(allocated)]
  /\ UNCHANGED <<allocated, holder, size, wanted, result, granted>>

Refuse(c) ==
  /\ available[c] < wanted[c]
  /\ Step(c, "test", "exit")
  /\ UNCHANGED <<allocated, holder, ctxVars, granted>>

TakeAddress(c) ==
  /\ available[c] >= wanted[c]
  /\ Step(c, "test", "bump")
  /\ result' = [result EXCEPT ![c] = allocated]
  /\ UNCHANGED <<allocated, holder, size, wanted, available, granted>>

Bump(c) ==
  /\ Step(c, "bump", "exit")
  /\ allocated' = (allocated + wanted[c]) % SizeMod
  /\ UNCHANGED <<holder, ctxVars, granted>>

Exit(c) ==
  /\ Step(c, "exit", "return")
  /\ ExitSection
  /\ UNCHANGED <<allocated, ctxVars, granted>>

(* The caller has the pointer, or NULL. *)
Return(c) ==
  /\ Step(c, "return", "idle")
  /\ granted' = IF result[c] = NULL THEN granted
                ELSE granted \cup {[start |-> result[c], size |-> size[c], to |-> c]}
  /\ UNCHANGED <<allocated, holder, ctxVars>>
-----------------------------------------------------------------------------
(* TbxHeapGetFree *)
CallGetFree(c) ==
  /\ Step(c, "idle", "free")
  /\ EnterSection(c)
  /\ UNCHANGED <<allocated, ctxVars, granted>>

ReadFree(c) ==
  /\ Step(c, "free", "exitFree")
  /\ available' = [available EXCEPT ![c] = SizeAvailable(allocated)]
  /\ UNCHANGED <<allocated, holder, size, wanted, result, granted>>

ExitGetFree(c) ==
  /\ Step(c, "exitFree", "idle")
  /\ ExitSection
  /\ UNCHANGED <<allocated, ctxVars, granted>>
-----------------------------------------------------------------------------
Allocate(c) == \/ Call(c) \/ Enter(c) \/ ReadAvailable(c) \/ Refuse(c)
               \/ TakeAddress(c) \/ Bump(c) \/ Exit(c) \/ Return(c)
GetFree(c)  == CallGetFree(c) \/ ReadFree(c) \/ ExitGetFree(c)

Next == \E c \in Contexts : Allocate(c) \/ GetFree(c)

Spec == Init /\ [][Next]_vars
-----------------------------------------------------------------------------
Locations == {"idle", "enter", "read", "test", "bump", "exit", "return", "free", "exitFree"}

(* The types of the variables; the heap is never over-committed. *)
TypeOK ==
  /\ allocated \in 0 .. HeapSize
  /\ holder \in Contexts \cup {NoContext}
  /\ pc \in [Contexts -> Locations]
  /\ size \in [Contexts -> 1 .. SizeMod - 1]
  /\ wanted \in [Contexts -> 0 .. SizeMod - 1]
  /\ available \in [Contexts -> 0 .. HeapSize]
  /\ result \in [Contexts -> {NULL} \cup 0 .. HeapSize]
  /\ granted \subseteq [start : 0 .. HeapSize, size : 1 .. SizeMod - 1, to : Contexts]

(* Every pointer that TbxHeapAllocate returned leads to as many bytes of   *)
(* the buffer as its caller asked for, on a word boundary of the buffer.   *)
GrantsInHeap ==
  \A g \in granted : g.start + g.size <= allocated /\ g.start % WordSize = 0

(* No two callers were given the same byte.  (KeepsContract says so, too,  *)
(* of each grant when it is made.)                                         *)
GrantsDisjoint ==
  \A g, h \in granted : g # h => g.start + g.size <= h.start \/ h.start + h.size <= g.start

(* A request is refused only when the rest of the buffer is too small for  *)
(* it at that moment: what the context tests is not stale.                 *)
RefusedOnlyWhenFull ==
  [][\A c \in Contexts : Refuse(c) => HeapSize - allocated < SizeWanted(size[c])]_vars

(* No byte is lost: while no allocation is between its bump and its return *)
(* the counter is the sum of what was granted, rounded up to words.        *)
Accounted ==
  (\A c \in Contexts : pc[c] \notin {"exit", "return"})
    => allocated = MapThenSumSet(LAMBDA g : SizeWanted(g.size), granted)
-----------------------------------------------------------------------------
(* The heap keeps the allocator's contract. *)
Contract == INSTANCE MemoryContract WITH BufferSize <- HeapSize
KeepsContract == Contract!ContractSpec
=============================================================================
