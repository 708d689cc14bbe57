------------------------------ MODULE CritSect ------------------------------
(***************************************************************************)
(* tbx_critsect.c without the port underneath.  A context is whatever may  *)
(* call the library: a task, an interrupt handler, a core or a thread.     *)
(* A load of the counter that decides a store of either variable, and the  *)
(* store itself, are steps of their own.  The ports extend this module:    *)
(* their TbxPortInterruptsDisable takes a context from "run" to "test",    *)
(* their TbxPortInterruptsRestore from "exitTest" to "run".                *)
(***************************************************************************)
EXTENDS Naturals

CONSTANTS Contexts,
          NoContext,   \* "nobody is inside"
          MaxNesting   \* bound on the nested entries of one context

ASSUME SectionAssumption == /\ NoContext \notin Contexts
                            /\ MaxNesting \in Nat \ {0}

VARIABLES counter,   \* tbxCritSectNestingCounter
          savedSR,   \* tbxCritSectCpuSR; TRUE: interrupts were enabled
          pc,        \* pc[c]: where c is in Enter or Exit; "run" is in neither
          cpuSR,     \* the local variable cpuSR of TbxCriticalSectionEnter
          reg,       \* the CPU register of a load-modify-store of the counter
          depth      \* depth[c]: the caller's entries that are still open

sharedVars == <<counter, savedSR>>
sectVars   == <<sharedVars, pc, cpuSR, reg, depth>>

SectInit == /\ counter = 0
            /\ savedSR = FALSE
            /\ pc = [c \in Contexts |-> "run"]
            /\ cpuSR = [c \in Contexts |-> FALSE]
            /\ reg = [c \in Contexts |-> 0]
            /\ depth = [c \in Contexts |-> 0]

Goto(c, from, to) == pc[c] = from /\ pc' = [pc EXCEPT ![c] = to]
-----------------------------------------------------------------------------
(* Mutants: actions as a plausible mistake would have them.  No            *)
(* specification uses them; they show that the properties can fail.        *)

(* Nested entries overwrite the status register, too. *)
TestMissing(c) ==
  /\ Goto(c, "test", "latch")
  /\ UNCHANGED <<sharedVars, cpuSR, reg, depth>>

(* The exit forgets to decrement the counter. *)
StoreDownMissing(c) ==
  /\ Goto(c, "exitStore", "exitTest")
  /\ UNCHANGED <<sharedVars, cpuSR, reg, depth>>

(* The counter is treated as a flag. *)
StoreDownToZero(c) ==
  /\ Goto(c, "exitStore", "exitTest")
  /\ counter' = 0
  /\ UNCHANGED <<savedSR, cpuSR, reg, depth>>
-----------------------------------------------------------------------------
(* TbxCriticalSectionEnter, after TbxPortInterruptsDisable *)

(* Is this the first entry, as opposed to a nested one? *)
TestFirst(c) ==
  /\ Goto(c, "test", IF counter = 0 THEN "latch" ELSE "load")
  /\ UNCHANGED <<sharedVars, cpuSR, reg, depth>>

(* The first entry keeps the status register for the last exit. *)
Latch(c) ==
  /\ Goto(c, "latch", "load")
  /\ savedSR' = cpuSR[c]
  /\ UNCHANGED <<counter, cpuSR, reg, depth>>

LoadUp(c) ==
  /\ Goto(c, "load", "store")
  /\ reg' = [reg EXCEPT ![c] = counter]
  /\ UNCHANGED <<sharedVars, cpuSR, depth>>

StoreUp(c) ==
  /\ Goto(c, "store", "run")
  /\ counter' = reg[c] + 1
  /\ depth' = [depth EXCEPT ![c] = @ + 1]
  /\ UNCHANGED <<savedSR, cpuSR, reg>>

CountUp(c) == TestFirst(c) \/ Latch(c) \/ LoadUp(c) \/ StoreUp(c)
-----------------------------------------------------------------------------
(* TbxCriticalSectionExit, before TbxPortInterruptsRestore; its callers    *)
(* call it once per Enter                                                  *)

(* The assertion and the guard on the counter; the default assertion       *)
(* handler never returns.                                                  *)
CheckCounter(c) ==
  /\ depth[c] > 0
  /\ Goto(c, "run", IF counter > 0 THEN "exitLoad" ELSE "assertFailed")
  /\ UNCHANGED <<sharedVars, cpuSR, reg, depth>>

LoadDown(c) ==
  /\ Goto(c, "exitLoad", "exitStore")
  /\ reg' = [reg EXCEPT ![c] = counter]
  /\ UNCHANGED <<sharedVars, cpuSR, depth>>

StoreDown(c) ==
  /\ Goto(c, "exitStore", "exitTest")
  /\ counter' = reg[c] - 1
  /\ UNCHANGED <<savedSR, cpuSR, reg, depth>>

(* Exit returns to its caller; one entry less is open. *)
Return(c) ==
  /\ Goto(c, "exitTest", "run")
  /\ depth' = [depth EXCEPT ![c] = @ - 1]
  /\ UNCHANGED <<sharedVars, cpuSR, reg>>

(* A nested exit only closes one level.  The final one calls the port,     *)
(* which may have nothing to restore.                                      *)
ExitNested(c, nothingToRestore) == /\ counter # 0 \/ nothingToRestore
                                   /\ Return(c)

CountDown(c, nothingToRestore) ==
  CheckCounter(c) \/ LoadDown(c) \/ StoreDown(c) \/ ExitNested(c, nothingToRestore)

(* The exit that a caller owes while n of its entries are open. *)
CloseEntry(c, n) == depth[c] = n /\ CheckCounter(c)
-----------------------------------------------------------------------------
SectLocations == {"run", "test", "latch", "load", "store",
                  "exitLoad", "exitStore", "exitTest", "assertFailed"}

(* The types, with the locations that a port adds; the counter never       *)
(* exceeds the nesting of one context.                                     *)
SectTypeOK(portLocations) ==
  /\ counter \in 0 .. MaxNesting
  /\ savedSR \in BOOLEAN
  /\ pc \in [Contexts -> SectLocations \cup portLocations]
  /\ cpuSR \in [Contexts -> BOOLEAN]
  /\ reg \in [Contexts -> 0 .. MaxNesting]
  /\ depth \in [Contexts -> 0 .. MaxNesting]

(* c owns the critical section: from the return of the outermost           *)
(* TbxPortInterruptsDisable to the end of the outermost Exit.              *)
InSection(c) == depth[c] > 0 \/ pc[c] \in {"test", "latch", "load", "store"}

(* No two contexts are inside the critical section: what every other       *)
(* component of the library builds on.                                     *)
MutualExclusion ==
  \A c, d \in Contexts : InSection(c) /\ InSection(d) => c = d

(* The assertions of TbxCriticalSectionExit and of the port never fail for *)
(* callers that pair their calls, however the contexts interleave.         *)
AssertHolds == \A c \in Contexts : pc[c] # "assertFailed"

(* The counter counts the open entries of whoever is inside, and outside a *)
(* critical section it is zero again, so that the next outermost entry     *)
(* latches the status register.                                            *)
CounterTracksNesting ==
  /\ \A c \in Contexts : pc[c] = "run" /\ depth[c] > 0 => counter = depth[c]
  /\ (\A c \in Contexts : ~InSection(c)) => counter = 0
-----------------------------------------------------------------------------
(* The refinement: the lock's holder is the context whose entries are open.*)
OpenIn == {c \in Contexts : depth[c] > 0}
Holder == IF OpenIn = {} THEN NoContext ELSE CHOOSE c \in OpenIn : TRUE
Level  == IF OpenIn = {} THEN 0 ELSE depth[Holder]

Lock == INSTANCE NestedLock WITH holder <- Holder, level <- Level

(* Enter and Exit on top of a port implement the nested lock. *)
ImplementsLock == Lock!LockSpec
=============================================================================
