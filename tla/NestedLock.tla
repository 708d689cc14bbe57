----------------------------- MODULE NestedLock -----------------------------
(***************************************************************************)
(* What a critical section promises the code that uses it, independent of  *)
(* the port underneath: one context at a time is inside, the context that  *)
(* is inside may enter again, and it is out after as many exits as entries.*)
(* The ports' models implement this specification.                         *)
(***************************************************************************)
EXTENDS Naturals

CONSTANTS Contexts,   \* tasks, interrupt handlers, threads or cores
          NoContext,  \* "nobody is inside"; not one of the Contexts
          MaxNesting  \* bound on nested entries of one context

VARIABLES holder,     \* the context inside the critical section
          level       \* how many entries of the holder are still open

lockVars == <<holder, level>>

LockInit == /\ holder = NoContext
            /\ level = 0

(* The outermost TbxCriticalSectionEnter. *)
Acquire(c) == /\ holder = NoContext
              /\ holder' = c
              /\ level' = 1

(* A nested TbxCriticalSectionEnter. *)
Reenter(c) == /\ holder = c
              /\ level < MaxNesting
              /\ level' = level + 1
              /\ UNCHANGED holder

(* A TbxCriticalSectionExit that closes a nested entry. *)
Leave(c) == /\ holder = c
            /\ level > 1
            /\ level' = level - 1
            /\ UNCHANGED holder

(* The TbxCriticalSectionExit that closes the outermost entry. *)
Release(c) == /\ holder = c
              /\ level = 1
              /\ holder' = NoContext
              /\ level' = 0

LockNext == \E c \in Contexts : Acquire(c) \/ Reenter(c) \/ Leave(c) \/ Release(c)

LockSpec == LockInit /\ [][LockNext]_lockVars
=============================================================================
