---------------------------- MODULE CritSectLinux ---------------------------
(***************************************************************************)
(* Critical sections on the LINUX port: the contexts are threads.  An      *)
(* atomic flag stands for the interrupt enable state, and the thread that  *)
(* set it locks a mutex.                                                   *)
(***************************************************************************)
EXTENDS CritSect

VARIABLES flag,        \* interruptsDisabledFlag
          mutex        \* critSectMutex: the thread that locked it, or NoContext

vars == <<sectVars, flag, mutex>>

Init == /\ SectInit
        /\ flag = FALSE
        /\ mutex = NoContext

(* A step of TbxPortInterruptsDisable or TbxPortInterruptsRestore. *)
PortStep(c, from, to) == Goto(c, from, to) /\ UNCHANGED <<sharedVars, reg>>
-----------------------------------------------------------------------------
(* TbxPortInterruptsDisable *)

(* A thread that finds the flag set goes on without the mutex. *)
TestAndSet(c) ==
  /\ depth[c] < MaxNesting
  /\ PortStep(c, "run", IF flag THEN "test" ELSE "lockMutex")
  /\ flag' = TRUE
  /\ cpuSR' = [cpuSR EXCEPT ![c] = FALSE]
  /\ UNCHANGED <<mutex, depth>>

LockMutex(c) ==
  /\ PortStep(c, "lockMutex", "test")
  /\ mutex = NoContext
  /\ mutex' = c
  /\ cpuSR' = [cpuSR EXCEPT ![c] = TRUE]
  /\ UNCHANGED <<flag, depth>>
-----------------------------------------------------------------------------
(* TbxPortInterruptsRestore *)

(* The mutex is unlocked first and the flag cleared afterwards.  *)
UnlockMutex(c) ==
  /\ counter = 0
  /\ savedSR
  /\ PortStep(c, "exitTest", "clearFlag")
  /\ mutex' = NoContext
  /\ UNCHANGED <<flag, cpuSR, depth>>

ClearFlag(c) ==
  /\ PortStep(c, "clearFlag", "run")
  /\ flag' = FALSE
  /\ depth' = [depth EXCEPT ![c] = @ - 1]
  /\ UNCHANGED <<mutex, cpuSR>>
-----------------------------------------------------------------------------
(* The steps of tbx_critsect.c leave the port's state alone. *)
Enter(c) == \/ TestAndSet(c) \/ LockMutex(c)
            \/ CountUp(c) /\ UNCHANGED <<flag, mutex>>

Exit(c)  == \/ CountDown(c, ~savedSR) /\ UNCHANGED <<flag, mutex>>
            \/ UnlockMutex(c) \/ ClearFlag(c)

Next == \E c \in Contexts : Enter(c) \/ Exit(c)

Spec == Init /\ [][Next]_vars
=============================================================================
