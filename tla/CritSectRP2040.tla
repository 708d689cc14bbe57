--------------------------- MODULE CritSectRP2040 ---------------------------
(***************************************************************************)
(* Critical sections on the multicore RP2040 port: the cores share the     *)
(* nesting counter, the saved status register and one hardware spin lock,  *)
(* which the first TbxPortInterruptsDisable claims.  Every core runs its   *)
(* main program, named as the core, and nested interrupt handlers.         *)
(***************************************************************************)
EXTENDS CritSect

CONSTANTS Cores,
          BootCore,    \* the core that runs first and launches the others
          IsrCore,     \* IsrCore[i]: the core that handler i is enabled on
          Locks,       \* the hardware spin locks that nobody else has claimed
          NoLock,      \* spinLock == NULL
          InitFirst    \* TRUE: the application enters a critical section before it
                       \* enables interrupts or launches another core

Isrs == Contexts \ Cores

ASSUME MulticoreAssumption == /\ Cores \subseteq Contexts
                              /\ BootCore \in Cores
                              /\ IsrCore \in [Isrs -> Cores]
                              /\ NoLock \notin Locks
                              /\ InitFirst \in BOOLEAN

VARIABLES irqEnabled,      \* irqEnabled[k]: PRIMASK of core k
          initialized,     \* spinLockInitialized
          spinLock,        \* the spin lock handle
          coreHasLock,
          claimed,         \* the spin locks that were claimed
          locked,          \* the spin locks that are taken
          running,         \* running[k]: the context that core k executes
          active,          \* the interrupt handlers that did not return yet
          interrupted,     \* interrupted[i]: what handler i returns to
          launched,        \* the cores that were started
          lock,            \* the spin lock that c claims or takes
          entrySR          \* history: interrupt state when c's outermost Enter began

hwVars   == <<running, active, interrupted, launched>>
initVars == <<initialized, spinLock, claimed>>
portVars == <<initVars, coreHasLock, locked>>
vars     == <<sectVars, portVars, hwVars, irqEnabled, lock, entrySR>>

CoreOf(c) == IF c \in Cores THEN c ELSE IsrCore[c]      \* get_core_num

Init == /\ SectInit
        /\ irqEnabled = [k \in Cores |-> ~(InitFirst /\ k = BootCore)]
        /\ initialized = FALSE /\ spinLock = NoLock
        /\ coreHasLock = [k \in Cores |-> FALSE]
        /\ claimed = {} /\ locked = {}
        /\ running = [k \in Cores |-> k]
        /\ active = {}
        /\ interrupted = [i \in Isrs |-> NoContext]
        /\ launched = {BootCore}
        /\ lock = [c \in Contexts |-> NoLock]
        /\ entrySR = [c \in Contexts |-> FALSE]

(* c has its core for its step ... *)
Executes(c) == /\ running[CoreOf(c)] = c
               /\ CoreOf(c) \in launched
               /\ UNCHANGED hwVars

(* ... which is one of TbxPortInterruptsDisable or TbxPortInterruptsRestore. *)
PortStep(c, from, to) == Executes(c) /\ Goto(c, from, to) /\ UNCHANGED <<sharedVars, reg>>
-----------------------------------------------------------------------------
(* Mutants, which no specification uses. *)

(* The initialisation is not remembered. *)
SetInitMissing(c) ==
  /\ PortStep(c, "setInit", "clearFlags")
  /\ UNCHANGED <<irqEnabled, portVars, cpuSR, lock, depth, entrySR>>

(* One flag for all cores instead of one for each. *)
CheckLockOneFlag(c) ==
  /\ PortStep(c, "checkLock",
       IF spinLock # NoLock /\ ~\E k \in Cores : coreHasLock[k] THEN "spinMask" ELSE "test")
  /\ cpuSR' = [cpuSR EXCEPT ![c] = FALSE]
  /\ lock' = [lock EXCEPT ![c] = spinLock]
  /\ UNCHANGED <<irqEnabled, portVars, depth, entrySR>>

(* Nested entries take the lock again. *)
CheckLockAlways(c) ==
  /\ PortStep(c, "checkLock", IF spinLock # NoLock THEN "spinMask" ELSE "test")
  /\ cpuSR' = [cpuSR EXCEPT ![c] = FALSE]
  /\ lock' = [lock EXCEPT ![c] = spinLock]
  /\ UNCHANGED <<irqEnabled, portVars, depth, entrySR>>

(* spin_lock_unsafe_blocking: take the lock without masking interrupts. *)
SpinUnmasked(c) ==
  /\ PortStep(c, "spinMask", "spin")
  /\ cpuSR' = [cpuSR EXCEPT ![c] = irqEnabled[CoreOf(c)]]
  /\ UNCHANGED <<irqEnabled, portVars, lock, depth, entrySR>>

(* The core's flag is not reset. *)
ClearFlagMissing(c) ==
  /\ counter = 0
  /\ spinLock # NoLock
  /\ PortStep(c, "exitTest", "unlock")
  /\ cpuSR' = [cpuSR EXCEPT ![c] = savedSR]
  /\ UNCHANGED <<irqEnabled, portVars, lock, depth, entrySR>>
-----------------------------------------------------------------------------
(* TbxPortInterruptsDisable *)

CheckInit(c) ==
  /\ depth[c] < MaxNesting
  /\ PortStep(c, "run", IF initialized THEN "checkLock" ELSE "setInit")
  /\ entrySR' = [entrySR EXCEPT ![c] = IF depth[c] = 0 THEN irqEnabled[CoreOf(c)] ELSE @]
  /\ UNCHANGED <<irqEnabled, portVars, cpuSR, lock, depth>>

SetInit(c) ==
  /\ PortStep(c, "setInit", "clearFlags")
  /\ initialized' = TRUE
  /\ UNCHANGED <<irqEnabled, spinLock, claimed, coreHasLock, locked, cpuSR, lock, depth, entrySR>>

ClearFlags(c) ==
  /\ PortStep(c, "clearFlags", "claim")
  /\ coreHasLock' = [k \in Cores |-> FALSE]
  /\ UNCHANGED <<irqEnabled, initVars, locked, cpuSR, lock, depth, entrySR>>

(* spin_lock_claim_unused; without a free lock the assertion fails. *)
Claim(c) ==
  \E l \in IF Locks \subseteq claimed THEN {NoLock} ELSE Locks \ claimed :
    /\ PortStep(c, "claim", IF l = NoLock THEN "assertFailed" ELSE "assign")
    /\ claimed' = claimed \cup ({l} \ {NoLock})
    /\ lock' = [lock EXCEPT ![c] = l]
    /\ UNCHANGED <<irqEnabled, initialized, spinLock, coreHasLock, locked, cpuSR, depth, entrySR>>

Assign(c) ==
  /\ PortStep(c, "assign", "checkLock")
  /\ spinLock' = lock[c]
  /\ UNCHANGED <<irqEnabled, initialized, claimed, coreHasLock, locked, cpuSR, lock, depth, entrySR>>

(* Only a core that does not have the lock yet takes it; the result is 0   *)
(* otherwise.                                                              *)
CheckLock(c) ==
  /\ PortStep(c, "checkLock",
       IF spinLock # NoLock /\ ~coreHasLock[CoreOf(c)] THEN "spinMask" ELSE "test")
  /\ cpuSR' = [cpuSR EXCEPT ![c] = FALSE]
  /\ lock' = [lock EXCEPT ![c] = spinLock]
  /\ UNCHANGED <<irqEnabled, portVars, depth, entrySR>>

(* spin_lock_blocking: save and disable the core's interrupts, then spin. *)
SpinMask(c) ==
  /\ PortStep(c, "spinMask", "spin")
  /\ cpuSR' = [cpuSR EXCEPT ![c] = irqEnabled[CoreOf(c)]]
  /\ irqEnabled' = [irqEnabled EXCEPT ![CoreOf(c)] = FALSE]
  /\ UNCHANGED <<portVars, lock, depth, entrySR>>

SpinTake(c) ==
  /\ PortStep(c, "spin", "setFlag")
  /\ lock[c] \notin locked
  /\ locked' = locked \cup {lock[c]}
  /\ UNCHANGED <<irqEnabled, initVars, coreHasLock, cpuSR, lock, depth, entrySR>>

SetFlag(c) ==
  /\ PortStep(c, "setFlag", "test")
  /\ coreHasLock' = [coreHasLock EXCEPT ![CoreOf(c)] = TRUE]
  /\ UNCHANGED <<irqEnabled, initVars, locked, cpuSR, lock, depth, entrySR>>
-----------------------------------------------------------------------------
(* TbxPortInterruptsRestore *)

(* Exit passes the saved status register to the port. *)
ClearFlag(c) ==
  /\ counter = 0
  /\ spinLock # NoLock
  /\ PortStep(c, "exitTest", "unlock")
  /\ cpuSR' = [cpuSR EXCEPT ![c] = savedSR]
  /\ coreHasLock' = [coreHasLock EXCEPT ![CoreOf(c)] = FALSE]
  /\ UNCHANGED <<irqEnabled, initVars, locked, lock, depth, entrySR>>

(* spin_unlock: give the lock back, then restore the core's interrupts. *)
Unlock(c) ==
  /\ PortStep(c, "unlock", "restore")
  /\ locked' = locked \ {spinLock}
  /\ depth' = [depth EXCEPT ![c] = @ - 1]
  /\ UNCHANGED <<irqEnabled, initVars, coreHasLock, cpuSR, lock, entrySR>>

Restore(c) ==
  /\ PortStep(c, "restore", "run")
  /\ irqEnabled' = [irqEnabled EXCEPT ![CoreOf(c)] = cpuSR[c]]
  /\ UNCHANGED <<portVars, cpuSR, lock, depth, entrySR>>
-----------------------------------------------------------------------------
(* The steps of tbx_critsect.c leave the port's state alone. *)
Enter(c) == \/ CheckInit(c) \/ SetInit(c) \/ ClearFlags(c) \/ Claim(c) \/ Assign(c)
            \/ CheckLock(c) \/ SpinMask(c) \/ SpinTake(c) \/ SetFlag(c)
            \/ Executes(c) /\ CountUp(c) /\ UNCHANGED <<irqEnabled, portVars, lock, entrySR>>

Exit(c)  == \/ Executes(c) /\ CountDown(c, spinLock = NoLock)
                           /\ UNCHANGED <<irqEnabled, portVars, lock, entrySR>>
            \/ ClearFlag(c) \/ Unlock(c) \/ Restore(c)
-----------------------------------------------------------------------------
(* The cores and the rest of the application *)

Ready == InitFirst => spinLock # NoLock

(* Code outside critical sections may mask and unmask interrupts itself. *)
AppToggle(c) ==
  /\ Ready
  /\ Executes(c)
  /\ pc[c] = "run"
  /\ depth[c] = 0
  /\ irqEnabled' = [irqEnabled EXCEPT ![CoreOf(c)] = ~@]
  /\ UNCHANGED <<sectVars, portVars, lock, entrySR>>

Launch(k) ==
  /\ Ready
  /\ k \notin launched
  /\ launched' = launched \cup {k}
  /\ pc[BootCore] = "run"
  /\ UNCHANGED <<sectVars, portVars, running, active, interrupted, irqEnabled, lock, entrySR>>

TakeInterrupt(i) ==
  /\ CoreOf(i) \in launched
  /\ irqEnabled[CoreOf(i)]
  /\ i \notin active
  /\ active' = active \cup {i}
  /\ interrupted' = [interrupted EXCEPT ![i] = running[CoreOf(i)]]
  /\ running' = [running EXCEPT ![CoreOf(i)] = i]
  /\ UNCHANGED <<sectVars, portVars, launched, irqEnabled, lock, entrySR>>

ReturnFromInterrupt(i) ==
  /\ running[CoreOf(i)] = i
  /\ pc[i] = "run"
  /\ depth[i] = 0
  /\ irqEnabled[CoreOf(i)]
  /\ running' = [running EXCEPT ![CoreOf(i)] = interrupted[i]]
  /\ active' = active \ {i}
  /\ UNCHANGED <<sectVars, portVars, interrupted, launched, irqEnabled, lock, entrySR>>
-----------------------------------------------------------------------------
Next == \/ \E c \in Contexts : Enter(c) \/ Exit(c) \/ AppToggle(c)
        \/ \E k \in Cores : Launch(k)
        \/ \E i \in Isrs : TakeInterrupt(i) \/ ReturnFromInterrupt(i)

Spec == Init /\ [][Next]_vars
-----------------------------------------------------------------------------
PortLocations == {"setInit", "clearFlags", "claim", "assign", "checkLock",
                  "spinMask", "spin", "setFlag", "unlock", "restore"}

(* The types of the variables. *)
TypeOK ==
  /\ SectTypeOK(PortLocations)
  /\ irqEnabled \in [Cores -> BOOLEAN]
  /\ initialized \in BOOLEAN
  /\ spinLock \in Locks \cup {NoLock}
  /\ coreHasLock \in [Cores -> BOOLEAN]
  /\ claimed \subseteq Locks /\ locked \subseteq Locks
  /\ running \in [Cores -> Contexts]
  /\ active \subseteq Isrs /\ launched \subseteq Cores
  /\ interrupted \in [Isrs -> Contexts \cup {NoContext}]
  /\ lock \in [Contexts -> Locks \cup {NoLock}]
  /\ entrySR \in [Contexts -> BOOLEAN]

(* A core whose coreHasLock flag is set is inside and the lock is taken:   *)
(* a nested entry that skips the lock is always covered by it.             *)
FlagTracksLock ==
  \A k \in Cores : coreHasLock[k] =>
    /\ spinLock \in locked
    /\ \E c \in Contexts : CoreOf(c) = k /\ InSection(c)

(* A core never spins on the lock while a context of the same core is      *)
(* inside: the deadlock that the comment in the port warns of.             *)
NoSelfDeadlock ==
  \A c, d \in Contexts :
    pc[c] \in {"spinMask", "spin"} /\ running[CoreOf(c)] = c /\ InSection(d)
      => CoreOf(d) # CoreOf(c)

(* Although the cores share tbxCritSectCpuSR, the core that leaves gets its *)
(* own interrupt state back, as it was when its outermost Enter was called. *)
LeavesStateAsFound ==
  [][\A c \in Contexts : pc[c] = "restore" /\ pc'[c] = "run"
        => irqEnabled'[CoreOf(c)] = entrySR[c]]_vars
=============================================================================
