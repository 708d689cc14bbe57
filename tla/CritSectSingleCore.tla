------------------------- MODULE CritSectSingleCore -------------------------
(***************************************************************************)
(* Critical sections on the single-core ports (ARM_CORTEXM, AVR).  Tasks   *)
(* of a pre-emptive scheduler and nested interrupt handlers share one CPU: *)
(* while interrupts are enabled, anything may run between two steps.       *)
(***************************************************************************)
EXTENDS CritSect

CONSTANTS Tasks,       \* tasks of the scheduler; a bare-metal main loop is one task
          EntryMasks   \* TRUE: the CPU masks interrupts when it takes one and
                       \* unmasks on return (AVR); FALSE: it does not (Cortex-M)

ASSUME CoreAssumption == /\ Tasks # {}
                         /\ Tasks \subseteq Contexts
                         /\ EntryMasks \in BOOLEAN

Isrs == Contexts \ Tasks

VARIABLES irqEnabled,   \* the CPU's interrupt enable state (PRIMASK, SREG.I)
          running,      \* the context that owns the CPU
          active,       \* the interrupt handlers that were taken and did not return
          interrupted,  \* interrupted[i]: what handler i returns to
          entrySR       \* history: interrupt state when c's outermost Enter began

hwVars == <<running, active, interrupted>>
vars   == <<sectVars, irqEnabled, hwVars, entrySR>>

Init == /\ SectInit
        /\ irqEnabled \in BOOLEAN      \* start-up code may still have them masked
        /\ running \in Tasks
        /\ active = {}
        /\ interrupted = [i \in Isrs |-> NoContext]
        /\ entrySR = [c \in Contexts |-> FALSE]

(* c has the CPU for its step. *)
Executes(c) == running = c /\ UNCHANGED hwVars
-----------------------------------------------------------------------------
(* Mutants, which no specification uses. *)

(* The status register is not read. *)
ReadSRMissing(c) ==
  /\ Executes(c)
  /\ depth[c] < MaxNesting
  /\ Goto(c, "run", "mask")
  /\ entrySR' = [entrySR EXCEPT ![c] = IF depth[c] = 0 THEN irqEnabled ELSE @]
  /\ UNCHANGED <<irqEnabled, sharedVars, cpuSR, reg, depth>>

(* The CPU instruction that masks the interrupts is missing. *)
MaskMissing(c) ==
  /\ Executes(c)
  /\ Goto(c, "mask", "test")
  /\ UNCHANGED <<irqEnabled, entrySR, sharedVars, cpuSR, reg, depth>>

(* Nested exits restore the interrupts, too. *)
RestoreAlways(c) ==
  /\ Executes(c)
  /\ Return(c)
  /\ irqEnabled' = savedSR
  /\ UNCHANGED entrySR
-----------------------------------------------------------------------------
(* TbxPortInterruptsDisable: read the status register ... *)
ReadSR(c) ==
  /\ Executes(c)
  /\ depth[c] < MaxNesting
  /\ Goto(c, "run", "mask")
  /\ cpuSR' = [cpuSR EXCEPT ![c] = irqEnabled]
  /\ entrySR' = [entrySR EXCEPT ![c] = IF depth[c] = 0 THEN irqEnabled ELSE @]
  /\ UNCHANGED <<irqEnabled, sharedVars, reg, depth>>

(* ... and mask the interrupts. *)
Mask(c) ==
  /\ Executes(c)
  /\ Goto(c, "mask", "test")
  /\ irqEnabled' = FALSE
  /\ UNCHANGED <<entrySR, sharedVars, cpuSR, reg, depth>>

(* TbxPortInterruptsRestore, called by the final exit. *)
Restore(c) ==
  /\ Executes(c)
  /\ counter = 0
  /\ Return(c)
  /\ irqEnabled' = savedSR
  /\ UNCHANGED entrySR

(* The steps of tbx_critsect.c leave the CPU's state alone. *)
Enter(c) ==
  \/ ReadSR(c)
  \/ Mask(c)
  \/ Executes(c) /\ CountUp(c) /\ UNCHANGED <<irqEnabled, entrySR>>

Exit(c) ==
  \/ Executes(c) /\ CountDown(c, FALSE) /\ UNCHANGED <<irqEnabled, entrySR>>
  \/ Restore(c)
-----------------------------------------------------------------------------
(* The CPU, the scheduler and the rest of the application *)

(* Code outside critical sections may mask and unmask interrupts itself. *)
AppToggle(c) ==
  /\ Executes(c)
  /\ pc[c] = "run"
  /\ depth[c] = 0
  /\ irqEnabled' = ~irqEnabled
  /\ UNCHANGED <<sectVars, entrySR>>

(* The CPU takes interrupt i, between any two steps of what was running. *)
TakeInterrupt(i) ==
  /\ irqEnabled
  /\ i \notin active
  /\ active' = active \cup {i}
  /\ interrupted' = [interrupted EXCEPT ![i] = running]
  /\ running' = i
  /\ irqEnabled' = (irqEnabled /\ ~EntryMasks)
  /\ UNCHANGED <<sectVars, entrySR>>

(* Handler i returns: outside any critical section, and with interrupts as *)
(* the CPU gave them to it.                                                *)
ReturnFromInterrupt(i) ==
  /\ running = i
  /\ pc[i] = "run"
  /\ depth[i] = 0
  /\ EntryMasks \/ irqEnabled
  /\ running' = interrupted[i]
  /\ active' = active \ {i}
  /\ irqEnabled' = TRUE
  /\ UNCHANGED <<sectVars, interrupted, entrySR>>

(* The scheduler runs as an interrupt of its own, so only with interrupts  *)
(* enabled, and switches tasks when no other handler is active.            *)
SwitchTask(t) ==
  /\ irqEnabled
  /\ active = {}
  /\ t # running
  /\ running' = t
  /\ UNCHANGED <<sectVars, irqEnabled, active, interrupted, entrySR>>
-----------------------------------------------------------------------------
Next == \/ \E c \in Contexts : Enter(c) \/ Exit(c) \/ AppToggle(c)
        \/ \E i \in Isrs : TakeInterrupt(i) \/ ReturnFromInterrupt(i)
        \/ \E t \in Tasks : SwitchTask(t)

Spec == Init /\ [][Next]_vars

(* The CPU does not stop inside Enter or Exit, and a caller eventually     *)
(* follows each entry by the exit that closes it, as the comment of        *)
(* TbxCriticalSectionEnter demands.                                        *)
Fairness == \A c \in Contexts :
  /\ WF_vars(Enter(c) /\ pc[c] # "run")
  /\ WF_vars(Exit(c) /\ pc[c] # "run")
  /\ \A n \in 1 .. MaxNesting : SF_vars(CloseEntry(c, n) /\ Exit(c))

FairSpec == Spec /\ Fairness
-----------------------------------------------------------------------------
(* The types of the variables. *)
TypeOK ==
  /\ SectTypeOK({"mask"})
  /\ irqEnabled \in BOOLEAN
  /\ running \in Contexts
  /\ active \in SUBSET Isrs
  /\ interrupted \in [Isrs -> Contexts \cup {NoContext}]
  /\ \A i \in active : interrupted[i] \in Contexts
  /\ entrySR \in [Contexts -> BOOLEAN]

(* The status register that Enter read is still the CPU's state when it    *)
(* masks the interrupts, although anything may run in between.             *)
SnapshotFresh ==
  \A c \in Contexts : running = c /\ pc[c] = "mask" => cpuSR[c] = irqEnabled

(* A step that leaves the critical section puts the interrupt state back   *)
(* to what it was when the same context's outermost Enter was called.      *)
LeavesStateAsFound ==
  [][\A c \in Contexts : InSection(c) /\ ~InSection(c)' => irqEnabled' = entrySR[c]]_vars

(* A critical section entered with interrupts enabled enables them again:  *)
(* interrupts are not masked for ever.                                     *)
InterruptsComeBack ==
  \A c \in Contexts : (InSection(c) /\ entrySR[c]) ~> irqEnabled
=============================================================================
