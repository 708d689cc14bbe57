------------------------ MODULE CritSectRP2040Proofs ------------------------
(***************************************************************************)
(* Proofs about CritSectRP2040 for any number of cores, handlers and spin  *)
(* locks and any nesting bound, when the application enters one critical   *)
(* section before anything can run in parallel (InitFirst).                *)
(***************************************************************************)
EXTENDS CritSectRP2040, Integers, TLAPS

Setup == {"setInit", "clearFlags", "claim", "assign", "assertFailed"}

(* Until the handle of the spin lock is set nothing but the boot core's    *)
(* main program has run, and it is in its first Enter.                     *)
StartInv ==
  spinLock = NoLock =>
    /\ irqEnabled[BootCore] = FALSE
    /\ launched = {BootCore} /\ active = {}
    /\ \A c \in Contexts : /\ depth[c] = 0
                           /\ pc[c] \in IF c = BootCore THEN {"run"} \cup Setup ELSE {"run"}
    /\ initialized <=> pc[BootCore] \notin {"run", "setInit"}
    /\ pc[BootCore] # "assign" => claimed = {}
    /\ pc[BootCore] = "assign" => lock[BootCore] # NoLock
    /\ pc[BootCore] = "assertFailed" => Locks = {}

(* Afterwards nobody sets it up again. *)
ReadyInv == spinLock # NoLock => /\ initialized
                                 /\ \A c \in Contexts : pc[c] \notin Setup

(* On each core the interrupt handlers form a stack whose top runs; nothing *)
(* ran yet on a core that was not launched.                                 *)
StackInv ==
  /\ \A k \in Cores : CoreOf(running[k]) = k /\ running[k] \in Cores \cup active
  /\ \A i \in active : /\ interrupted[i] \in Cores \cup active
                       /\ CoreOf(interrupted[i]) = CoreOf(i)
                       /\ interrupted[i] # running[CoreOf(i)]
  /\ \A i, j \in active : interrupted[i] = interrupted[j] => i = j
  /\ \A i \in Isrs \ active : pc[i] = "run"
  /\ \A c \in Contexts : CoreOf(c) \notin launched => pc[c] = "run" /\ c \notin active

(* c has the spin lock: from its turn in SpinTake to the end of Unlock. *)
HasLock(c) == depth[c] > 0 \/ pc[c] \in {"setFlag", "test", "latch", "load", "store"}

(* The spin lock has one owner, which runs and has its core's interrupts   *)
(* masked; the flag of a core tells whether the owner is there.            *)
LockInv ==
  /\ locked \subseteq {spinLock}
  /\ \A c \in Contexts : HasLock(c) => spinLock \in locked
  /\ \A c, d \in Contexts : HasLock(c) /\ HasLock(d) => c = d
  /\ spinLock \notin locked => counter = 0
  /\ \A k \in Cores : coreHasLock[k] <=> /\ HasLock(running[k])
                                        /\ pc[running[k]] \notin {"setFlag", "unlock"}

(* Whoever does not run was stopped while interrupts were enabled, before  *)
(* SpinMask.                                                               *)
SuspendedInv ==
  \A c \in Contexts : running[CoreOf(c)] # c =>
    /\ depth[c] = 0
    /\ pc[c] \in {"run", "checkLock", "spinMask"}
    /\ pc[c] # "run" => entrySR[c]

(* The interrupts of a core whose context has the lock or waits for it are *)
(* masked; before it waits they are as its Enter found them.               *)
MaskInv ==
  \A k \in Cores :
    /\ HasLock(running[k]) \/ pc[running[k]] \notin {"run", "checkLock", "spinMask"}
         => irqEnabled[k] = FALSE
    /\ pc[running[k]] \in {"checkLock", "spinMask"} /\ depth[running[k]] = 0
         => irqEnabled[k] = entrySR[running[k]]
    /\ pc[running[k]] \in Setup => entrySR[running[k]] = FALSE

(* Where the counts are and how the saved status registers hang together.  *)
LocalInv ==
  \A c \in Contexts :
    /\ pc[c] \in {"exitLoad", "exitStore", "exitTest", "unlock"} => depth[c] > 0
    /\ pc[c] \in {"checkLock", "test", "latch", "load", "store"} => depth[c] < MaxNesting
    /\ pc[c] \in {"spinMask", "spin", "setFlag", "restore"} => depth[c] = 0
    /\ pc[c] \in {"spinMask", "spin"} => lock[c] = spinLock
    /\ HasLock(c) /\ pc[c] \notin {"exitTest", "unlock"} => counter = depth[c]
    /\ pc[c] \in {"exitTest", "unlock"} => counter = depth[c] - 1
    /\ pc[c] = "unlock" => counter = 0
    /\ pc[c] \in {"store", "exitStore"} => reg[c] = counter
    /\ pc[c] = "latch" => depth[c] = 0
    /\ pc[c] \in {"spin", "setFlag", "test", "latch"} /\ depth[c] = 0 => cpuSR[c] = entrySR[c]
    /\ pc[c] \in {"load", "store"} \/ depth[c] > 0 => savedSR = entrySR[c]
    /\ pc[c] \in {"unlock", "restore"} => cpuSR[c] = entrySR[c]

IInv == /\ TypeOK /\ StartInv /\ ReadyInv /\ StackInv /\ LockInv
        /\ SuspendedInv /\ MaskInv /\ LocalInv
-----------------------------------------------------------------------------
(* Every context belongs to a core, the main program of a core to itself.  *)
LEMMA CoreType == /\ \A c \in Contexts : CoreOf(c) \in Cores
                  /\ \A k \in Cores : CoreOf(k) = k
  BY MulticoreAssumption DEF CoreOf, Isrs

(* In the beginning nothing but the boot core's main program runs. *)
LEMMA InitInv == InitFirst /\ Init => IInv
<1> SUFFICES ASSUME InitFirst, Init PROVE IInv
  OBVIOUS
<1> USE CoreType, MulticoreAssumption, SectionAssumption
    DEF Init, SectInit, Isrs, HasLock, Setup
<1>1. TypeOK
  <2>1. SectTypeOK(PortLocations)
    <3>1. reg \in [Contexts -> 0 .. MaxNesting] /\ depth \in [Contexts -> 0 .. MaxNesting]
      OBVIOUS
    <3>2. /\ pc \in [Contexts -> SectLocations \cup PortLocations]
          /\ cpuSR \in [Contexts -> BOOLEAN]
      BY DEF SectLocations
    <3>3. QED
      BY <3>1, <3>2 DEF SectTypeOK
  <2>2. irqEnabled \in [Cores -> BOOLEAN] /\ initialized \in BOOLEAN
    OBVIOUS
  <2>3. /\ coreHasLock \in [Cores -> BOOLEAN] /\ entrySR \in [Contexts -> BOOLEAN]
        /\ running \in [Cores -> Contexts] /\ lock \in [Contexts -> Locks \cup {NoLock}]
    OBVIOUS
  <2>4. QED
    BY <2>1, <2>2, <2>3 DEF TypeOK
<1>2. StartInv
  BY DEF StartInv
<1>3. ReadyInv
  BY DEF ReadyInv
<1>4. StackInv
  BY DEF StackInv
<1>5. LockInv
  BY DEF LockInv
<1>6. SuspendedInv
  BY DEF SuspendedInv
<1>7. MaskInv
  BY DEF MaskInv
<1>8. LocalInv
  BY DEF LocalInv
<1>9. QED
  BY <1>1, <1>2, <1>3, <1>4, <1>5, <1>6, <1>7, <1>8 DEF IInv

(* Every step of TbxPortInterruptsDisable preserves the invariant.  Once   *)
(* the lock is set up, the flag tells a nested entry from an outermost one *)
(* (CheckLock), since nobody else can run on the core of the owner.        *)
LEMMA DisableInv ==
  ASSUME InitFirst, IInv, NEW c \in Contexts,
         \/ CheckInit(c) \/ SetInit(c) \/ ClearFlags(c) \/ Claim(c) \/ Assign(c)
         \/ CheckLock(c) \/ SpinMask(c) \/ SpinTake(c) \/ SetFlag(c)
  PROVE  IInv'
<1> USE CoreType, MulticoreAssumption, SectionAssumption
    DEF IInv, TypeOK, SectTypeOK, StartInv, ReadyInv, StackInv, LockInv, SuspendedInv, MaskInv,
        LocalInv, HasLock, Setup, Isrs, SectLocations, PortLocations,
        Goto, Executes, PortStep, sharedVars, sectVars, hwVars, initVars, portVars
<1>1. CASE CheckInit(c)
  BY <1>1 DEF CheckInit
<1>2. CASE SetInit(c)
  BY <1>2 DEF SetInit
<1>3. CASE ClearFlags(c)
  BY <1>3 DEF ClearFlags
<1>4. CASE Claim(c)
  BY <1>4 DEF Claim
<1>5. CASE Assign(c)
  BY <1>5 DEF Assign
<1>6. CASE CheckLock(c)
  <2> USE <1>6 DEF CheckLock
  <2>1. TypeOK'
    OBVIOUS
  <2>2. StartInv'
    OBVIOUS
  <2>3. ReadyInv'
    OBVIOUS
  <2>4. StackInv'
    OBVIOUS
  <2>5. LockInv'
    OBVIOUS
  <2>6. SuspendedInv'
    OBVIOUS
  <2>7. MaskInv'
    OBVIOUS
  <2>8. LocalInv'
    <3>1. /\ depth[c] < MaxNesting /\ spinLock # NoLock
          /\ coreHasLock[CoreOf(c)] <=> depth[c] > 0
      OBVIOUS
    <3>2. /\ pc'[c] = IF depth[c] = 0 THEN "spinMask" ELSE "test"
          /\ lock'[c] = spinLock
      BY <3>1
    <3>3. ASSUME NEW d \in Contexts, d # c
          PROVE  pc'[d] = pc[d] /\ cpuSR'[d] = cpuSR[d] /\ lock'[d] = lock[d]
      BY <3>3
    <3>4. UNCHANGED depth /\ UNCHANGED counter /\ UNCHANGED savedSR /\ UNCHANGED entrySR
          /\ UNCHANGED spinLock /\ UNCHANGED reg
      OBVIOUS
    <3>5. ASSUME NEW d \in Contexts PROVE LocalInv!(d)'
      <4>1. CASE d = c
        <5>1. /\ depth[c] \in Nat
              /\ depth[c] > 0 => counter = depth[c] /\ savedSR = entrySR[c]
          OBVIOUS
        <5> HIDE <1>6 DEF IInv, CheckLock
        <5>2. QED
          BY <3>1, <3>2, <3>4, <4>1, <5>1
      <4>2. CASE d # c
        BY <3>3, <3>4, <4>2
      <4>3. QED
        BY <4>1, <4>2
    <3>6. QED
      BY <3>5 DEF LocalInv
  <2>9. QED
    BY <2>1, <2>2, <2>3, <2>4, <2>5, <2>6, <2>7, <2>8
<1>7. CASE SpinMask(c)
  <2> USE <1>7 DEF SpinMask
  <2>1. TypeOK'
    OBVIOUS
  <2>2. StartInv'
    OBVIOUS
  <2>3. ReadyInv'
    OBVIOUS
  <2>4. StackInv'
    OBVIOUS
  <2>5. LockInv'
    OBVIOUS
  <2>6. SuspendedInv'
    OBVIOUS
  <2>7. MaskInv'
    <3>1. ASSUME NEW k \in Cores PROVE MaskInv!(k)'
      <4>1. CASE k = CoreOf(c)
        BY <4>1
      <4>2. CASE k # CoreOf(c)
        <5>1. running[k] # c /\ running[k] \in Contexts
          BY <4>2
        <5>2. irqEnabled'[k] = irqEnabled[k] /\ pc'[running'[k]] = pc[running[k]]
          BY <4>2, <5>1
        <5>3. QED
          BY <5>2
      <4>3. QED
        BY <4>1, <4>2
    <3>2. QED
      BY <3>1 DEF MaskInv
  <2>8. LocalInv'
    OBVIOUS
  <2>9. QED
    BY <2>1, <2>2, <2>3, <2>4, <2>5, <2>6, <2>7, <2>8
<1>8. CASE SpinTake(c)
  BY <1>8 DEF SpinTake
<1>9. CASE SetFlag(c)
  BY <1>9 DEF SetFlag
<1>10. QED
  BY <1>1, <1>2, <1>3, <1>4, <1>5, <1>6, <1>7, <1>8, <1>9

(* So do the steps of TbxCriticalSectionEnter after it. *)
LEMMA CountUpInv ==
  ASSUME InitFirst, IInv, NEW c \in Contexts, Executes(c), CountUp(c),
         UNCHANGED <<irqEnabled, portVars, lock, entrySR>>
  PROVE  IInv'
<1> USE CoreType, MulticoreAssumption, SectionAssumption
    DEF IInv, TypeOK, SectTypeOK, StartInv, ReadyInv, StackInv, LockInv, SuspendedInv, MaskInv,
        LocalInv, HasLock, Setup, Isrs, SectLocations, PortLocations,
        Goto, Executes, PortStep, sharedVars, sectVars, hwVars, initVars, portVars
<1>1. CASE TestFirst(c)
  BY <1>1 DEF TestFirst
<1>2. CASE Latch(c)
  BY <1>2 DEF Latch
<1>3. CASE LoadUp(c)
  BY <1>3 DEF LoadUp
<1>4. CASE StoreUp(c)
  <2> USE <1>4 DEF StoreUp
  <2>1. TypeOK'
    <3>1. counter = depth[c] /\ depth[c] < MaxNesting /\ reg[c] = counter
      OBVIOUS
    <3>2. counter' \in 0 .. MaxNesting /\ depth'[c] \in 0 .. MaxNesting
      BY <3>1
    <3>3. QED
      BY <3>2
  <2>2. StartInv'
    OBVIOUS
  <2>3. ReadyInv'
    OBVIOUS
  <2>4. StackInv'
    OBVIOUS
  <2>5. LockInv'
    OBVIOUS
  <2>6. SuspendedInv'
    OBVIOUS
  <2>7. MaskInv'
    OBVIOUS
  <2>8. LocalInv'
    OBVIOUS
  <2>9. QED
    BY <2>1, <2>2, <2>3, <2>4, <2>5, <2>6, <2>7, <2>8
<1>5. QED
  BY <1>1, <1>2, <1>3, <1>4 DEF CountUp

(* So do the steps of TbxCriticalSectionExit with TbxPortInterruptsRestore. *)
LEMMA ExitInv ==
  ASSUME InitFirst, IInv, NEW c \in Contexts, Exit(c)
  PROVE  IInv'
<1> USE CoreType, MulticoreAssumption, SectionAssumption
    DEF IInv, TypeOK, SectTypeOK, StartInv, ReadyInv, StackInv, LockInv, SuspendedInv, MaskInv,
        LocalInv, HasLock, Setup, Isrs, SectLocations, PortLocations,
        Goto, Executes, PortStep, sharedVars, sectVars, hwVars, initVars, portVars,
        Return
<1>1. CASE Executes(c) /\ CountDown(c, spinLock = NoLock)
           /\ UNCHANGED <<irqEnabled, portVars, lock, entrySR>>
  <2>1. CASE CheckCounter(c)
    BY <1>1, <2>1 DEF CheckCounter
  <2>2. CASE LoadDown(c)
    BY <1>1, <2>2 DEF LoadDown
  <2>3. CASE StoreDown(c)
    BY <1>1, <2>3 DEF StoreDown
  <2>4. CASE ExitNested(c, spinLock = NoLock)
    BY <1>1, <2>4 DEF ExitNested
  <2>5. QED
    BY <1>1, <2>1, <2>2, <2>3, <2>4 DEF CountDown
<1>2. CASE ClearFlag(c)
  BY <1>2 DEF ClearFlag
<1>3. CASE Unlock(c)
  BY <1>3 DEF Unlock
<1>4. CASE Restore(c)
  BY <1>4 DEF Restore
<1>5. QED
  BY <1>1, <1>2, <1>3, <1>4 DEF Exit

(* So do the application's own masking, the launch of a core and the       *)
(* interrupts.                                                             *)
LEMMA EnvironmentInv ==
  ASSUME InitFirst, IInv,
         \/ \E c \in Contexts : AppToggle(c)
         \/ \E k \in Cores : Launch(k)
         \/ \E i \in Isrs : TakeInterrupt(i) \/ ReturnFromInterrupt(i)
  PROVE  IInv'
<1> USE CoreType, MulticoreAssumption, SectionAssumption
    DEF IInv, TypeOK, SectTypeOK, StartInv, ReadyInv, StackInv, LockInv, SuspendedInv, MaskInv,
        LocalInv, HasLock, Setup, Isrs, SectLocations, PortLocations,
        Goto, Executes, PortStep, sharedVars, sectVars, hwVars, initVars, portVars,
        Ready
<1>1. ASSUME NEW c \in Contexts, AppToggle(c)
      PROVE  IInv'
  BY <1>1 DEF AppToggle
<1>2. ASSUME NEW k \in Cores, Launch(k)
      PROVE  IInv'
  BY <1>2 DEF Launch
<1>3. ASSUME NEW i \in Isrs, TakeInterrupt(i)
      PROVE  IInv'
  <2> USE <1>3 DEF TakeInterrupt
  <2>1. TypeOK'
    OBVIOUS
  <2>2. StartInv'
    OBVIOUS
  <2>3. ReadyInv'
    OBVIOUS
  <2>4. StackInv'
    OBVIOUS
  <2>5. LockInv'
    OBVIOUS
  <2>6. SuspendedInv'
    OBVIOUS
  <2>7. MaskInv'
    OBVIOUS
  <2>8. LocalInv'
    OBVIOUS
  <2>9. QED
    BY <2>1, <2>2, <2>3, <2>4, <2>5, <2>6, <2>7, <2>8
<1>4. ASSUME NEW i \in Isrs, ReturnFromInterrupt(i)
      PROVE  IInv'
  <2> USE <1>4 DEF ReturnFromInterrupt
  <2>1. TypeOK'
    OBVIOUS
  <2>2. StartInv'
    OBVIOUS
  <2>3. ReadyInv'
    OBVIOUS
  <2>4. StackInv'
    OBVIOUS
  <2>5. LockInv'
    OBVIOUS
  <2>6. SuspendedInv'
    OBVIOUS
  <2>7. MaskInv'
    OBVIOUS
  <2>8. LocalInv'
    OBVIOUS
  <2>9. QED
    BY <2>1, <2>2, <2>3, <2>4, <2>5, <2>6, <2>7, <2>8
<1>5. QED
  BY <1>1, <1>2, <1>3, <1>4

(* Every step of the specification preserves the inductive invariant. *)
LEMMA NextInv ==
  ASSUME InitFirst PROVE IInv /\ [Next]_vars => IInv'
<1> SUFFICES ASSUME IInv, [Next]_vars PROVE IInv'
  OBVIOUS
<1>1. CASE \E c \in Contexts : Enter(c)
  BY <1>1, DisableInv, CountUpInv DEF Enter
<1>2. CASE \E c \in Contexts : Exit(c)
  BY <1>2, ExitInv
<1>3. CASE \/ \E c \in Contexts : AppToggle(c)
           \/ \E k \in Cores : Launch(k)
           \/ \E i \in Isrs : TakeInterrupt(i) \/ ReturnFromInterrupt(i)
  BY <1>3, EnvironmentInv
<1>4. CASE UNCHANGED vars
  BY <1>4 DEF vars, hwVars, initVars, portVars, sectVars, sharedVars, IInv, TypeOK, SectTypeOK,
              StartInv, ReadyInv, StackInv, LockInv, SuspendedInv, MaskInv, LocalInv, HasLock
<1>5. QED
  BY <1>1, <1>2, <1>3, <1>4 DEF Next

(* The inductive invariant holds in every reachable state. *)
LEMMA Inductive ==
  ASSUME InitFirst PROVE Spec => []IInv
  BY InitInv, NextInv, PTL DEF Spec
-----------------------------------------------------------------------------
(* Type correctness, with the counter bounded by the callers' nesting. *)
THEOREM TypeCorrect ==
  ASSUME InitFirst PROVE Spec => []TypeOK
  BY Inductive, PTL DEF IInv

(* Mutual exclusion across the cores: at no time do two contexts, of one   *)
(* core or of two, stand inside the critical section.                      *)
THEOREM Exclusion ==
  ASSUME InitFirst PROVE Spec => []MutualExclusion
<1>1. IInv => MutualExclusion
  BY DEF IInv, LockInv, HasLock, MutualExclusion, InSection
<1>2. QED
  BY <1>1, Inductive, PTL

(* Neither the assertion of TbxCriticalSectionExit nor that of the port    *)
(* fails when one spin lock of the chip is still free.                     *)
THEOREM AssertionsHold ==
  ASSUME InitFirst, Locks # {} PROVE Spec => []AssertHolds
<1>1. IInv => AssertHolds
  BY DEF IInv, StartInv, ReadyInv, Setup, AssertHolds
<1>2. QED
  BY <1>1, Inductive, PTL

(* The flag by which a nested entry knows that its core has the lock is    *)
(* set only while that is so.                                              *)
THEOREM FlagCorrect ==
  ASSUME InitFirst PROVE Spec => []FlagTracksLock
<1>1. IInv => FlagTracksLock
  BY DEF IInv, TypeOK, StackInv, LockInv, HasLock, FlagTracksLock, InSection
<1>2. QED
  BY <1>1, Inductive, PTL

(* No core waits for the lock that one of its own contexts has. *)
THEOREM NoDeadlockOnCore ==
  ASSUME InitFirst PROVE Spec => []NoSelfDeadlock
<1>1. IInv => NoSelfDeadlock
  BY CoreType DEF IInv, TypeOK, SectTypeOK, SuspendedInv, LocalInv, NoSelfDeadlock, InSection
<1>2. QED
  BY <1>1, Inductive, PTL

(* Only Restore ends an outermost Exit, and it gives the core the state    *)
(* that its own Enter found, although the cores share the saved one.       *)
THEOREM StateRestored ==
  ASSUME InitFirst PROVE Spec => LeavesStateAsFound
<1> DEFINE Restores == \A c \in Contexts : pc[c] = "restore" /\ pc'[c] = "run"
                         => irqEnabled'[CoreOf(c)] = entrySR[c]
<1>1. ASSUME IInv, Next, NEW c \in Contexts, pc[c] = "restore", pc'[c] = "run"
      PROVE  Restore(c)
  <2> USE <1>1 DEF IInv, TypeOK, SectTypeOK, Goto, PortStep
  <2>1. ASSUME NEW d \in Contexts, Enter(d) PROVE FALSE
    BY <2>1 DEF Enter, CheckInit, SetInit, ClearFlags, Claim, Assign, CheckLock, SpinMask,
                SpinTake, SetFlag, CountUp, TestFirst, Latch, LoadUp, StoreUp
  <2>2. ASSUME NEW d \in Contexts, Exit(d) PROVE Restore(c)
    <3>1. CASE Restore(d)
      BY <3>1 DEF Restore
    <3>2. CASE ~Restore(d)
      BY <2>2, <3>2 DEF Exit, CountDown, CheckCounter, LoadDown, StoreDown, ExitNested, Return,
                        ClearFlag, Unlock
    <3>3. QED
      BY <3>1, <3>2
  <2>3. QED
    BY <2>1, <2>2 DEF Next, AppToggle, Launch, TakeInterrupt, ReturnFromInterrupt, sectVars
<1>2. ASSUME IInv, NEW c \in Contexts, Restore(c)
      PROVE  irqEnabled'[CoreOf(c)] = entrySR[c]
  BY <1>2, CoreType DEF IInv, TypeOK, LocalInv, Restore, PortStep, Goto
<1>3. IInv /\ [Next]_vars => [Restores]_vars
  BY <1>1, <1>2
<1>4. QED
  BY <1>3, Inductive, PTL DEF Spec, LeavesStateAsFound
-----------------------------------------------------------------------------
(* The refinement mapping: the lock's holder is the context whose entries  *)
(* are open, if there is one.                                              *)
Mapped == /\ \A c \in Contexts : depth[c] > 0 => Holder = c /\ Level = depth[c]
          /\ (\A c \in Contexts : depth[c] = 0) => Holder = NoContext /\ Level = 0

(* The mapping of the refinement takes a value of the abstract lock. *)
LEMMA MappingValue == IInv => Mapped
<1> SUFFICES ASSUME IInv PROVE Mapped
  OBVIOUS
<1>1. ASSUME NEW c \in Contexts, depth[c] > 0
      PROVE  Holder = c /\ Level = depth[c]
  <2>1. OpenIn = {c}
    BY <1>1 DEF OpenIn, IInv, LockInv, HasLock
  <2>2. QED
    BY <2>1 DEF Holder, Level
<1>2. ASSUME \A c \in Contexts : depth[c] = 0
      PROVE  Holder = NoContext /\ Level = 0
  <2>1. OpenIn = {}
    BY <1>2 DEF OpenIn
  <2>2. QED
    BY <2>1 DEF Holder, Level
<1>3. QED
  BY <1>1, <1>2 DEF Mapped

(* A step that opens or closes an entry is a step of the nested lock. *)
LEMMA LockStep ==
  ASSUME IInv, IInv', Mapped, Mapped', NEW c \in Contexts,
         \/ /\ depth' = [depth EXCEPT ![c] = @ + 1]
            /\ depth[c] < MaxNesting
            /\ \A d \in Contexts \ {c} : depth[d] = 0
         \/ depth' = [depth EXCEPT ![c] = @ - 1]
  PROVE  Lock!LockNext
<1> DEFINE k == depth[c]
           m == depth'[c]
<1>1. /\ k \in Nat /\ m \in Nat /\ MaxNesting \in Nat
      /\ \/ /\ m = k + 1 /\ k < MaxNesting
            /\ \A d \in Contexts \ {c} : depth[d] = 0
         \/ m = k - 1
  BY SectionAssumption DEF IInv, TypeOK, SectTypeOK
<1>2. \A d \in Contexts \ {c} : depth[d] = 0 /\ depth'[d] = 0
  <2>1. k > 0 => \A d \in Contexts \ {c} : depth[d] = 0
    BY DEF IInv, LockInv, HasLock, TypeOK, SectTypeOK
  <2>2. \A d \in Contexts \ {c} : depth[d] = 0
    BY <1>1, <2>1
  <2>3. QED
    BY <2>2 DEF IInv, TypeOK, SectTypeOK
<1>3. /\ k > 0 => Holder = c /\ Level = k
      /\ k = 0 => Holder = NoContext /\ Level = 0
  BY <1>2 DEF Mapped
<1>4. /\ m > 0 => Holder' = c /\ Level' = m
      /\ m = 0 => Holder' = NoContext /\ Level' = 0
  BY <1>1, <1>2 DEF Mapped
<1> HIDE DEF k, m
<1>5. CASE m = k + 1 /\ k = 0
  BY <1>3, <1>4, <1>5 DEF Lock!LockNext, Lock!Acquire
<1>6. CASE m = k + 1 /\ k > 0
  BY <1>1, <1>3, <1>4, <1>6 DEF Lock!LockNext, Lock!Reenter
<1>7. CASE m = k - 1 /\ k = 1
  BY <1>3, <1>4, <1>7 DEF Lock!LockNext, Lock!Release
<1>8. CASE m = k - 1 /\ k > 1
  BY <1>1, <1>3, <1>4, <1>8 DEF Lock!LockNext, Lock!Leave
<1>9. QED
  BY <1>1, <1>5, <1>6, <1>7, <1>8

(* tbx_critsect.c on the RP2040 port implements the nested lock. *)
THEOREM Refinement ==
  ASSUME InitFirst PROVE Spec => ImplementsLock
<1>1. Init => Lock!LockInit
  <2>1. Init => \A c \in Contexts : depth[c] = 0
    BY DEF Init, SectInit
  <2>2. QED
    BY <2>1, InitInv, MappingValue DEF Lock!LockInit, Mapped
<1>2. ASSUME IInv, IInv', Mapped, Mapped', [Next]_vars
      PROVE  [Lock!LockNext]_Lock!lockVars
  <2>1. ASSUME depth' = depth PROVE UNCHANGED Lock!lockVars
    BY <2>1 DEF Lock!lockVars, Holder, Level, OpenIn
  <2>2. ASSUME NEW c \in Contexts, Executes(c), StoreUp(c) PROVE Lock!LockNext
    <3>1. depth' = [depth EXCEPT ![c] = @ + 1] /\ depth[c] < MaxNesting
      BY <1>2, <2>2 DEF StoreUp, Goto, IInv, LocalInv
    <3>2. \A d \in Contexts \ {c} : depth[d] = 0
      BY <1>2, <2>2 DEF StoreUp, Goto, IInv, LockInv, HasLock, TypeOK, SectTypeOK
    <3>3. QED
      BY <1>2, <3>1, <3>2, LockStep
  <2>3. ASSUME NEW c \in Contexts, Return(c) \/ Unlock(c) PROVE Lock!LockNext
    <3>1. depth' = [depth EXCEPT ![c] = @ - 1]
      BY <1>2, <2>3 DEF Return, Unlock, IInv, TypeOK, SectTypeOK
    <3>2. QED
      BY <1>2, <3>1, LockStep
  <2>4. ASSUME NEW c \in Contexts, Enter(c)
        PROVE  (Executes(c) /\ StoreUp(c)) \/ depth' = depth
    BY <2>4 DEF Enter, CheckInit, SetInit, ClearFlags, Claim, Assign, CheckLock, SpinMask,
                SpinTake, SetFlag, CountUp, TestFirst, Latch, LoadUp
  <2>5. ASSUME NEW c \in Contexts, Exit(c)
        PROVE  Return(c) \/ Unlock(c) \/ depth' = depth
    BY <2>5 DEF Exit, CountDown, CheckCounter, LoadDown, StoreDown, ExitNested, ClearFlag, Restore
  <2>6. ASSUME \/ \E c \in Contexts : AppToggle(c)
               \/ \E k \in Cores : Launch(k)
               \/ \E i \in Isrs : TakeInterrupt(i) \/ ReturnFromInterrupt(i)
               \/ UNCHANGED vars
        PROVE  depth' = depth
    BY <2>6 DEF AppToggle, Launch, TakeInterrupt, ReturnFromInterrupt, sectVars, vars
  <2>7. QED
    BY <1>2, <2>1, <2>2, <2>3, <2>4, <2>5, <2>6 DEF Next
<1>3. QED
  BY <1>1, <1>2, MappingValue, Inductive, PTL DEF Spec, ImplementsLock, Lock!LockSpec
=============================================================================
