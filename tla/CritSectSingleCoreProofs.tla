---------------------- MODULE CritSectSingleCoreProofs ----------------------
(***************************************************************************)
(* Proofs about CritSectSingleCore for any number of tasks and handlers,   *)
(* any nesting bound and either kind of CPU.                               *)
(***************************************************************************)
EXTENDS CritSectSingleCore, TLAPS

(* The interrupt handlers form a stack whose top runs. *)
StackInv ==
  /\ running \in Tasks \cup active
  /\ \A i \in active : interrupted[i] \in Tasks \cup active /\ interrupted[i] # running
  /\ \A i, j \in active : interrupted[i] = interrupted[j] => i = j
  /\ \A i \in Isrs \ active : pc[i] = "run"

(* Whoever does not run is outside, and was stopped with interrupts enabled *)
(* if it stands between the two halves of TbxPortInterruptsDisable.         *)
SuspendedInv ==
  \A c \in Contexts \ {running} :
    /\ ~InSection(c)
    /\ pc[c] = "mask" => cpuSR[c] = TRUE

(* What the running context may assume at each place of the code. *)
RunningInv ==
  /\ InSection(running) => irqEnabled = FALSE
  /\ ~InSection(running) => counter = 0
  /\ pc[running] \in {"run", "mask", "test", "latch", "load", "store", "exitLoad", "exitStore"}
       /\ InSection(running) => counter = depth[running]
  /\ pc[running] = "exitTest" => counter = depth[running] - 1
  /\ pc[running] \in {"store", "exitStore"} => reg[running] = counter
  /\ pc[running] = "mask" => cpuSR[running] = irqEnabled

(* How the counts and the saved status registers hang together. *)
LocalInv ==
  \A c \in Contexts :
    /\ pc[c] \in {"exitLoad", "exitStore", "exitTest"} => depth[c] > 0
    /\ pc[c] \in {"mask", "test", "latch", "load", "store"} => depth[c] < MaxNesting
    /\ pc[c] = "latch" => depth[c] = 0
    /\ pc[c] \in {"mask", "test", "latch"} /\ depth[c] = 0 => cpuSR[c] = entrySR[c]
    /\ pc[c] \in {"load", "store"} \/ depth[c] > 0 => savedSR = entrySR[c]
    /\ pc[c] # "assertFailed"

IInv == TypeOK /\ StackInv /\ SuspendedInv /\ RunningInv /\ LocalInv

-----------------------------------------------------------------------------
(* The initial states satisfy the inductive invariant: nobody has called   *)
(* Enter and the counter is zero.                                          *)
LEMMA InitInv == Init => IInv
<1> SUFFICES ASSUME Init PROVE IInv
  OBVIOUS
<1> USE CoreAssumption, SectionAssumption DEF Init, SectInit, Isrs
<1>1. TypeOK
  <2>0. irqEnabled \in BOOLEAN /\ savedSR \in BOOLEAN
    BY Zenon
  <2>1. /\ counter \in 0 .. MaxNesting /\ running \in Contexts /\ active \in SUBSET Isrs
        /\ \A i \in active : interrupted[i] \in Contexts
    OBVIOUS
  <2>2. /\ interrupted \in [Isrs -> Contexts \cup {NoContext}]
        /\ pc \in [Contexts -> SectLocations \cup {"mask"}]
    BY DEF SectLocations
  <2>3. /\ cpuSR \in [Contexts -> BOOLEAN] /\ entrySR \in [Contexts -> BOOLEAN]
    OBVIOUS
  <2>4. /\ reg \in [Contexts -> 0 .. MaxNesting] /\ depth \in [Contexts -> 0 .. MaxNesting]
    OBVIOUS
  <2>5. QED
    BY <2>0, <2>1, <2>2, <2>3, <2>4 DEF TypeOK, SectTypeOK
<1>2. StackInv
  BY DEF StackInv
<1>3. SuspendedInv
  <2>1. \A c \in Contexts : pc[c] = "run" /\ depth[c] = 0
    OBVIOUS
  <2>2. SUFFICES ASSUME NEW c \in Contexts \ {running}
                 PROVE  ~InSection(c) /\ (pc[c] = "mask" => cpuSR[c] = TRUE)
    BY DEF SuspendedInv
  <2>3. pc[c] = "run" /\ depth[c] = 0
    BY <2>1
  <2>4. QED
    BY <2>3 DEF InSection
<1>4. RunningInv
  BY DEF RunningInv, InSection
<1>5. LocalInv
  BY DEF LocalInv
<1>6. QED
  BY <1>1, <1>2, <1>3, <1>4, <1>5 DEF IInv

(* Every step of TbxCriticalSectionEnter preserves the invariant. *)
LEMMA EnterInv ==
  ASSUME IInv, NEW c \in Contexts, Enter(c)
  PROVE  IInv'
<1> USE CoreAssumption, SectionAssumption
    DEF IInv, TypeOK, SectTypeOK, StackInv, SuspendedInv, RunningInv, LocalInv,
        InSection, Isrs, SectLocations,
        Goto, Executes, Return, sharedVars, sectVars, hwVars
<1>1. CASE ReadSR(c)
  BY <1>1 DEF ReadSR
<1>2. CASE Mask(c)
  <2> USE <1>2 DEF Mask
  <2>1. TypeOK'
    OBVIOUS
  <2>2. StackInv'
    OBVIOUS
  <2>3. SuspendedInv'
    OBVIOUS
  <2>4. RunningInv'
    OBVIOUS
  <2>5. LocalInv'
    OBVIOUS
  <2>6. QED
    BY <2>1, <2>2, <2>3, <2>4, <2>5
<1>3. CASE Executes(c) /\ CountUp(c) /\ UNCHANGED <<irqEnabled, entrySR>>
  <2>1. CASE TestFirst(c)
    BY <1>3, <2>1 DEF TestFirst
  <2>2. CASE Latch(c)
    BY <1>3, <2>2 DEF Latch
  <2>3. CASE LoadUp(c)
    BY <1>3, <2>3 DEF LoadUp
  <2>4. CASE StoreUp(c)
    BY <1>3, <2>4 DEF StoreUp
  <2>5. QED
    BY <1>3, <2>1, <2>2, <2>3, <2>4 DEF CountUp
<1>4. QED
  BY <1>1, <1>2, <1>3 DEF Enter

(* Every step of TbxCriticalSectionExit preserves the invariant. *)
LEMMA ExitInv ==
  ASSUME IInv, NEW c \in Contexts, Exit(c)
  PROVE  IInv'
<1> USE CoreAssumption, SectionAssumption
    DEF IInv, TypeOK, SectTypeOK, StackInv, SuspendedInv, RunningInv, LocalInv,
        InSection, Isrs, SectLocations,
        Goto, Executes, Return, sharedVars, sectVars, hwVars
<1>1. CASE Executes(c) /\ CountDown(c, FALSE) /\ UNCHANGED <<irqEnabled, entrySR>>
  <2>1. CASE CheckCounter(c)
    BY <1>1, <2>1 DEF CheckCounter
  <2>2. CASE LoadDown(c)
    BY <1>1, <2>2 DEF LoadDown
  <2>3. CASE StoreDown(c)
    BY <1>1, <2>3 DEF StoreDown
  <2>4. CASE ExitNested(c, FALSE)
    BY <1>1, <2>4 DEF ExitNested
  <2>5. QED
    BY <1>1, <2>1, <2>2, <2>3, <2>4 DEF CountDown
<1>2. CASE Restore(c)
  BY <1>2 DEF Restore
<1>3. QED
  BY <1>1, <1>2 DEF Exit

(* So do the application's own masking, the interrupts and the scheduler. *)
LEMMA EnvironmentInv ==
  ASSUME IInv,
         \/ \E c \in Contexts : AppToggle(c)
         \/ \E i \in Isrs : TakeInterrupt(i) \/ ReturnFromInterrupt(i)
         \/ \E t \in Tasks : SwitchTask(t)
  PROVE  IInv'
<1> USE CoreAssumption, SectionAssumption DEF IInv, TypeOK, SectTypeOK, StackInv, SuspendedInv, RunningInv, LocalInv,
                           InSection, Isrs, SectLocations,
                           Executes, sharedVars, sectVars, hwVars
<1>1. ASSUME NEW c \in Contexts, AppToggle(c)
      PROVE  IInv'
  BY <1>1 DEF AppToggle
<1>2. ASSUME NEW i \in Isrs, TakeInterrupt(i)
      PROVE  IInv'
  <2> USE <1>2 DEF TakeInterrupt
  <2>1. TypeOK'
    OBVIOUS
  <2>2. StackInv'
    OBVIOUS
  <2>3. SuspendedInv'
    OBVIOUS
  <2>4. RunningInv'
    OBVIOUS
  <2>5. LocalInv'
    OBVIOUS
  <2>6. QED
    BY <2>1, <2>2, <2>3, <2>4, <2>5
<1>3. ASSUME NEW i \in Isrs, ReturnFromInterrupt(i)
      PROVE  IInv'
  <2> USE <1>3 DEF ReturnFromInterrupt
  <2>1. TypeOK'
    OBVIOUS
  <2>2. StackInv'
    OBVIOUS
  <2>3. SuspendedInv'
    OBVIOUS
  <2>4. RunningInv'
    OBVIOUS
  <2>5. LocalInv'
    OBVIOUS
  <2>6. QED
    BY <2>1, <2>2, <2>3, <2>4, <2>5
<1>4. ASSUME NEW t \in Tasks, SwitchTask(t)
      PROVE  IInv'
  BY <1>4 DEF SwitchTask
<1>5. QED
  BY <1>1, <1>2, <1>3, <1>4
-----------------------------------------------------------------------------
(* Every step of the specification preserves the inductive invariant. *)
LEMMA NextInv == IInv /\ [Next]_vars => IInv'
<1> SUFFICES ASSUME IInv, [Next]_vars PROVE IInv'
  OBVIOUS
<1>1. CASE \E c \in Contexts : Enter(c) \/ Exit(c)
  BY <1>1, EnterInv, ExitInv
<1>2. CASE \/ \E c \in Contexts : AppToggle(c)
           \/ \E i \in Isrs : TakeInterrupt(i) \/ ReturnFromInterrupt(i)
           \/ \E t \in Tasks : SwitchTask(t)
  BY <1>2, EnvironmentInv
<1>3. CASE UNCHANGED vars
  BY <1>3 DEF vars, hwVars, sectVars, sharedVars, IInv, TypeOK, SectTypeOK, StackInv, SuspendedInv, RunningInv,
              LocalInv, InSection
<1>4. QED
  BY <1>1, <1>2, <1>3 DEF Next

(* The inductive invariant holds in every reachable state. *)
LEMMA Inductive == Spec => []IInv
  BY InitInv, NextInv, PTL DEF Spec

(* Type correctness, with the counter bounded by the callers' nesting. *)
THEOREM TypeCorrect == Spec => []TypeOK
  BY Inductive, PTL DEF IInv

(* Mutual exclusion: at no time do two contexts stand inside the critical  *)
(* section of a single-core port.                                          *)
THEOREM Exclusion == Spec => []MutualExclusion
<1>1. IInv => MutualExclusion
  BY DEF IInv, SuspendedInv, MutualExclusion
<1>2. QED
  BY <1>1, Inductive, PTL

(* The assertion of TbxCriticalSectionExit holds for paired calls. *)
THEOREM AssertionHolds == Spec => []AssertHolds
<1>1. IInv => AssertHolds
  BY DEF IInv, LocalInv, AssertHolds
<1>2. QED
  BY <1>1, Inductive, PTL

(* The counter equals the open entries of the context that is inside and   *)
(* is zero when none is.                                                   *)
THEOREM CounterCorrect == Spec => []CounterTracksNesting
<1>1. IInv => CounterTracksNesting
  BY DEF IInv, TypeOK, StackInv, SuspendedInv, RunningInv, InSection,
         SectTypeOK, LocalInv, Isrs, CounterTracksNesting
<1>2. QED
  BY <1>1, Inductive, PTL

(* What TbxPortInterruptsDisable read is not stale when it masks. *)
THEOREM NoStaleSnapshot == Spec => []SnapshotFresh
<1>1. IInv => SnapshotFresh
  BY DEF IInv, RunningInv, SnapshotFresh
<1>2. QED
  BY <1>1, Inductive, PTL

(* Only two steps can take a context out of the critical section, and they *)
(* leave the interrupts as the outermost Enter found them.                 *)
LEMMA LeaveStep ==
  ASSUME IInv, Next, NEW d \in Contexts, InSection(d), ~InSection(d)'
  PROVE  irqEnabled' = entrySR[d]
<1> USE CoreAssumption DEF IInv, InSection
<1>1. CASE \E c \in Contexts : Enter(c)
  <2> PICK c \in Contexts : Enter(c)
    BY <1>1
  <2> QED
    BY DEF Enter, ReadSR, Mask, CountUp, TestFirst, Latch, LoadUp, StoreUp, Goto, Executes, TypeOK, SectTypeOK
<1>2. CASE \E c \in Contexts : Exit(c)
  <2> PICK c \in Contexts : Exit(c)
    BY <1>2
  <2>0. running = c
    BY DEF Exit, Restore, Executes
  <2>1. CASE CheckCounter(c) \/ LoadDown(c) \/ StoreDown(c)
    BY <2>1 DEF CheckCounter, LoadDown, StoreDown, Goto, TypeOK, SectTypeOK
  <2>2. CASE ExitNested(c, FALSE)
    <3>1. c = d
      BY <2>2 DEF ExitNested, Return, Goto, TypeOK, SectTypeOK
    <3>2. counter = depth[c] - 1 /\ counter > 0
      BY <2>2, <2>0 DEF ExitNested, Return, Goto, Executes, TypeOK, SectTypeOK, RunningInv
    <3>3. depth'[c] > 0
      BY <2>2, <3>2 DEF ExitNested, Return, TypeOK, SectTypeOK
    <3>4. QED
      BY <3>1, <3>3
  <2>3. CASE Restore(c)
    <3>1. c = d
      BY <2>3 DEF Restore, Return, Goto, TypeOK, SectTypeOK
    <3>2. depth[c] > 0
      BY <2>3 DEF Restore, Return, Goto, LocalInv
    <3>3. QED
      BY <2>3, <3>1, <3>2 DEF Restore, LocalInv
  <2>4. QED
    BY <2>1, <2>2, <2>3 DEF Exit, CountDown
<1>3. CASE \/ \E c \in Contexts : AppToggle(c)
           \/ \E i \in Isrs : TakeInterrupt(i) \/ ReturnFromInterrupt(i)
           \/ \E t \in Tasks : SwitchTask(t)
  BY <1>3 DEF AppToggle, TakeInterrupt, ReturnFromInterrupt, SwitchTask, Executes,
              sectVars, hwVars
<1>4. QED
  BY <1>1, <1>2, <1>3 DEF Next

(* Leaving the critical section restores the interrupt state the outermost *)
(* Enter found, whatever ran in between.                                   *)
THEOREM StateRestored == Spec => LeavesStateAsFound
<1> DEFINE Restores == \A c \in Contexts : InSection(c) /\ ~InSection(c)' => irqEnabled' = entrySR[c]
<1>1. IInv /\ [Next]_vars => [Restores]_vars
  BY LeaveStep
<1>2. QED
  BY <1>1, Inductive, PTL DEF Spec, LeavesStateAsFound
-----------------------------------------------------------------------------
(* Under the refinement mapping the lock's state is read off the context   *)
(* that runs.                                                              *)
LEMMA MappingValue ==
  ASSUME IInv
  PROVE  /\ depth[running] > 0 => Holder = running /\ Level = depth[running]
         /\ depth[running] = 0 => Holder = NoContext /\ Level = 0
<1>1. running \in Contexts /\ depth[running] \in Nat
  BY DEF IInv, TypeOK, SectTypeOK
<1>2. \A c \in Contexts : c # running => depth[c] = 0
  BY DEF IInv, TypeOK, SectTypeOK, SuspendedInv, InSection
<1>3. CASE depth[running] > 0
  <2>1. OpenIn = {running}
    BY <1>1, <1>2, <1>3 DEF OpenIn
  <2>2. QED
    BY <1>1, <1>3, <2>1 DEF Holder, Level
<1>4. CASE depth[running] = 0
  <2>1. OpenIn = {}
    BY <1>1, <1>2, <1>4 DEF OpenIn
  <2>2. QED
    BY <1>4, <2>1 DEF Holder, Level
<1>5. QED
  BY <1>1, <1>3, <1>4

(* The mapping in the state after a step. *)
LEMMA MappingValueNext ==
  ASSUME IInv'
  PROVE  /\ depth'[running'] > 0 => Holder' = running' /\ Level' = depth'[running']
         /\ depth'[running'] = 0 => Holder' = NoContext /\ Level' = 0
<1>1. running' \in Contexts /\ depth'[running'] \in Nat
  BY DEF IInv, TypeOK, SectTypeOK
<1>2. \A c \in Contexts : c # running' => depth'[c] = 0
  BY DEF IInv, TypeOK, SectTypeOK, SuspendedInv, InSection
<1>3. CASE depth'[running'] > 0
  <2>1. OpenIn' = {running'}
    BY <1>1, <1>2, <1>3 DEF OpenIn
  <2>2. QED
    BY <1>1, <1>3, <2>1 DEF Holder, Level
<1>4. CASE depth'[running'] = 0
  <2>1. OpenIn' = {}
    BY <1>1, <1>2, <1>4 DEF OpenIn
  <2>2. QED
    BY <1>4, <2>1 DEF Holder, Level
<1>5. QED
  BY <1>1, <1>3, <1>4

(* The initial states map to the free lock. *)
LEMMA LockInitial == Init => Lock!LockInit
<1> SUFFICES ASSUME Init PROVE Lock!LockInit
  OBVIOUS
<1>1. IInv /\ depth[running] = 0
  BY InitInv, CoreAssumption DEF Init, SectInit
<1>2. QED
  BY <1>1, MappingValue DEF Lock!LockInit

(* Every step acquires, re-enters, leaves or releases the lock or does not *)
(* touch it.                                                               *)
LEMMA LockStep ==
  ASSUME IInv, IInv', Next
  PROVE  Lock!LockNext \/ UNCHANGED Lock!lockVars
<1>1. ASSUME depth' = depth
      PROVE  UNCHANGED Lock!lockVars
  BY <1>1 DEF Lock!lockVars, Holder, Level, OpenIn
<1>2. ASSUME NEW c \in Contexts, Executes(c), StoreUp(c)
      PROVE  Lock!LockNext
  <2>1. /\ c = running /\ c = running' /\ depth[c] \in Nat /\ depth[c] < MaxNesting
        /\ depth'[c] = depth[c] + 1
    BY <1>2 DEF StoreUp, Goto, Executes, hwVars, IInv, TypeOK, SectTypeOK, LocalInv
  <2>2. CASE depth[c] = 0
    <3>1. Lock!Acquire(c)
      BY <2>1, <2>2, MappingValue, MappingValueNext DEF Lock!Acquire
    <3>2. QED
      BY <3>1 DEF Lock!LockNext
  <2>3. CASE depth[c] > 0
    <3>1. Lock!Reenter(c)
      BY <2>1, <2>3, MappingValue, MappingValueNext DEF Lock!Reenter
    <3>2. QED
      BY <3>1 DEF Lock!LockNext
  <2>4. QED
    BY <2>1, <2>2, <2>3
<1>3. ASSUME NEW c \in Contexts, Executes(c), ExitNested(c, FALSE)
      PROVE  Lock!LockNext
  <2>1. /\ c = running /\ c = running' /\ counter \in Nat /\ counter > 0
        /\ depth[c] = counter + 1 /\ depth'[c] = depth[c] - 1
    BY <1>3 DEF ExitNested, Return, Goto, Executes, hwVars, IInv, TypeOK, SectTypeOK, RunningInv
  <2>2. Lock!Leave(c)
    BY <2>1, MappingValue, MappingValueNext DEF Lock!Leave
  <2>3. QED
    BY <2>2 DEF Lock!LockNext
<1>4. ASSUME NEW c \in Contexts, Restore(c)
      PROVE  Lock!LockNext
  <2>1. c = running /\ c = running' /\ depth[c] = 1 /\ depth'[c] = 0
    BY <1>4 DEF Restore, Return, Goto, Executes, hwVars, IInv, TypeOK, SectTypeOK, RunningInv
  <2>2. Lock!Release(c)
    BY <2>1, MappingValue, MappingValueNext DEF Lock!Release
  <2>3. QED
    BY <2>2 DEF Lock!LockNext
<1>5. ASSUME NEW c \in Contexts, Enter(c)
      PROVE  (Executes(c) /\ StoreUp(c)) \/ depth' = depth
  BY <1>5 DEF Enter, ReadSR, Mask, CountUp, TestFirst, Latch, LoadUp
<1>6. ASSUME NEW c \in Contexts, Exit(c)
      PROVE  (Executes(c) /\ ExitNested(c, FALSE)) \/ Restore(c) \/ depth' = depth
  BY <1>6 DEF Exit, CountDown, CheckCounter, LoadDown, StoreDown
<1>7. ASSUME \/ \E c \in Contexts : AppToggle(c)
             \/ \E i \in Isrs : TakeInterrupt(i) \/ ReturnFromInterrupt(i)
             \/ \E t \in Tasks : SwitchTask(t)
      PROVE  depth' = depth
  BY <1>7 DEF AppToggle, TakeInterrupt, ReturnFromInterrupt, SwitchTask, sectVars
<1>8. QED
  BY <1>1, <1>2, <1>3, <1>4, <1>5, <1>6, <1>7 DEF Next

(* tbx_critsect.c on a single-core port implements the nested lock.        *)
THEOREM Refinement == Spec => ImplementsLock
<1>1. IInv /\ IInv' /\ [Next]_vars => [Lock!LockNext]_Lock!lockVars
  <2> SUFFICES ASSUME IInv, IInv', [Next]_vars
               PROVE  Lock!LockNext \/ UNCHANGED Lock!lockVars
    OBVIOUS
  <2>1. CASE UNCHANGED vars
    BY <2>1 DEF vars, sectVars, Lock!lockVars, Holder, Level, OpenIn
  <2>2. CASE Next
    BY <2>2, LockStep
  <2>3. QED
    BY <2>1, <2>2
<1>2. QED
  BY <1>1, LockInitial, Inductive, PTL DEF Spec, ImplementsLock, Lock!LockSpec
=============================================================================
