SPECIFICATION Spec
CONSTANTS
  core0 = core0
  core1 = core1
  Cores = {core0, core1}
  BootCore = core0
  Contexts = {core0, core1, isr0}
  IsrCore <- MCIsrCore
  Locks = {lock1, lock2}
  NoLock = nolock
  NoContext = none
  InitFirst = TRUE
  MaxNesting = 2
INVARIANTS
  TypeOK
  MutualExclusion
  AssertHolds
  FlagTracksLock
  NoSelfDeadlock
PROPERTIES
  LeavesStateAsFound
  ImplementsLock
