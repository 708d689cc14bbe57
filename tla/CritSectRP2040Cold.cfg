SPECIFICATION Spec
CONSTANTS
  core0 = core0
  core1 = core1
  Cores = {core0, core1}
  BootCore = core0
  Contexts = {core0, core1, isr0}
  IsrCore <- MCIsrCore
  Locks = {lock1, lock2}
  NoLock = nolock
  NoContext = none
  InitFirst = FALSE
  MaxNesting = 2
INVARIANT MutualExclusion
