SPECIFICATION FairSpec
CONSTANTS
  Tasks = {t1, t2}
  Contexts = {t1, t2, i1}
  NoContext = none
  EntryMasks = TRUE
  MaxNesting = 2
PROPERTIES
  InterruptsComeBack
  ImplementsLock
