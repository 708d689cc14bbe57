SPECIFICATION Spec
CONSTANTS
  HeapSize = 16
  WordSize = 4
  SizeMod = 32
  Contexts = {c1}
  NoContext = none
  Sizes = {4, 29}
INVARIANT GrantsInHeap
