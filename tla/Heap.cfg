SPECIFICATION Spec
CONSTANTS
  HeapSize = 16
  WordSize = 4
  SizeMod = 32
  Contexts = {c1, c2}
  NoContext = none
  Sizes = {1, 7, 28}
SYMMETRY Interchangeable
INVARIANTS
  TypeOK
  GrantsInHeap
  Accounted
PROPERTIES
  RefusedOnlyWhenFull
  KeepsContract
