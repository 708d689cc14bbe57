SPECIFICATION Spec
CONSTANTS
  a = a
  b = b
  z = z
  Contexts = {c1, c2}
  Items = {a, b, z}
  Key <- MCKey
  Overlap = FALSE
  SortsEmpty = FALSE
  MaxBlocks = 4
  MaxLists = 2
VIEW UpToUnusedNodes
SYMMETRY Interchangeable
INVARIANTS
  TypeOK
  ReadsAgree
  BlocksConserved
  NoFault
PROPERTIES
  DoesAsAsked
  ImplementsSequences
