SPECIFICATION Spec
CONSTANTS
  a = a
  b = b
  z = z
  Contexts = {c1, c2}
  Items = {a, b, z}
  Key <- MCKey
  Overlap = TRUE
  SortsEmpty = FALSE
  MaxBlocks = 4
  MaxLists = 2
SYMMETRY Interchangeable
INVARIANT NoFault
