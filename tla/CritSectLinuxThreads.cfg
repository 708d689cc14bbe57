SPECIFICATION Spec
CONSTANTS
  Contexts = {t1, t2}
  NoContext = none
  MaxNesting = 2
INVARIANT MutualExclusion
