SPECIFICATION Spec
CONSTANTS
  Tasks = {t1, t2}
  Contexts = {t1, t2, i1, i2}
  NoContext = none
  EntryMasks = FALSE
  MaxNesting = 3
SYMMETRY Interchangeable
INVARIANTS
  TypeOK
  MutualExclusion
  AssertHolds
  CounterTracksNesting
  SnapshotFresh
PROPERTY LeavesStateAsFound
