SPECIFICATION ClientSpec
CONSTANTS
  HeapSize = 190
  WordSize = 4
  SizeMod = 4096
  cxxTask = cxxTask
  rtosTask = rtosTask
  handler = handler
  Contexts = {cxxTask, rtosTask, handler}
  Handlers = {handler}
  NoContext = none
  Uses <- MCUses
  BlockSizes = {40}
  Counts = {2}
  Requests = {40, 47}
  HeapRequests = {64}
INVARIANTS
  ClientTypeOK
  PoolsAscending
  UsedNodesMatchOwners
  BlocksConserved
PROPERTIES
  BestFit
  KeepsContract
  CallsReturn
  MallocKeepsExtension
