SPECIFICATION FairSpec
CONSTANTS
  NumThreads = 2
  Keys = {1, 2}
  Hash <- MCHashCollide
  Word = 8
  InitCap = 2
  Chunk = 1
  ProbeLimit = 0
  Flush = 2
  Debug = TRUE
  Ops <- MCOps31
INVARIANTS NewTableHoldsMovedKeys CountersTellBuckets
PROPERTIES ImplementsSet OneMigrationAtATime MarkedIsFrozen OperationsEnd
