SPECIFICATION MCSpec
CONSTANTS
  Threads = {1, 2}
  TreeBudgets <- MCTreeBudgets
  TableBudgets <- MCTableBudgets
  minKey = 1
  maxKey = 2
  MAX_RETRIES = 2
  Nodes = {1, 2, 3, 4, 5, 6, 11, 12, 20, 21, 22}
  NULL = NULL
  root = 20
  low = 21
  high = 22
  gLock = gLock
  InitCap = 2
  Flush = 2
  ProbeLimit = 1
  Word = 16
  Hash <- MCHash
  Nobody = 0
INVARIANTS NoFreedNodeRead TableFits
PROPERTIES ImplementsSet OperationsEnd
