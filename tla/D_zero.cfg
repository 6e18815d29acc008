SPECIFICATION Spec
CONSTANTS
  NumThreads = 2
  Keys = {1, 2}
  Hash <- MCHash
  Word = 8
  InitCap = 1
  Chunk = 1
  ProbeLimit = 0
  Flush = 1
  Debug = TRUE
  Ops <- MCOps22
INVARIANTS ExpansionFindsKeys
