SPECIFICATION Spec
CONSTANTS
  t1 = t1
  t2 = t2
  t3 = t3
  Threads <- MCThreads3
  Keys = {1, 2}
  Cap = 2
  Word = 3
  Hash <- MCHashWrap
SYMMETRY Symmetry
INVARIANTS KeysUnique KeysReachable SumCountsStableKeys
PROPERTIES WaitFree ImplementsSet
