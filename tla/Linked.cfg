SPECIFICATION MCSpec
CONSTANTS
  Threads = {t1, t2, t3}
  minKey = 1
  maxKey = 3
  ListBudgets <- MCBudgets111
  TreeBudgets <- MCBudgets111
  Fills <- MCFills
  Nodes = {0, 1, 2, 3, 4, 5, 6, 99}
  head = 0
  tail = 99
  TreeNodes = {1, 2, 3, 11, 12, 13, 31, 32, 33, 34, 35, 36, 100, 101, 102}
  NULL = 0
  root = 100
  low = 101
  high = 102
SYMMETRY MCSymmetry
INVARIANTS LinksAgree MarkedLeadOn OneTree
PROPERTIES ImplementSets
