SPECIFICATION MCSpec
CONSTANTS
  Threads = {1, 2}
  minKey = 1
  maxKey = 3
  ListBudgets <- MCNoBudgets
  TreeBudgets <- MCBudgets13
  Fills <- MCFill2
  Nodes = {0, 1, 2, 3, 4, 5, 6, 99}
  head = 0
  tail = 99
  TreeNodes = {1, 2, 3, 11, 12, 13, 31, 32, 33, 34, 35, 36, 37, 38, 100, 101, 102}
  NULL = 0
  root = 100
  low = 101
  high = 102
INVARIANTS ChecksumAgrees
