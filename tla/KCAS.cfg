SPECIFICATION FairSpec
CONSTANTS
  Threads = {1, 2, 3}
  NumWords = 2
  Values = {0, 1, 2}
  EntryLists <- MCUp
  ReadWords <- MCUpReads
  Budgets <- MCUpBudgets
INVARIANTS TagsAlive NoHelpCycle
PROPERTIES ImplementsKCAS SucceedsLocked OperationsEnd
