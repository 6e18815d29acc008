SPECIFICATION FairSpec
CONSTANTS
  Threads = {1, 2}
  NumWords = 2
  Values = {0, 1, 2}
  EntryLists <- MCBack
  ReadWords <- MCBackReads
  Budgets <- MCBackBudgets
PROPERTIES OperationsEnd
