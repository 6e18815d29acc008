SPECIFICATION MCSpec
CONSTANTS
  Rounds = 3
  NumThreads = 2
  MaxCount <- MCMaxCount
  Nobody = Nobody
  C = 1
  CheckEvery = 2
  MaxIter = 6
INVARIANTS MutualExclusion FinalCount FencesSuffice ReportsLagBounded
PROPERTIES NobodyStarves EndsWithFullCount ImplementsCounter SomeoneFinishes RunEnds
CHECK_DEADLOCK FALSE
