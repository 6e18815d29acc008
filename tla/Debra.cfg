SPECIFICATION DebraSpec
CONSTANTS
  NUM_PROCESSES = 2
  MIN_OPS_BEFORE_READ = 1
  NUMBER_OF_EPOCH_BAGS = 8
  NUMBER_OF_ALWAYS_EMPTY_EPOCH_BAGS = 3
  Records = {r1, r2}
  r1 = r1
  r2 = r2
  LongBudgets <- MCLongBudgets
  LateBudgets <- MCLateBudgets
SYMMETRY Symmetric
INVARIANTS NoUseAfterFree GracePeriod
