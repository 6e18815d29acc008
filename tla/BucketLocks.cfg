SPECIFICATION FairEitherSpec
CONSTANTS
  Nobody = Nobody
  Threads = {1, 2}
  Keys = {1, 2}
  Cap = 3
  Word = 8
  Hash <- MCHash
INVARIANTS SumIsSnapshot LocksInOrder EraseSeesKeyOrTombstone
PROPERTIES ImplementsSet SomeOperationEnds
