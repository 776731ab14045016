SPECIFICATION FairSpec
CONSTANTS
  Client = {c1, c2, c3, c4}
  Worker = {w1}
  MaxBatch = 2
  MaxPostingBatchSize = 2
INVARIANTS
  TypeOK
  OnePlace
  OwnResults
  CloseDrains
PROPERTIES
  CallsEnd
