SPECIFICATION Spec
CONSTANTS
  N = 3
  Limit = 2
  Names = {"a", "b"}
  Files = {"f", "g"}
  Batches <- MCBatches
  Exclusive = {TRUE, FALSE}
  Relinks = TRUE
INVARIANTS
  TypeOK
  NoConflictingLeases
  ExclusiveRunsAlone
  OneDialogAtATime
  NothingAbandoned
PROPERTIES
  NoBodyAfterAbort
  AdmitsInOrder
  AbortEndsBatch
  BatchReturns
