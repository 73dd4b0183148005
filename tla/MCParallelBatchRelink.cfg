SPECIFICATION Spec
CONSTANTS
  N = 3
  Limit = 3
  Names = {"a", "b"}
  Files = {"f", "g"}
  Batches <- MCRelinkBatches
  Exclusive = {FALSE}
  Relinks = TRUE
INVARIANTS
  ConcurrentBodiesDisjoint
