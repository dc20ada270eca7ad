\* Any failure but that of a query, and up to two restarts over the same range.
SPECIFICATION Spec
CONSTANTS
  w1 = w1
  w2 = w2
  w3 = w3
  Ranges <- Range14
  ChunkSize = 1
  Workers = {w1, w2}
  Capacity = 1
  Stored <- NoRows
  Faults = {"rpc", "logs", "dbWrite", "strategy", "crash"}
  MaxRuns = 3
INVARIANTS NoConflict ExecutedAsStored
PROPERTIES AlwaysReturns
