\* Any rows in the database, some unreadable; three workers race through three
\* chunks and nothing else fails.
SPECIFICATION Spec
CONSTANTS
  w1 = w1
  w2 = w2
  w3 = w3
  Ranges <- Range15
  ChunkSize = 1
  Workers = {w1, w2, w3}
  Capacity = 1
  Stored <- AnyRows
  Faults = {}
  MaxRuns = 1
INVARIANTS TypeOK
PROPERTIES Completes InOrderDelivery
