\* A gap that ends in a later bar than it began.
SPECIFICATION Spec
CONSTANTS
  p1 = p1
  p2 = p2
  Pairs = {p1}
  PerBar = 2
  Retention = 3
  Period = 2
  IsBacktest = TRUE
  MaxBlock = 7
  MaxForks = 0
INVARIANTS PaddedInOwnBar
