\* Two pairs over four bars: gaps, retention, stale pairs.
SPECIFICATION Spec
CONSTANTS
  p1 = p1
  p2 = p2
  Pairs = {p1, p2}
  PerBar = 3
  Retention = 2
  Period = 2
  IsBacktest = TRUE
  MaxBlock = 9
  MaxForks = 0
SYMMETRY Symmetry
INVARIANTS TypeOK NeverFails WindowKept
