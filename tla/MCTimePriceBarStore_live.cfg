\* One pair, one reorganisation, any finality and any age of the header's cache.
SPECIFICATION Spec
CONSTANTS
  p1 = p1
  p2 = p2
  Pairs = {p1}
  PerBar = 3
  Retention = 3
  Period = 2
  IsBacktest = FALSE
  MaxBlock = 7
  MaxForks = 1
INVARIANTS PricesCanonical IndicatorsFresh FinalizedFirst
PROPERTIES FinalizedFrozen
