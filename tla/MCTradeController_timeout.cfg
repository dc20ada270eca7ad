\* A late transaction behind a timed out confirmation.
SPECIFICATION Spec
CONSTANTS
  t1 = t1
  p1 = p1
  p2 = p2
  NoTrade = NoTrade
  Tokens = {t1}
  Pairs = {p1}
  TokenOf <- LonePair
  DexOf <- LoneDex
  Mode = "live"
  MaxBlock = 2
INVARIANTS SinglePosition
