\* Two pairs of one token, three blocks, transactions that may time out; every
\* pending trade is resolved.
SPECIFICATION Spec
CONSTANTS
  t1 = t1
  p1 = p1
  p2 = p2
  NoTrade = NoTrade
  Tokens = {t1}
  Pairs = {p1, p2}
  TokenOf <- LivePairs
  DexOf <- LiveDex
  Mode = "live"
  MaxBlock = 3
INVARIANTS PendingOwned SavedIsComplete
PROPERTIES ImplementsLedger PendingResolves ReportWritten
