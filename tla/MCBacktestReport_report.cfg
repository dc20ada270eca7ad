\* Two runs of the process; one of four blocks closes a token twice.
SPECIFICATION ReportSpec
CONSTANTS
  t1 = t1
  t2 = t2
  p1 = p1
  p2 = p2
  p3 = p3
  p4 = p4
  NoTrade = NoTrade
  Tokens = {t1, t2}
  Pairs = {p1, p2, p3, p4}
  TokenOf <- TwoTokens
  DexOf <- MixedDex
  Mode = "backtest"
  MaxBlock = 4
  Messages <- OneOrBoth
  MaxRuns = 2
  MaxTotal = 4
INVARIANTS TypeOK ClosedPairsMatch BacktestQuiescent ReportTypeOK ReportWhole TradesInTurns
