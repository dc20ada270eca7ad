-------------------------- MODULE MomentumStrategy --------------------------
(***************************************************************************)
(* The momentum strategy's decisions on the bars of a pair whose ticks are  *)
(* TickData, and the numbers its indicators have there.  The width of the   *)
(* bands, which it does not look at, is left out.                           *)
(***************************************************************************)
EXTENDS TimePriceBars, DexTrades

(* The ticks of a bar in the order of their blocks, and its data. *)
TicksOf(bar) == [i \in 1..Cardinality(DOMAIN bar.ticks) |-> bar.ticks[StartOf(bar) + i - 1]]
BarData(bar) == Reduce(TicksOf(bar))
CloseOf(bar) == Close(bar).close

(* The smoothing factor 2 / (INDICATOR_EMA_PERIOD + 1). *)
EmaPeriod == 9

Smooth(prev, close) == prev + (2 * (close - prev)) \div (EmaPeriod + 1)

Smoothed(closes) ==
  LET ema[i \in 1..Len(closes)] ==
        IF i = 1 THEN closes[1] ELSE Smooth(ema[i - 1], closes[i])
  IN  ema[Len(closes)]

(* Indicators::ema: the average, and how much this bar changed it. *)
EmaOf(ticks)  == Smoothed([i \in 1..Len(ticks) |-> ticks[i].close])
Ema(bar)      == EmaOf(bar.ind.ema)
EmaSlope(bar) == IF Len(bar.ind.ema) = 1 THEN 0 ELSE Ema(bar) - EmaOf(Front(bar.ind.ema))

(* Indicators::bollinger_band: the mean, if every bar of the period exists. *)
HasBands(bar) == Cardinality(bar.ind.closes) = Period
MeanOf(closes) == MapThenSumSet(LAMBDA c : c[2], closes) \div Period
BandMean(bar)  == MeanOf({<<c[1], c[2].close>> : c \in bar.ind.closes})

(* should_open_position at bar k of the bars d *)
ShouldOpen(d, k) ==
  /\ k \in DOMAIN d
  /\ ~ IsNegative(BarData(d[k]))
  /\ d[k].ind # NoIndicators /\ HasBands(d[k])
  /\ CloseOf(d[k]) >= Ema(d[k])
  /\ BandMean(d[k]) >= Ema(d[k])
  /\ CloseOf(d[k]) >= BandMean(d[k])
  /\ EmaSlope(d[k]) >= 0

(* The price must have fallen below the average. *)
ShouldClose_Strict(d, k) ==
  k \in DOMAIN d /\ d[k].ind # NoIndicators /\ CloseOf(d[k]) < Ema(d[k])

(* should_close_position: also when the price equals the average. *)
ShouldClose(d, k) ==
  k \in DOMAIN d /\ d[k].ind # NoIndicators /\ CloseOf(d[k]) <= Ema(d[k])
=============================================================================
