------------------------- MODULE MCTradeController -------------------------
(* Small instances of TradeController in live mode.  MCBacktestReport has    *)
(* one in backtest mode.                                                    *)
EXTENDS TradeController, TLC

CONSTANTS t1, p1, p2

(* Two pairs of one token. *)
LivePairs  == p1 :> t1 @@ p2 :> t1
LiveDex    == p1 :> "v2" @@ p2 :> "v2"

(* A single pair. *)
LonePair == p1 :> t1
LoneDex  == p1 :> "v3"
=============================================================================
