-------------------------- MODULE MCBacktestReport --------------------------
(* A small instance of BacktestReport: three pairs of one token, on both     *)
(* DEXes, and a pair of another.  Skipping a pair is like its absence, so    *)
(* the messages are the largest ones: the pairs of one token, which compete, *)
(* and a pair of each token.                                                *)
EXTENDS BacktestReport, TLC

CONSTANTS t1, t2, p1, p2, p3, p4

TwoTokens == p1 :> t1 @@ p2 :> t1 @@ p3 :> t1 @@ p4 :> t2
MixedDex  == p1 :> "v2" @@ p2 :> "v2" @@ p3 :> "v3" @@ p4 :> "v2"
OneOrBoth == {{p1, p2, p3}, {p1, p4}}
=============================================================================
