------------------------- MODULE MCBacktestPipeline -------------------------
(* Small instances of BacktestPipeline: WETH is 5, tokens are below or above *)
(* it; pools have three prices, 1/4, 1 and 4 WETH for a token.               *)
EXTENDS BacktestPipeline, TLC

Contract(address, dex, token0, token1) ==
  address :> [dex |-> dex, address |-> address, token0 |-> token0, token1 |-> token1,
              factory |-> TRUE]

MCContracts ==
  Contract(11, "v2", Weth, 7) @@ Contract(12, "v2", 3, Weth) @@
  Contract(13, "v3", Weth, 8) @@ Contract(14, "v3", 2, Weth) @@
  Contract(15, "v2", 4, Weth) @@ Contract(16, "v2", 3, 7)

MCPoolAt(pair, r, d) ==
  LET weth  == <<600, 1200, 2400>>[r] * d
      token == <<2400, 1200, 600>>[r] * d
      sqrt  == IF pair.token0 = Weth THEN <<512, 256, 128>>[r] ELSE <<128, 256, 512>>[r]
  IN  IF pair.dex = "v2" THEN [reserves |-> Sided(pair, weth, token)]
                         ELSE [sqrt |-> sqrt, liquidity |-> 1200 * d]
=============================================================================
