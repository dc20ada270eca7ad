----------------------------- MODULE DexTrades -----------------------------
(***************************************************************************)
(* Uniswap V2 and V3 trades, as operators on values: how they are read from *)
(* a block's logs, what their prices are, how a block's trades become one   *)
(* tick per pair, and what a simulated trade would have been.               *)
(*                                                                          *)
(* Addresses are numbers, compared as the program compares them with WETH's. *)
(* What Uniswap keeps per side is a pair of numbers: slot 1 is token0's,    *)
(* slot 2 is token1's.  The makers of a tick, which nothing reads, are left  *)
(* out, and an address belongs to contracts of one DEX only.                *)
(***************************************************************************)
EXTENDS Integers, Sequences, Picking

CONSTANTS
  Weth,       \* WETH_ADDRESS
  Scale,      \* FIXED_POINT_SCALE, 2^96: the unit of prices
  Width,      \* 2^128: a U32F96 keeps that many units
  Word,       \* 2^256: U256 wraps
  MaxTrade    \* MAX_TRADE_SIZE_WEI

ASSUME WethAssumption   == Weth \in Nat
ASSUME NumberAssumption ==
  /\ Scale \in Nat \ {0} /\ Width \in Nat \ {0} /\ Word \in Nat \ {0}
  /\ MaxTrade \in Nat

Abs(x) == IF x < 0 THEN -x ELSE x
-----------------------------------------------------------------------------
(* Pairs: [dex, address, token0, token1, factory] *)

(* Definitions named X_Something, in this and the modules that extend it,   *)
(* are plausible bugs in the definition X that follows them; the project's  *)
(* mutation runs put one in the place of X to show that a property notices. *)

WethSlot(pair)  == IF pair.token0 = Weth THEN 1 ELSE 2
TokenSlot(pair) == IF pair.token0 = Weth THEN 2 ELSE 1

(* token_address *)
TokenAddress(pair) == IF pair.token0 = Weth THEN pair.token1 ELSE pair.token0

(* One value for each side, in Uniswap's order. *)
Sided(pair, weth, token) == IF pair.token0 = Weth THEN <<weth, token>> ELSE <<token, weth>>

(* decode: what the contract's answers must be for the pair to be known. *)
V2IsPair(pair) == Weth \in {pair.token0, pair.token1}
V3IsPair(pair) == pair.factory /\ Weth \in {pair.token0, pair.token1}
IsPair(pair)   == IF pair.dex = "v2" THEN V2IsPair(pair) ELSE V3IsPair(pair)
-----------------------------------------------------------------------------
(* Prices of a trade, in WETH, of the token with the given address *)

(* u32f96_from_u256_frac *)
FracPrice(n, d) == ((n * Scale) \div d) % Width

(* u32f96_from_sqrt_x96 *)
SqrtPrice(s, inverse) == IF inverse THEN ((Scale * Scale * Scale) \div (s * s)) % Width
                                    ELSE (((s % Width) * (s % Width)) \div Scale) % Width

(* A trade's WETH slot, from the order of the addresses. *)
WethSide(token) == IF token < Weth THEN 2 ELSE 1

ReservesPrice(reserves, token) ==
  FracPrice(reserves[WethSide(token)], reserves[3 - WethSide(token)])

ReservesBefore(t) == [i \in 1..2 |-> (t.reserves[i] - t.in[i] + t.out[i]) % Word]

(* Token0 in, or else token1 in, moved the root of the price by its amount  *)
(* over the liquidity.                                                      *)
AdjustedValue(amount, t) == IF t.liquidity = 0 THEN 0 ELSE (Abs(amount) * Scale) \div t.liquidity

SqrtBefore(t) == IF t.amount[1] > 0 THEN (t.sqrt + AdjustedValue(t.amount[1], t)) % Word
                                    ELSE (t.sqrt - AdjustedValue(t.amount[2], t)) % Word

(* token_price_before *)
V2PriceBefore(t, token) == ReservesPrice(ReservesBefore(t), token)
V3PriceBefore(t, token) == SqrtPrice(SqrtBefore(t), token > Weth)
PriceBefore(t, token) ==
  IF t.dex = "v2" THEN V2PriceBefore(t, token) ELSE V3PriceBefore(t, token)

(* token_price_after *)
V2PriceAfter(t, token) == ReservesPrice(t.reserves, token)
V3PriceAfter(t, token) == SqrtPrice(t.sqrt, token > Weth)
PriceAfter(t, token) ==
  IF t.dex = "v2" THEN V2PriceAfter(t, token) ELSE V3PriceAfter(t, token)

(* weth_volume *)
V2WethVolume(t, token) == t.in[WethSide(token)] + t.out[WethSide(token)]
V3WethVolume(t, token) == Abs(t.amount[WethSide(token)])
WethVolume(t, token) ==
  IF t.dex = "v2" THEN V2WethVolume(t, token) ELSE V3WethVolume(t, token)
-----------------------------------------------------------------------------
(* TickData *)

Larger(x, y)  == IF x > y THEN x ELSE y
Smaller(x, y) == IF x < y THEN x ELSE y

FromIndexedTrade(t, token) ==
  LET before == PriceBefore(t, token)
      after  == PriceAfter(t, token)
  IN  [open |-> before, close |-> after, high |-> Larger(before, after),
       low |-> Smaller(before, after), volume |-> WethVolume(t, token)]

(* The trade's volume replaces what there is. *)
AddIndexedTrade_VolumeReplaced(tick, t, token) ==
  LET price == PriceAfter(t, token) IN
  [tick EXCEPT !.high = Larger(@, price), !.low = Smaller(@, price),
               !.close = price, !.volume = WethVolume(t, token)]

AddIndexedTrade(tick, t, token) ==
  LET price == PriceAfter(t, token) IN
  [tick EXCEPT !.high = Larger(@, price), !.low = Smaller(@, price),
               !.close = price, !.volume = @ + WethVolume(t, token)]

(* reduce: everything but the first tick's volume is left out of the sum. *)
Reduce(ticks) ==
  LET data[i \in 1..Len(ticks)] ==
        IF i = 1 THEN ticks[1]
        ELSE [data[i - 1] EXCEPT !.high = Larger(@, ticks[i].high),
                                 !.low = Smaller(@, ticks[i].low), !.close = ticks[i].close]
  IN  data[Len(ticks)]

IsNegative(tick) == tick.close < tick.open
-----------------------------------------------------------------------------
(* Logs: [event, address, block, index, data] *)

Signatures == {"Sync", "SwapV2", "SwapV3"}

(* get_logs with the filter on event_signature_hashes *)
Filtered(logs) == Picked(logs, {i \in DOMAIN logs : logs[i].event \in Signatures})

(* Neighbours in the vector need not be neighbours in the block. *)
IsV2Swap_AnyIndex(prev, log) ==
  /\ prev.block = log.block /\ prev.address = log.address
  /\ prev.event = "Sync" /\ log.event = "SwapV2"

(* A V2 swap comes right after the sync of the same contract. *)
IsV2Swap(prev, log) ==
  /\ prev.block = log.block /\ prev.address = log.address
  /\ prev.index + 1 = log.index
  /\ prev.event = "Sync" /\ log.event = "SwapV2"

(* try_from at one log: a trade or none, as a sequence. *)
V2TradeAt(logs, i) ==
  IF i > 1 /\ IsV2Swap(logs[i - 1], logs[i])
  THEN LET data == logs[i].data IN
       <<[dex |-> "v2", address |-> logs[i].address, in |-> data.in, out |-> data.out,
          reserves |-> logs[i - 1].data.reserves]>>
  ELSE <<>>

V3TradeAt(logs, i) ==
  IF logs[i].event = "SwapV3"
  THEN LET data == logs[i].data IN
       <<[dex |-> "v3", address |-> logs[i].address, amount |-> data.amount,
          sqrt |-> data.sqrt, liquidity |-> data.liquidity]>>
  ELSE <<>>

TradeAt(logs, i) ==
  IF V2TradeAt(logs, i) # <<>> THEN V2TradeAt(logs, i) ELSE V3TradeAt(logs, i)

(* from_logs and from_receipt *)
FromLogs(logs) ==
  LET trades[i \in 0..Len(logs)] == IF i = 0 THEN <<>> ELSE trades[i - 1] \o TradeAt(logs, i)
  IN  trades[Len(logs)]

(* PairBlockTick: a V2 tick also has the reserves of the last trade. *)
V2NewTick(t, pair) ==
  [pair |-> pair, tick |-> FromIndexedTrade(t, TokenAddress(pair)), reserves |-> t.reserves]
V3NewTick(t, pair) == [pair |-> pair, tick |-> FromIndexedTrade(t, TokenAddress(pair))]
NewTick(t, pair) == IF t.dex = "v2" THEN V2NewTick(t, pair) ELSE V3NewTick(t, pair)

V2TickWith(pt, t) ==
  [pt EXCEPT !.tick = AddIndexedTrade(@, t, TokenAddress(pt.pair)), !.reserves = t.reserves]
V3TickWith(pt, t) == [pt EXCEPT !.tick = AddIndexedTrade(@, t, TokenAddress(pt.pair))]
TickWith(pt, t) == IF t.dex = "v2" THEN V2TickWith(pt, t) ELSE V3TickWith(pt, t)

(* build_many and Block::add_trade: trades of unknown pairs are dropped.    *)
(* pairs and the result are functions of the address.                       *)
AddTrade(ticks, t, pairs) ==
  IF t.address \notin DOMAIN pairs THEN ticks
  ELSE [a \in DOMAIN ticks \cup {t.address} |->
          IF a # t.address THEN ticks[a]
          ELSE IF a \in DOMAIN ticks THEN TickWith(ticks[a], t) ELSE NewTick(t, pairs[a])]

PairTicks(trades, pairs) ==
  LET ticks[i \in 0..Len(trades)] == IF i = 0 THEN <<>> ELSE AddTrade(ticks[i - 1], trades[i], pairs)
  IN  ticks[Len(trades)]
-----------------------------------------------------------------------------
(* simulate_trade_request and the amounts of make_trade_transaction_request, *)
(* on the state of the pool at the end of the block: the reserves of a V2    *)
(* pair; the root of the price and the liquidity of a V3 pool.               *)

(* Rounded up, as the router's amounts in are. *)
GetAmountOut_RoundedUp(amount, reserveIn, reserveOut) ==
  (amount * 997 * reserveOut) \div (reserveIn * 1000 + amount * 997) + 1

GetAmountOut(amount, reserveIn, reserveOut) ==
  (amount * 997 * reserveOut) \div (reserveIn * 1000 + amount * 997)

(* At most half a percent of the pool's WETH. *)
GetEthAmountIn(wethReserve) == Smaller((50 * wethReserve) \div 10000, MaxTrade)

(* The quoter: the pool's own step within one range of liquidity, no fee. *)
Quote(pool, slotIn, amount) ==
  LET units == pool.liquidity * Scale
      sqrt  == IF slotIn = 1
               THEN (units * pool.sqrt + units + amount * pool.sqrt - 1)
                      \div (units + amount * pool.sqrt)
               ELSE pool.sqrt + (amount * Scale) \div pool.liquidity
  IN  [sqrt |-> sqrt,
       out  |-> IF slotIn = 1 THEN (pool.liquidity * (pool.sqrt - sqrt)) \div Scale
                ELSE (units * (sqrt - pool.sqrt)) \div (sqrt * pool.sqrt)]

(* The V2 pair pays out no more than leaves the product of its reserves,    *)
(* the fee put aside, what it was (its check of k, without the product).    *)
PairPays(amount, out, reserveIn, reserveOut) ==
  out * (reserveIn * 1000 + amount * 997) <= amount * 997 * reserveOut

(* get_reserves: the pool's reserves by what they hold. *)
WethReserve(pair, pool)  == pool.reserves[WethSlot(pair)]
TokenReserve(pair, pool) == pool.reserves[TokenSlot(pair)]

V2Trade(pair, in, out, pool) ==
  [dex |-> "v2", address |-> pair.address, in |-> in, out |-> out,
   reserves |-> [i \in 1..2 |-> pool.reserves[i] + in[i] - out[i]]]

V2SimulateOpen(pair, pool) ==
  LET eth   == GetEthAmountIn(WethReserve(pair, pool))
      token == GetAmountOut(eth, WethReserve(pair, pool), TokenReserve(pair, pool))
  IN  V2Trade(pair, Sided(pair, eth, 0), Sided(pair, 0, token), pool)

(* The closing trade sells the tokens the opening trade got. *)
V2SimulateClose(pair, pool, openTrade) ==
  LET token == openTrade.out[TokenSlot(pair)]
      eth   == GetAmountOut(token, TokenReserve(pair, pool), WethReserve(pair, pool))
  IN  V2Trade(pair, Sided(pair, 0, token), Sided(pair, eth, 0), pool)

V3Trade(pair, amount, sqrt, pool) ==
  [dex |-> "v3", address |-> pair.address, amount |-> amount, sqrt |-> sqrt,
   liquidity |-> pool.liquidity]

(* open_eth_amount_in: a static size. *)
OpenEthAmountIn == MaxTrade

V3SimulateOpen(pair, pool) ==
  LET quote == Quote(pool, WethSlot(pair), OpenEthAmountIn)
  IN  V3Trade(pair, Sided(pair, OpenEthAmountIn, -quote.out), quote.sqrt, pool)

V3SimulateClose(pair, pool, openTrade) ==
  LET token == Abs(openTrade.amount[TokenSlot(pair)])
      quote == Quote(pool, TokenSlot(pair), token)
  IN  V3Trade(pair, Sided(pair, -quote.out, token), quote.sqrt, pool)

SimulateOpen(pair, pool) ==
  IF pair.dex = "v2" THEN V2SimulateOpen(pair, pool) ELSE V3SimulateOpen(pair, pool)

SimulateClose(pair, pool, openTrade) ==
  IF pair.dex = "v2" THEN V2SimulateClose(pair, pool, openTrade)
                     ELSE V3SimulateClose(pair, pool, openTrade)

(* make_trade_transaction_request: what goes to the router, and the least   *)
(* that has to come back.                                                   *)
V2OpenTransaction(pair, pool) ==
  LET eth == GetEthAmountIn(WethReserve(pair, pool)) IN
  [in |-> eth, min |-> GetAmountOut(eth, WethReserve(pair, pool), TokenReserve(pair, pool))]

V2CloseTransaction(pair, pool, openTrade) ==
  LET token == openTrade.out[TokenSlot(pair)] IN
  [in |-> token, min |-> GetAmountOut(token, TokenReserve(pair, pool), WethReserve(pair, pool))]

V3OpenTransaction(pair, pool) ==
  [in |-> OpenEthAmountIn, min |-> Quote(pool, WethSlot(pair), OpenEthAmountIn).out]

V3CloseTransaction(pair, pool, openTrade) ==
  LET token == Abs(openTrade.amount[TokenSlot(pair)]) IN
  [in |-> token, min |-> Quote(pool, TokenSlot(pair), token).out]

OpenTransaction(pair, pool) ==
  IF pair.dex = "v2" THEN V2OpenTransaction(pair, pool) ELSE V3OpenTransaction(pair, pool)

CloseTransaction(pair, pool, openTrade) ==
  IF pair.dex = "v2" THEN V2CloseTransaction(pair, pool, openTrade)
                     ELSE V3CloseTransaction(pair, pool, openTrade)
=============================================================================
