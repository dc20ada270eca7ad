-------------------------- MODULE BacktestPipeline --------------------------
(***************************************************************************)
(* A backtest of one pair from end to end: its pool trades on chain and     *)
(* logs what it does; the block's filtered logs become trades, the trades a *)
(* tick, the tick goes into the bars, the strategy looks at the bars, and a *)
(* request is simulated against the pool as the block left it.              *)
(*                                                                          *)
(* BlockRangeIndexer delivers the blocks in order, each once; TimePriceBars *)
(* has the bars; TradeController shows that the book of a token that no     *)
(* other pair trades is this: flat, or holding one trade, between blocks.   *)
(***************************************************************************)
EXTENDS MomentumStrategy

CONSTANTS
  Contracts,   \* the pair contracts, by address
  Fork,        \* the address of one that emits something between sync and swap
  Alien,       \* the address of one that is no pair the program accepts
  Markets,     \* the addresses of the pools a backtest may follow
  Rungs,       \* how many prices a pool can have
  PoolAt(_, _, _),  \* the state of a pair's pool at a rung with a depth
  Flash,       \* what a V2 swap borrows and returns within the call, in WETH
  MaxBlock,    \* bound: the highest block number
  MaxEvents    \* bound: how often a contract does something

(* Uniswap's factories give a pair its tokens in the order of their addresses. *)
ASSUME ContractsAssumption ==
  /\ Markets \cup {Fork, Alien} \subseteq DOMAIN Contracts /\ Alien \notin Markets
  /\ \A a \in DOMAIN Contracts : LET pair == Contracts[a] IN
       /\ pair.address = a /\ pair.dex \in {"v2", "v3"} /\ IsPair(pair) = (a # Alien)
       /\ pair.token0 \in Nat /\ pair.token1 \in Nat /\ pair.token0 < pair.token1
ASSUME BoundsAssumption ==
  Rungs \in Nat \ {0, 1} /\ Flash \in Nat /\ MaxBlock \in Nat /\ MaxEvents \in Nat

(* The price of a token of the pair in WETH at a state of its pool *)
PriceIn(pair, pool) ==
  IF pair.dex = "v2"
  THEN (pool.reserves[WethSlot(pair)] * Scale) \div pool.reserves[TokenSlot(pair)]
  ELSE IF WethSlot(pair) = 2 THEN (pool.sqrt * pool.sqrt) \div Scale
       ELSE (Scale * Scale * Scale) \div (pool.sqrt * pool.sqrt)

(* The pools have liquidity, and amounts and prices that fit the numbers the *)
(* contracts and the program keep them in.                                  *)
ASSUME PoolsAssumption ==
  \A a \in Markets, r \in 1..Rungs, d \in 1..2 : LET pool == PoolAt(Contracts[a], r, d) IN
    /\ PriceIn(Contracts[a], pool) < Width
    /\ IF Contracts[a].dex = "v2" THEN pool.reserves \in [1..2 -> 1..Word - 1]
       ELSE pool.sqrt \in 1..Width - 1 /\ pool.liquidity \in Nat \ {0}

VARIABLES
  market,     \* the address of the pool that is followed
  rung,       \* rung, depth: the state of that pool
  depth,
  logs,       \* the logs of the block being made, all of them
  swaps,      \* history: the pool before and after each of its swaps in it
  events,     \* how many events there were
  block,      \* the number of the last block
  bars,       \* the pair's bars
  position,   \* the open trade, or none, as a sequence
  decision,   \* what the strategy said of the last block: "open", "close", "none"
  stored,     \* table blocks: the pair's tick in each block that has one
  closes,     \* history: first and last price of each block the pool traded in
  trip        \* history: the last closed position, with its pools

chainVars == <<market, rung, depth, logs, swaps, events>>
vars == <<chainVars, block, bars, stored, position, decision, closes, trip>>

(* get_pairs: the contracts whose answers decode to a pair. *)
KnownPairs == [a \in {b \in DOMAIN Contracts : IsPair(Contracts[b])} |-> Contracts[a]]

Pair == Contracts[market]
Pool == PoolAt(Pair, rung, depth)

Side  == 1..2
Event == {"Sync", "SwapV2", "SwapV3", "Other"}

TypeOK ==
  /\ market \in Markets
  /\ rung \in 1..Rungs /\ depth \in 1..2
  /\ \A i \in DOMAIN logs : logs[i].event \in Event /\ logs[i].index = i
  /\ Len(swaps) <= events /\ events \in 0..MaxEvents
  /\ block \in 0..MaxBlock
  /\ DOMAIN bars.data \subseteq 1..BarOf(MaxBlock) /\ Cardinality(DOMAIN bars.data) <= Retention
  /\ Len(position) <= 1 /\ Len(trip) <= 1
  /\ decision \in {"open", "close", "none"}
  /\ DOMAIN closes = DOMAIN stored /\ DOMAIN stored \subseteq 1..block

Init ==
  /\ market \in Markets
  /\ rung = 2 /\ depth = 1
  /\ logs = <<>> /\ swaps = <<>> /\ events = 0
  /\ block = 0
  /\ bars = NewBars /\ stored = <<>>
  /\ position = <<>> /\ trip = <<>>
  /\ decision = "none"
  /\ closes = <<>>
-----------------------------------------------------------------------------
(* The chain: what the contracts log *)

LogBy(address, event, data) == [event |-> event, address |-> address, data |-> data]

(* The block's logs go on with these: log_index counts them all. *)
Emit(new) ==
  logs' = logs \o [i \in 1..Len(new) |->
                     [event |-> new[i].event, address |-> new[i].address, data |-> new[i].data,
                      index |-> Len(logs) + i, block |-> block + 1]]

NoData == [none |-> 0]
Synced(pool)  == LogBy(market, "Sync", [reserves |-> pool.reserves])
Other(address) == LogBy(address, "Other", NoData)

Gained(from, to) == [i \in Side |-> IF to[i] > from[i] THEN to[i] - from[i] ELSE 0]

(* A V2 pair logs the new reserves and then the amounts, in which a flash   *)
(* swap's WETH counts both ways.                                            *)
V2Logs(from, to) ==
  <<Synced(to),
    LogBy(market, "SwapV2",
          [in  |-> [i \in Side |-> Gained(from.reserves, to.reserves)[i] + Sided(Pair, Flash, 0)[i]],
           out |-> [i \in Side |-> Gained(to.reserves, from.reserves)[i] + Sided(Pair, Flash, 0)[i]]])>>

(* What each side of a V3 pool gets when the price moves in one range of    *)
(* liquidity.                                                               *)
V3Amounts(from, to) ==
  <<(from.liquidity * Scale * (from.sqrt - to.sqrt)) \div (from.sqrt * to.sqrt),
    (from.liquidity * (to.sqrt - from.sqrt)) \div Scale>>

V3Logs(from, to) ==
  <<LogBy(market, "SwapV3", [amount |-> V3Amounts(from, to), sqrt |-> to.sqrt,
                             liquidity |-> to.liquidity])>>

Happens == block < MaxBlock /\ events < MaxEvents /\ events' = events + 1

(* Somebody trades on the pool. *)
Swap(r) ==
  LET to == PoolAt(Pair, r, depth) IN
  /\ Happens /\ r # rung
  /\ rung' = r
  /\ Emit(IF Pair.dex = "v2" THEN V2Logs(Pool, to) ELSE V3Logs(Pool, to))
  /\ swaps' = Append(swaps, [from |-> Pool, to |-> to])
  /\ UNCHANGED <<market, depth, block, bars, stored, position, decision, closes, trip>>

(* Liquidity is added or removed: a V2 pair syncs, neither swaps. *)
Provide ==
  /\ Happens
  /\ depth' = 3 - depth
  /\ Emit((IF Pair.dex = "v2" THEN <<Synced(PoolAt(Pair, rung, depth'))>> ELSE <<>>)
          \o <<Other(market)>>)
  /\ UNCHANGED <<market, rung, swaps, block, bars, stored, position, decision, closes, trip>>

(* Another contract does something: the fork, which logs more than a V2     *)
(* pair does, or one that is no pair of WETH at all.                        *)
Elsewhere(address) ==
  LET sync == LogBy(address, "Sync", [reserves |-> <<4, 4>>])
      swap == LogBy(address, "SwapV2", [in |-> <<1, 0>>, out |-> <<0, 1>>])
  IN
  /\ Happens
  /\ Emit(IF address = Fork THEN <<sync, Other(address), swap>> ELSE <<sync, swap>>)
  /\ UNCHANGED <<market, rung, depth, swaps, block, bars, stored, position, decision, closes, trip>>
-----------------------------------------------------------------------------
(* The program: one block *)

(* fetch_from_rpc and build_many for the block. *)
BlockTicks == PairTicks(FromLogs(Filtered(logs)), KnownPairs)

(* The pool as the last trade of a block saw it, not as the block left it. *)
PoolNow_Before == IF swaps = <<>> THEN Pool ELSE Last(swaps).from

(* The simulation asks for the state at the request's block. *)
PoolNow == Pool

(* insert_block for this pair: in a backtest the bars before the block's    *)
(* own are final.                                                           *)
BarsWith(n) == IF market \in DOMAIN BlockTicks
               THEN InsertData(bars, n, BlockTicks[market].tick, BarOf(n) - 1) ELSE bars

(* on_indexed_block_message: only pairs that traded in the block are looked *)
(* at, and whether the position is open decides which question is asked.    *)
Decision(n) ==
  IF market \notin DOMAIN BlockTicks THEN "none"
  ELSE IF position = <<>> /\ ShouldOpen(BarsWith(n).data, BarOf(n)) THEN "open"
  ELSE IF position # <<>> /\ ShouldClose(BarsWith(n).data, BarOf(n)) THEN "close"
  ELSE "none"

(* open_position or close_position; a failed simulation changes nothing. *)
Execute(op) ==
  \/ UNCHANGED <<position, trip>>
  \/ /\ op = "open"
     /\ position' = <<[trade |-> SimulateOpen(Pair, PoolNow), pool |-> Pool]>>
     /\ UNCHANGED trip
  \/ /\ op = "close"
     /\ position' = <<>>
     /\ trip' = <<[open |-> position[1].trade, opened |-> position[1].pool,
                   close |-> SimulateClose(Pair, PoolNow, position[1].trade), closed |-> Pool]>>

PoolPrice(pool) == PriceIn(Pair, pool)

(* f with x at n *)
Entered(f, n, x) == [m \in DOMAIN f \cup {n} |-> IF m = n THEN x ELSE f[m]]

EndBlock ==
  LET n == block + 1 IN
  /\ n <= MaxBlock
  /\ market \in DOMAIN BlockTicks => CanInsert(bars, n, BlockTicks[market].tick, BarOf(n) - 1)
  /\ block' = n
  /\ stored' = IF market \in DOMAIN BlockTicks THEN Entered(stored, n, BlockTicks[market].tick) ELSE stored
  /\ bars' = BarsWith(n)
  /\ decision' = Decision(n)
  /\ Execute(Decision(n))
  /\ closes' = IF swaps = <<>> THEN closes
               ELSE Entered(closes, n, [first |-> PoolPrice(Head(swaps).from),
                                        last |-> PoolPrice(Last(swaps).to)])
  /\ logs' = <<>> /\ swaps' = <<>>
  /\ UNCHANGED <<market, rung, depth, events>>

(* The end of the range. *)
Stopped == block = MaxBlock /\ UNCHANGED vars

Next == \/ \E r \in 1..Rungs : Swap(r)
        \/ Provide
        \/ \E a \in {Fork, Alien} : Elsewhere(a)
        \/ EndBlock
        \/ Stopped

Spec == Init /\ [][Next]_vars
-----------------------------------------------------------------------------
(* The API's price ticks: get_price_ticks inserts the stored blocks of a     *)
(* time range into bars of its own, which keep everything.  An error would   *)
(* be logged and the fold go on.                                            *)

Chart == INSTANCE TimePriceBars WITH Retention <- Retention + MaxBlock + 1

(* What is finalized with a block is its own bar. *)
ChartFinal_Own(n) == BarOf(n)

(* With a block the bars before its own are final. *)
ChartFinal(n) == BarOf(n) - 1

ChartWith(b, n) ==
  IF Chart!CanInsert(b, n, stored[n], ChartFinal(n))
  THEN Chart!InsertData(b, n, stored[n], ChartFinal(n)) ELSE b

(* query_by_timestamp_range: no order is asked for, the index on timestamps *)
(* has them in theirs.                                                      *)
ChartBars(from, to) ==
  LET chart[n \in from - 1..to] ==
        IF n < from THEN NewBars
        ELSE IF n \in DOMAIN stored THEN ChartWith(chart[n - 1], n) ELSE chart[n - 1]
  IN  chart[to].data

(* PriceTickResponse::from_time_price_bar *)
PriceTick(bar) ==
  LET data == BarData(bar) IN
  [open |-> data.open, high |-> data.high, low |-> data.low, close |-> data.close,
   ema |-> Ema(bar), sma |-> IF HasBands(bar) THEN <<BandMean(bar)>> ELSE <<>>]
-----------------------------------------------------------------------------
(* Properties *)

(* What a transaction's receipt says was traded is what the indexer finds   *)
(* in the filtered logs: filtering never makes neighbours of a sync and a   *)
(* swap that do not belong together.                                        *)
SameTradesUnfiltered == FromLogs(logs) = FromLogs(Filtered(logs))

Moved(pair, s) ==
  IF pair.dex = "v2" THEN Abs(s.to.reserves[WethSlot(pair)] - s.from.reserves[WethSlot(pair)]) + 2 * Flash
                     ELSE Abs(V3Amounts(s.from, s.to)[WethSlot(pair)])

Volume(pair, ss) ==
  LET volume[i \in 0..Len(ss)] == IF i = 0 THEN 0 ELSE volume[i - 1] + Moved(pair, ss[i])
  IN  volume[Len(ss)]

Prices(pair, ss) == {PriceIn(pair, s.to) : s \in Range(ss)} \cup {PriceIn(pair, Head(ss).from)}

(* A block's tick of the pool is what the pool did in it: it closes at the  *)
(* pool's price, its volume is the WETH that moved, and for a V2 pair it    *)
(* opens at the price before the first swap and spans all prices in         *)
(* between, whatever else was logged and whichever side is WETH.  The first *)
(* price of a V3 pool is another matter, see PriceBeforeTrade.              *)
TickFollowsPool ==
  IF swaps = <<>> THEN market \notin DOMAIN BlockTicks
  ELSE LET tick == BlockTicks[market].tick IN
    /\ tick.close = PoolPrice(Last(swaps).to)
    /\ tick.volume = Volume(Pair, swaps)
    /\ Pair.dex = "v2" => /\ tick.open = PoolPrice(Head(swaps).from)
                          /\ tick.high = Max(Prices(Pair, swaps)) /\ tick.low = Min(Prices(Pair, swaps))

(* Comment on token_price_before: "get the token price before the trade". *)
PriceBeforeTrade ==
  \A i \in DOMAIN swaps : LET t == FromLogs(Filtered(logs)) IN
    Len(swaps) = Len(t) => PriceBefore(t[i], TokenAddress(Pair)) = PoolPrice(swaps[i].from)
-----------------------------------------------------------------------------
(* What the strategy should have seen, from the pool's own prices: bars     *)
(* exist for the time ranges it traded in, each as long as PerBar blocks.   *)
Traded(k)    == {n \in DOMAIN closes : BarOf(n) = k}
MarketClose(k) == closes[Max(Traded(k))].last
MarketOpen(k)  == closes[Min(Traded(k))].first

(* The average is smoothed from the last bar before which there is none. *)
EmaStart(k) == Max({j \in 1..k : Traded(j) # {} /\ Traded(j - 1) = {}
                                  /\ \A i \in j..k : Traded(i) # {}})
MarketEma(from, k) == Smoothed([i \in 1..k - from + 1 |-> MarketClose(from + i - 1)])
MarketMean(k) == MeanOf({<<j, MarketClose(j)>> : j \in k - Period + 1 .. k})

WantsOpen ==
  LET k   == BarOf(block)
      ema == MarketEma(EmaStart(k), k)
  IN
  /\ block \in DOMAIN closes
  /\ MarketClose(k) >= MarketOpen(k)
  /\ \A j \in k - Period + 1 .. k : Traded(j) # {}
  /\ MarketClose(k) >= ema /\ MarketMean(k) >= ema /\ MarketClose(k) >= MarketMean(k)
  /\ EmaStart(k) < k => ema >= MarketEma(EmaStart(k), k - 1)

WantsClose ==
  LET k == BarOf(block) IN
  block \in DOMAIN closes /\ MarketClose(k) <= MarketEma(EmaStart(k), k)

(* The strategy decides on the market: after gaps and padding, retention    *)
(* and finalization, several swaps in a block and blocks in a bar, it opens *)
(* or closes exactly when its rules say so of the pool's own prices up to   *)
(* and including this block.  (Opening asks for the bar's first price, so   *)
(* that is said of V2 pairs only.)                                          *)
DecidesOnMarket ==
  [][block' # block =>
      /\ decision' = "close" <=> position # <<>> /\ WantsClose'
      /\ Pair.dex = "v2" => (decision' = "open" <=> position = <<>> /\ WantsOpen')]_vars

(* The chart that the API draws from the stored blocks shows what the        *)
(* strategy saw: every bar it still has, with the same prices, average and   *)
(* band, although the chart knows no retention and its bars are not those    *)
(* the decisions were made on.  A chart that starts later has the same       *)
(* prices in every bar that it has in full.  Charts are drawn of a backtest  *)
(* that has ended.                                                          *)
Prices4(tick) == <<tick.open, tick.high, tick.low, tick.close>>

ChartShowsBars ==
  block = MaxBlock => \A from \in 1..block + 1 : LET chart == ChartBars(from, block) IN
    \A k \in DOMAIN bars.data : BarOf(from - 1) < k =>
      /\ k \in DOMAIN chart
      /\ Prices4(PriceTick(chart[k])) = Prices4(PriceTick(bars.data[k]))
      /\ from = 1 => PriceTick(chart[k]) = PriceTick(bars.data[k])

Paid(t)     == IF t.dex = "v2" THEN t.in[WethSlot(Pair)] ELSE t.amount[WethSlot(Pair)]
Received(t) == IF t.dex = "v2" THEN t.out[WethSlot(Pair)] ELSE - t.amount[WethSlot(Pair)]
Sold(t)     == IF t.dex = "v2" THEN t.in[TokenSlot(Pair)] ELSE t.amount[TokenSlot(Pair)]
Bought(t)   == IF t.dex = "v2" THEN t.out[TokenSlot(Pair)] ELSE - t.amount[TokenSlot(Pair)]

(* A simulated round trip sells the tokens it bought, and does not earn     *)
(* anything unless the pool's price rose: nothing in the simulation makes   *)
(* money by itself.                                                         *)
HonestRoundTrip ==
  \A i \in DOMAIN trip : LET r == trip[i] IN
    /\ Sold(r.close) = Bought(r.open)
    /\ Received(r.close) > Paid(r.open) => PoolPrice(r.closed) > PoolPrice(r.opened)

(* A backtest trades what a live run would send: on the same state of the   *)
(* pool the transaction and the simulation of a request agree on what goes  *)
(* in and what comes out, for either DEX, either side and both operations,  *)
(* and a V2 pair would really pay the simulated amount.                     *)
SameAmounts(tx, in, out) == tx.in = in /\ tx.min = out

Pays(t, from, to) == Pair.dex = "v2" =>
  PairPays(t.in[from], t.out[to], Pool.reserves[from], Pool.reserves[to])

SimulatesTransactions ==
  LET open == SimulateOpen(Pair, PoolNow) IN
  /\ SameAmounts(OpenTransaction(Pair, Pool), Paid(open), Bought(open))
  /\ Pays(open, WethSlot(Pair), TokenSlot(Pair))
  /\ \A i \in DOMAIN position :
       LET close == SimulateClose(Pair, PoolNow, position[i].trade) IN
       /\ SameAmounts(CloseTransaction(Pair, Pool, position[i].trade), Sold(close), Received(close))
       /\ Pays(close, TokenSlot(Pair), WethSlot(Pair))
=============================================================================
