# Verification of pochtecatl's indexing and trading core

pochtecatl is a trading strategy runner for Uniswap pairs on Base. One process
(`bin/strategy`) indexes blocks into price bars, lets a momentum strategy decide per
traded pair, and keeps a book of trades; another (`bin/api`) serves the stored
backtests. This directory holds TLA+ modules of the parts where ordering, concurrency,
failure and the meaning of numbers matter, from the logs of a block to the pages of the
API, TLC runs over small instances of them, and TLAPS proofs for every
instance.

    tlc -workers 2 -config MCTradeController_live.cfg MCTradeController
    tlapm TradeControllerProofs.tla

`PROJECT.json` names for every definition the source lines it stands for, for every
property a mutation of the code that it notices, and the hazards at their lines.

## 1. The system

```
 rpc node, database                                               report (database)
        |                                                                ^
        v                                                                |
 BlockRangeIndexer --block--> TimePriceBarStore --bars--> StrategyExecutor --request--> TradeController
   |  workers, channel,          insert_block               one task per request         send_tx: simulate |
   |  one handler task                                                                   send and watch    |
   +--> BlockBuilder --> DexProvider.get_pairs (shared cache of pairs)                          Uniswap V2/V3

 API server: blocks table --replay--> price chart;  closed trades --> trades of a pair
```

| Component | State | Operations | Hard behaviour | What makes it correct |
|---|---|---|---|---|
| **TradeController** (`trade_controller/`) | `Trades`: per token the active trade (pending open, open, pending close, none) and the closed ones, one `RwLock` | `open_position`, `close_position`, `send_tx` (three modes), `on_confirmed`, `pending_handle`, the closed-trades report | requests for pairs of one token run concurrently; confirmations outlive their block; every step after a claim may fail; the confirmation times out while its transaction lives on | one writer per pending token; a close files the trade it was decided on; every failure undoes exactly its claim; the report is complete |
| **StrategyExecutor** (`strategies/strategy_executor.rs`) | none; read locks on book and bars during dispatch | `on_indexed_block_message` | decides on a reading of the book, acts after the lock is gone | decisions of one block are consistent; the block ends when its tasks have |
| **main** | none | indexer, then `pending_handle`, then the report | order of the three | nothing is still to come when the report is written |
| **BlockRangeIndexer** (`indexer/block_range_indexer.rs`, `block_chunk.rs`) | chunk iterator, bounded channel, `next_block_number`, `chunk_buffer`; the `blocks` table | workers fetch chunks (database or rpc); the handler persists, orders and executes them; `exec` joins | chunks finish in any order; backpressure; a failure on either side; restarts over a half filled table | blocks executed once, in order, without gaps; `exec` returns; repeated runs see the same |
| **TimePriceBarStore** (`primitives/time_price_bars`) | bars per pair, last inserted and last pruned block | `insert_block` | reorganisations, finality that lags, retention, stale pairs | no orphaned price survives; never fails in a backtest; the window is kept |
| **TimePriceBars** | a `BTreeMap` of pending and finalized bars, `last_finalized_timestamp` | `insert_data` (padding, retention, indicators, finalization), `prune_to_reorged_block_number`, `is_stale` | cached indicators; contiguity checks that fail | indicators follow from the bars; finalized bars are frozen and come first |
| **DexProvider** (`primitives/dex_provider.rs`, `async_value.rs`) | LRU cache of `AsyncValue`s | `get_pairs` | 50 workers share fetches; eviction of a value others wait for; failing calls | a call gets all pairs it asked for or fails; nobody waits in a circle |
| BlockProvider, TTLCache | block cache, cached finalized header | `get_block_header`, `get_finalized_block_header` | an inverted expiry test, failed calls, nodes that lag | whatever header is served, bars are finalized in order and stay as they are |
| MomentumStrategy | none | `should_open_position`, `should_close_position` | boundaries (equal prices), gaps, bars rebuilt by every block | decides on the market as it is after this block |
| BlockBuilder, Block, log parsing (`dex/*/indexed_trade.rs`), `tick_data.rs` | none | logs to trades, trades to one tick per pair | filtered logs, either side WETH, two DEXes, fixed point | a tick says what the pool did in the block |
| DEX pairs (V2, V3) | none | `simulate_trade_request`, `make_trade_transaction_request` | the same amounts computed four times per DEX | a backtest trades what a live run would send, and earns nothing by itself |
| Report and API (`insert_backtest_closed_trades`, `bin/api`) | tables `backtests`, `backtest_closed_trades`, `blocks` | one transaction; three routes | the process ends anywhere; a replayed chart; a query without its ORDER BY | whole reports; trades in turns; the chart shows the bars that were decided on |
| RpcProvider, ABI bindings, configuration | none | | external | I/O |

Interactions: the handler task of the indexer calls `insert_block` and then the
executor, one block at a time, so bars and decisions never race; the executor and the
controller share the book through one lock; indexer workers meet only in the channel,
the iterator's mutex and `DexProvider`'s cache; the process's runs, and the API server,
meet in the database.

## 2. Modules

Each module's CONSTANTS carry named assumptions; `MC*.tla` and `MC*_*.cfg` give them
small values. Definitions named `X_Something` are plausible bugs in the definition `X`
below them; no action uses them, and the mutation runs put one in the place of `X` to
show that a property notices.

**PositionLedger** — abstract specification of the trade book: a token is flat or holds
one trade; opening takes a fresh trade; closing files the held trade once, with a fresh
closing trade. No requests, locks, confirmations.

**TradeController** — `StrategyExecutor`, `TradeController` and main's last steps.
- `active[t]` is the `AddressTrades` entry of token `t` ("missing" without one), `closed`
  all closed trades, `task[p]` the `JoinSet` task of pair `p` in the current block,
  `watch` the detached confirmation tasks, `chain` the transactions a node accepted.
- A writer of the book is one action, for it holds the write lock throughout. The one
  long reader, the dispatch loop, holds the read lock from `BeginBlock` to `EndDispatch`;
  `LockFree` guards every writer.
- `Mode` is the arm of `send_tx`: in a backtest the simulation is awaited and
  `on_confirmed` runs in the request's task (`SimulateOk`, `SimulateErr`); live, the task
  ends after sending and a detached one confirms (`SendTx`, `Confirm`, `ConfirmErr`);
  "test" is the arm compiled for the crate's unit tests. TLC runs the first two, the
  proofs cover all three.
- The strategy's decision is any decision: `RequestOpen`, `RequestClose` and `Skip` are
  all enabled wherever the code would ask `should_open_position` or
  `should_close_position`.
- `FailBeforeSend` covers `trace` and, live, gas, signing and sending. Both DEXes'
  `trace_trade_request` is a stub that succeeds; its failure is that of the
  `TradeControllerRequest` trait which `open_position` and `close_position` handle.
- Amounts, gas and transaction contents are left out; a trade is a fresh id and a pair.
- `main` runs `(Latest, Latest)` as `unimplemented!()`: live mode exists at the level of
  the controller, and the live runs are about that.

**OrderedDelivery** — abstract specification of the indexer: blocks of the range, one at
a time, in order, success only after the last, restart from the first.

**BlockRangeIndexer** — workers (`wpc`, `wchunk`), channel, handler (`hpc`, `hchunk`,
`next`, `buffer`), `exec`'s result, the `blocks` table and restarts of the process.
A chunk is `ChunkSize + 1` blocks long, as in the code. `Faults` lists which failures
may happen. What a block holds is its trades, nothing (its chunk's `get_logs` failed and
`unwrap_or_else` took that for no logs), or, a row only, something unreadable.

**TimePriceBars** (operators) and **TimePriceBarStore** (state machine) — a bar is its
ticks by block number and the inputs its indicators were computed from; time is counted
in bars because `constants.rs` takes blocks to be exactly two seconds apart, and
`timestamp = block * AVERAGE_BLOCK_TIME_SECONDS` decides the bar. A tick is its block and
the fork it was traded on, so that an orphaned price can be told from a current one. The
environment extends the chain, reorganises it above the finalized block, and finalizes.
`insert_block` asks `get_finalized_block_header`, whose cache is `header`: `IsExpired` is
as `TTLCache` has it, false only once the five minutes are over (`Pause`), so that a
header is fetched anew for each block while it is fresh and served for ever once it is
old. A fetch may fail, and may be answered by a node that lags behind.
An error of `insert_block` ends the indexer, so the half-changed store is not looked at.

**DexProvider** — any number of `get_pairs` calls over an LRU cache. The loop over the
inputs is one action (one lock), the multicall's return another, and so is each receiver
of `resolve_map`, and the final publication (one lock again). A receiver fails with
`Closed` when the `AsyncValue` was evicted unset, and with `Lagged` when it was set
twice; both are what `tokio::sync::broadcast` with capacity 1 does.

**DexTrades** (operators) — Uniswap V2 and V3 per the repository's `dex` modules, on
numbers: `from_logs` over filtered logs, `token_price_before` and `_after`, `weth_volume`,
`TickData`, `PairBlockTick`, `simulate_trade_request` and the amounts of
`make_trade_transaction_request`. Addresses are numbers because the code orders them.
`Scale`, `Width` and `Word` are 2^96, 2^128 and 2^256: prices are truncated as
`u32f96_from_*` truncate them. `Quote` and `PairPays` are the contracts the code calls:
the quoter is a pool with one range of liquidity and no fee.

**MomentumStrategy** (operators) — the two decisions, over bars of `TimePriceBars` whose
ticks are those of `DexTrades`, with the moving average, its slope and the band's mean.
Fixed-point averages are integers; both sides of every comparison round the same way.

**BacktestPipeline** — composes the last three with the store's bars for one pair: a pool
(V2 or V3, WETH on either side) trades and changes its liquidity, other contracts log
things that look like trades, and `EndBlock` is the program's way from the filtered logs
to the tick, the bars, the decision and the simulated trade, which may fail. `closes`,
`swaps` and `trip` are history: what happened on chain, in the pool's own prices, which
the properties compare the program's numbers with. Which blocks are delivered, and that a
token's book is flat or holds one trade between blocks, is what `BlockRangeIndexer` and
`TradeController` establish. `ChartBars` is the API's `get_price_ticks`: an INSTANCE of
`TimePriceBars` without retention, fed with the stored ticks of a time range.
The store's retention is 60 bars in the program; the model's must be at least 3, one more
than the period, or a padded bar's average restarts.

**BacktestReport** — extends `TradeController` (backtest mode) with what follows: the
order of a token's closed trades, main's transaction row by row, the tables, the end of
the process at any point with a new run after it (`Rerun`), and what the API's three
routes read. It replaces the controller's one-step `SaveClosed` by the transaction.

**Picking** (operators) — the elements of a sequence at a set of places, in their order,
as a loop builds them: the filter of `get_logs` and the report's `WHERE` are this.

**Proof modules** (section 5) — `TradeControllerProofs` for the book and its refinement of
`PositionLedger`, `BacktestReportProofs` for the report, `BlockRangeIndexerProofs` for the
indexer and its refinement of `OrderedDelivery`, `TimePriceBarsProofs` (lemmas about the
operators) and `TimePriceBarStoreProofs` (the state machine) for the bars,
`DexProviderProofs` for the pair cache, `BacktestPipelineProofs` for the pipeline, and
`BoundedInduction`, the induction those use for what a loop has computed. Each extends the
module it is about.

## 3. Runs

| Run | Checks | Shows | Bounds |
|---|---|---|---|
| `tc_report` | `TypeOK`, `ClosedPairsMatch`, `BacktestQuiescent`, `ReportTypeOK`, `ReportWhole`, `TradesInTurns` | a close is filed with the trade it was decided on; nothing is unfinished between blocks; whole reports whatever happens; a pair's page shows purchases and sales in turns | 3 pairs (both DEXes) of one token and one of another, 4 blocks in all, 2 runs: two requests race and a third comes from the other DEX; open, close and reopen; a run that ends anywhere |
| `tc_live` | `PendingOwned`, `SavedIsComplete`, `ImplementsLedger`, `PendingResolves`, `ReportWritten` | one owner per pending token with confirmations of earlier blocks around; refinement of `PositionLedger`; pending trades are resolved, and once the indexer has returned so does `pending_handle` | 2 pairs of one token, 3 blocks: open, close and reopen with late confirmations |
| `tc_timeout` | `SinglePosition` (violated) | finding 1 | 1 pair, 2 blocks |
| `bri_restart` | `NoConflict`, `ExecutedAsStored`, `AlwaysReturns` | failures anywhere but in a query, and two restarts | 2 workers, 2 chunks, 3 runs |
| `bri_rows` | `TypeOK`, `Completes`, `InOrderDelivery` | refinement of `OrderedDelivery` for any rows in the database; over chunks stored whole or not at all, as earlier runs leave them, the whole range is executed and `exec` returns | 3 workers, 3 chunks, channel of 1, 243 databases: the channel is full, chunks arrive in any order, some rows are unreadable |
| `tpb_backtest` | `TypeOK`, `NeverFails`, `WindowKept` | no legal block sequence fails or loses a trade of the window | 2 pairs, 9 blocks over 4 bars, retention 2: pairs go stale, gaps span bars |
| `tpb_live` | `PricesCanonical`, `IndicatorsFresh`, `FinalizedFirst`, `FinalizedFrozen` | reorganisation, and a finalized header that lags, is missing or is never replaced | 1 pair, 7 blocks, one reorganisation of any depth |
| `tpb_padding` | `PaddedInOwnBar` (violated) | finding 2 | 1 pair, bars of 2 blocks |
| `dp_shared` | `SingleFlight`, `AllReturn` | shared fetches, no circular wait | 3 calls, 2 addresses, cache large enough |
| `dp_evict` | `TypeOK`, `ResultComplete`, `WaitsServed` | evictions and failures drop no pair silently | 3 calls, 3 addresses, cache of 2 |
| `pipe_market` | `TypeOK`, `SameTradesUnfiltered`, `TickFollowsPool`, `DecidesOnMarket`, `HonestRoundTrip`, `SimulatesTransactions`, `ChartShowsBars` | the ticks, bars and decisions follow the pool's own prices; simulations agree with transactions and earn nothing by themselves; the chart shows the bars | 4 pools (DEX, side of WETH) with 3 prices and 2 depths, 6 blocks in 3 bars, 4 events: two swaps and a foreign sync in one block, gaps, padding, retention, a round trip |
| `pipe_before` | `PriceBeforeTrade` (violated) | finding 3 | V3 pools, 2 events |

Why the bounds are enough. The hazards are about a second actor arriving between two
steps of a first: two tokens never share state, so one token with two or three pairs has
every race; a third block lets a reopened token meet what is left of the first position.
The indexer needs one chunk more than can be in order at once, and a channel that fills.
Bars need a period and a retention that both end inside the run, and a gap longer than a
bar. `DexProvider` needs an eviction while somebody waits, which takes one address more
than the capacity. In the pipeline prices are powers of four, so that the model's few
digits are exact where the program's 96 bits nearly are, and three of them let a price
rise, fall and return; `Period` is 2 where the program has 20. Unbounded counters are
bounded by `MaxBlock`, `MaxTotal`, `MaxRuns`, `MaxEvents` and `MaxForks`; `nextId` is
bounded by them. Deadlock is checked in every run: `Finished`,
`Stopped` and `Done` are the ends the program really has, `PollAgain` is the poll of
`pending_handle`, and `Parked` the waiting call that a failed one left behind
(`WaitsServed` says when that is, `AllReturn` that it never is without failures).

Fairness. Tasks that can run are polled by the tokio runtime, so every task, worker and
the handler has weak fairness. A confirmation ends at the latest with its 10 second
timeout (`Resolve`). Rpc and database calls are assumed to return, with a result or an
error. Nothing is assumed of the chain: transactions need not be mined, blocks need not be
finalized. `Dispatch` and `Main` are the code of a task that is running. There is no
liveness property, and no fairness, for the bar store, the pipeline and the report: they
are called, they do not run by themselves, and a process may end.

## 4. Findings

1. `open_position` wants to "ensure that we do not already have a position for this
   token" (`trade_controller.rs:234`). A confirmation that times out after 10 seconds
   (`transaction.rs:50`) clears the claim while its transaction is still in the mempool.
   `tc_timeout`: the token is opened again, both are mined.
2. `insert_data` says it pads "with the missing intermediate blocks since the last
   insert" (`time_price_bars.rs:182`). Each padded block is given the timestamp of the
   last inserted block, so all of them land in its bar and `resolution_timestamp_to_pad`
   is never set. `tpb_padding`.
   A consequence is that a bar is finalized although it holds blocks that are not final,
   which the comment on `PendingTimePriceBar` rules out (`time_price_bar.rs:41`); a
   reorganisation of those blocks then fails. This is why `NeverFails` is checked for
   backtests only.
3. `token_price_before` is to "get the token price before the trade"
   (`dex/indexed_trade.rs:12`). For V3 it moves the root of the price by
   `|amount0| * 2^96 / liquidity` when token0 goes in, which is how token1 moves it
   (`uniswap_v3/indexed_trade.rs:67-94`). `pipe_before`: one swap is enough. The tick, and
   so the first price of a bar and `is_negative`, are wrong; the strategy's properties
   speak of the opening of V2 pairs only for that reason.

Observed, without a property of their own: `uniswap_v2/pair_block_tick.rs:14` calls its
reserves those "at the end of the block", they are those of the block's last swap (nothing
reads them); `query_by_backtest_pair_timestamp.sql:14` ends the statement before its
`ORDER BY`, which `TradesInTurns` shows to be harmless as long as rows come in the order
they were inserted; `TTLCache::is_expired` is inverted, which delays finalization and,
by `FinalizedFirst` and `FinalizedFrozen`, breaks nothing else.

## 5. Proofs

Every theorem holds for all values of the constants that satisfy the named assumptions of
its module (sets of any size, any number of blocks, chunks, callers and restarts).

| Theorem | States |
|---|---|
| **TradeControllerProofs** | any tokens, pairs, `TokenOf`, `DexOf`, all three modes |
| `BookInvariant` | `Spec => []BookInv`, the inductive invariant |
| `TypeCorrect` | `Spec => []TypeOK` |
| `ClosedPairsCorrect` | `Spec => []ClosedPairsMatch` |
| `PendingIsOwned` | `Spec => []PendingOwned` |
| `BacktestIsQuiescent` | `Spec => []BacktestQuiescent` |
| `ReportIsComplete` | `Spec => []SavedIsComplete` |
| `TradesAreFresh` | `Spec => []TradeInv` |
| `ImplementsTheLedger` | `Spec => ImplementsLedger`: the controller implements `PositionLedger` |
| **BlockRangeIndexerProofs** | any ranges, chunk size, channel, workers, database, `Faults`, restarts |
| `IndexerInvariant` | `Spec => []IndexerInv`, the inductive invariant |
| `IndexerTypeCorrect` | `Spec => []TypeOK` |
| `ExecutesWhatIsStored` | `Spec => []ExecutedAsStored` |
| `DeliversInOrder` | `Spec => InOrderDelivery`: the indexer implements `OrderedDelivery` |
| `StoresOnce` | `Spec /\ WholeCells(db) => []NoConflict` if `Ranges = {r}` and `"dbRead" \notin Faults` |
| **DexProviderProofs** | any callers, addresses, valid pairs, capacity |
| `DexInvariant` | `Spec => []DexInv`, the inductive invariant |
| `DexTypeCorrect` | `Spec => []TypeOK` |
| `ResultsAreComplete` | `Spec => []ResultComplete` |
| `WaitsAreServed` | `Spec => []WaitsServed` |
| `OneCallFetches` | `Spec => []SingleFlight` if `Cardinality(Addrs) <= Capacity` |
| **TimePriceBarStoreProofs** | any pairs, `PerBar`, `Period <= Retention`, both modes, reorganisations of any depth |
| `StoreInductive` | `Spec => []IInv`, the inductive invariant |
| `StoreInvariant` | `Spec => []StoreInv`, its content in the terms of the model |
| `StoreTypeCorrect` | `Spec => []TypeOK` |
| `FinalizesInOrder` | `Spec => []FinalizedFirst` |
| `IndicatorsStayFresh` | `Spec => []IndicatorsFresh` |
| `PricesStayCanonical` | `Spec => []PricesCanonical` |
| `FinalBarsAreFrozen` | `Spec => FinalizedFrozen`, an action property |
| `BacktestNeverFails` | `IsBacktest /\ Spec => []NeverFails` |
| `BacktestKeepsWindow` | `IsBacktest /\ Spec => []WindowKept` |
| **BacktestReportProofs** | any tokens, pairs, `TokenOf`, `DexOf`, blocks, number of runs |
| `ReportInvariant` | `ReportSpec => []ReportInv`, the inductive invariant |
| `ReportTypeCorrect` | `ReportSpec => []ReportTypeOK` |
| `ReportsAreWhole` | `ReportSpec => []ReportWhole` |
| `TradesComeInTurns` | `ReportSpec => []TradesInTurns` |
| `BookKeptAcrossRuns` | `ReportSpec => [](TypeOK /\ ClosedPairsMatch /\ BacktestQuiescent)` |
| **BacktestPipelineProofs** | any contracts, markets, pools, `Flash`, widths of numbers, `PerBar`, `Retention`, events and blocks |
| `PipelineInvariant` | `Spec => []PipelineInv`, the inductive invariant |
| `PipelineTypeCorrect` | `Spec => []TypeOK` |
| `FilteringKeepsTrades` | `Spec => []SameTradesUnfiltered` |
| `TicksFollowThePool` | `Spec => []TickFollowsPool` |
| `SimulationsMatch` | `Spec => []SimulatesTransactions` |
| `EveryTickIsInserted` | `Spec => []InsertsTick`: `insert_block` never fails in the pipeline |
| `DecidesOnTheMarket` | `Spec => DecidesOnMarket`, an action property, if `3 <= Retention` and `Period < Retention` |
| `ChartShowsTheBars` | `Spec => []ChartShowsBars`, under the same hypotheses |

**The book.** None of the properties is inductive. `PendingOwned` needs to know what the
owner of a token is doing (`OwnerState`: a task that claimed to close finds the entry in
pending close), or a release by one owner could leave another behind. `ClosedPairsMatch`
needs that the trade swapped out of the book at the claim is the one the request named,
though other tasks and late confirmations ran since the decision. That is `Requests`:
while a close waits to be claimed, its token holds the trade the request names, or is
being closed, or is flat; it was not reopened, since all requests of a block were decided
on one reading of the book (the lock of the dispatch loop), so that no request to open
the token exists beside one to close it. `TaskPhase` confines tasks to their block and
`HeldTrades` says what a closing owner holds. The proof has a lemma per action; the
writers of the book share two, `TaskReleaseInv` and `WatchReleaseInv`, for whatever
resolves a claim. `BacktestQuiescent` adds `InlineInv` (a backtest detaches nothing), and
`SavedIsComplete` adds `FinalInv` (what each stage of main rules out).

That it implements the ledger takes one thing more: the trade a confirmation opens or
files is new to the ledger. `TradeInv` says that the hash of a trade awaiting its
confirmation, in a task or detached, is in no entry and on no closed trade, and that no
two owners await the same one. The step simulation then has a lemma per action: a
confirmation is an `Open` or a `Close` of the ledger, everything else a stutter, the claims
and releases included, since a claimed entry still maps to the position it will fall back
to.

**The indexer.** `IndexerInv` is types, `FlowInv` and `RowsKept`. `FlowInv` follows a chunk
from the iterator to the strategy: a busy worker's chunk, a chunk in the channel, in the
buffer and in the handler's hands are disjoint and lie between `next` and `iter`
(`InFlight`, `AllApart`), together they cover those blocks unless a task failed
(`NothingLost`), what was executed are the blocks from the first to `next`, in order
(`InOrder`), the buffer holds nothing that could be executed now while the handler
receives (`BufferWaits`), and the handler stops successfully only when all workers have
(`Stopping`). `NothingLost` is why `exec` cannot return `Ok` with a gap: `DeliversInOrder`
uses it for the step to success, and `InOrder` for the step of each block. `RowsKept` says
that a chunk that was read from the database or written to it holds what is stored, and
that what was executed is what is stored; a restart leaves both as they are.

`StoresOnce` has hypotheses because without them the property is false, and two hazards in
`PROJECT.json` say so: an overlapping second range cuts its chunks elsewhere, and a range
query that fails makes a worker fetch what is stored. The rows may start as whole chunks
(`WholeCells`, which the empty database is). Its invariant `CellsInv` says that stored
rows are always those of whole chunks: one insert is one transaction.

**The pair cache.** `DexInv` says that a cached `AsyncValue` that is not set has
an owner who fetches its pair or failed to (`PlaceholdersOwned`), and that
each pair among a caller's addresses is got, waited for or its own to fetch (`Accounted`). `ResultComplete` and
`WaitsServed` follow. `get_pairs` is a loop over its inputs and a second one over what it
fetched, modelled by recursive functions; `BoundedInduction` proves what such a function has
computed after each element of its sequence. It states induction for a set of numbers,
which holds zero and the successor of each of its members, and not for a predicate, which
the provers could not instantiate.
`OneCallFetches` adds `FetchedStay`: an address some call fetched stays in the cache, which
is where its hypothesis comes in, since eviction is the one way out (`dp_evict` shows
what happens without it).

**The bars.** `TimePriceBarsProofs` has a lemma for every operator: `PadFacts`,
`UpdateFacts`, `RetainedFacts`, `FinalizedFacts`, `PruneFacts` and what they make of a call,
`InsertFacts` and `BarsExtendable`. The bars of a pair satisfy `BarsInv`: none is empty, they
are in order and skip no block (`Whole`), indicators are fresh (`FreshAt`), and exactly those
up to `lastFinalized` are final, which is before the bar of the last block. The last part
is why neither `finalize_range` nor the bar that is extended meets a finalized one. `IInv` lifts that to the store, and adds what relates it to the chain (`OnChain`: the
bars end with the pair's last trade or later, and each price is that of the last trade up to
its block on the current fork) and to finality (`NotAhead`: nothing is finalized that may
still be replaced, whatever header was served). `OnChain` is the reason for
`PricesCanonical`: a pruned store agrees with the part of the chain that stays, and the
padding copies a price of that part, which is the last one because the bars of a pair end
with its last trade or later. TLC checked `IInv` and
`StoreInv` on the instances of `tpb_live` and `tpb_backtest` before they were proved.
`WindowKept` and `NeverFails` are inductive together with `IInv`, in a backtest: without a
reorganisation the next block is after every bar, and a stale pair is one whose last trade
is out of the window. Live, `NeverFails` is false (finding 2).

**The report.** `ReportInv` starts from the book's invariants, for a step of the report's
specification is a step of the controller's or leaves the book alone; the lemmas of
`TradeControllerProofs` are used as they are. It adds the history of a run. `OneDecision`:
a token is decided on once per block, so what closes a trade and what opens the next one
are confirmed in different blocks (`TimesKept`). `ClosingsKept`: a token's closed trades
are in the order of their closings, each opened after the one before it was closed, and the
open trade after all of them; `RequestsKept` carries that through a request that waits for
its simulation. `ClosingsFiled` ties the history to the book's set of closed trades.
`TxnKept` says that the transaction holds a row for exactly the closings that were inserted
and that the rest is still to do, `TablesKept` that the tables hold what was committed, in
that order and nothing of another run. `ReportWhole` is what both say when the commit
happens. `TradesInTurns` needs that a query's rows come in the order of the table
(`PickedFacts`, of `BoundedInduction`) and that the times of a token's rows rise.

**The pipeline.** `PipelineInv` is `ChainInv` and `ProgramInv`. The first relates a block's
logs, while the block is made, to what happened on chain. `LogsInv`: logs are numbered one
by one, which is why the test of `log_index` in `try_from` survives the filter: of a sync
and a swap that the filter made neighbours the numbers are not. Each event's logs append
to the block's trades exactly its own trade, or none
(`V2Emits`, `V3Emits`, `V2ProvideEmits`, `V3ProvideEmits`, `ForkEmits`, `AlienEmits`).
`TickInv`: the tick that the trades fold to follows the pool (`Follows`), step by step: an
event of the pool adds its price and its volume, an event elsewhere, even one whose trade
is of a pair that is known, leaves the pool's tick as it was. That a trade's price is the
pool's and its volume what moved is a lemma per DEX (`V2SwapSays`, `V3SwapSays`): for a V2
pair the reserves before the trade are the reserves after it less what went in plus what
went out, flash loans cancel, and nothing wraps around. `ProgramInv` keeps the bars in
`BarsInv`, over the lemmas of `TimePriceBarsProofs`, so that `insert_block` always
succeeds. A V3 price before a trade may be the inverse of a root that came out as zero
(finding 3; the program would stop on it), so `Tick` admits such a value and nothing is
proved of it.

`DecidesOnMarket` and `ChartShowsBars` compare bars that are padded, finalized, pruned and
updated one by one with what a reader would compute from all ticks at once. `MarketInv`
says what they have in common: the stored ticks have the pool's prices (`PricesStored`),
and the bars *mirror* the stored ticks (`Mirror`, in `TimePriceBarsProofs`): a bar's ticks
are those of its time range, each repeated up to the next one of the pair (`Shown`), its
bands are of the last ticks of the period (`ClosesTo`), its average was smoothed from the last
ticks since the last range without one (`Averaged`), and the bars of the last ranges are
all there (`Recent`). It is kept by every step of an insert: padding (`PadShows`), the
block's own tick (`AddShows`), retention (`KeptShows`), the update of the indicators of
the padded and of the own bar (`RefreshShows`), and `InsertShows` puts them together.
The hypotheses come in with retention, which is applied before the indicators are
updated: the padded bar and the bar before it must be among those that are kept (hence three), and so
must the bars of its bands (hence `Period < Retention`: if the pair traded in every range,
the bar before the block's own is padded, and a window as long as the retention would
lose its first bar to the new one). The program retains 60 bars and looks at 20, the
instance retains 3 and looks at 2. What the loops of `Reduce` and `ema` compute, the open and the
close of a bar and a number that depends on the closes alone, follows by induction over
a set of numbers, as in the pair cache (`ReducedFacts`, `SmoothedTyped`).

The chart inserts the stored ticks of a range into bars of another instance of
`TimePriceBars`, one that retains everything, so `All` instantiates `TimePriceBarsProofs` for it and the
same `InsertShows` gives by induction over the blocks that it mirrors the ticks of the
range (`ChartMirrors`). A range that has all blocks of a bar shows the same of that bar
as all ticks do (`BlocksShown`), whatever is missing before it.

`SimulationsMatch` rests on two facts about arithmetic (`AtMost`, a truncated quotient is
at most the exact one, and `QuoteTyped`) and on `Sided` and the slots of a pair being each
other's inverse for either side of WETH.

**Assumptions on constants** are those of the modules (`PerBar`, `Retention` and `Period` as
`constants.rs` relates them, finite sets, a positive `Capacity` and the like); TLC evaluates
them in the runs. The other hypotheses are in the table, each true of a mode or
configuration the program has.

`ContractsAssumption` is Uniswap's order of a pair's tokens, and that the
contract that is not accepted is no market. `PoolsAssumption` says that pools have
liquidity, and reserves, roots and prices that fit the numbers that the contracts and the
program keep them in: a price of more than 2^32 WETH is truncated by
`u32f96_from_u256_frac` and would not be the pool's.

**Only model-checked.** Everything under fairness (`PendingResolves`, `ReportWritten`,
`Completes`, `AlwaysReturns`, `AllReturn`): liveness and ENABLED are out of the prover's
reach. `HonestRoundTrip`: it compares truncated prices, so that it depends on pools whose
prices are more than a unit apart, as the instance's are; it is not true of arbitrary
constants, and the condition under which it is would be about the size of the rounding
and not about the code. No module
declares a RECURSIVE operator, and none of the theorems rests on an unproved fact about a
fold.

## 6. Not modelled

- The width of the bands (a square root nothing decides on), gas estimates, calldata, fee
  tiers: the properties do not tell them apart. `trace_trade_request` is a stub that
  succeeds.
- The quoter, the routers and the pair contracts are external: they are modelled by what
  the code expects of them, and a V3 pool never leaves its range of liquidity.
- The blocks cached by number (`get_block`): only timestamps are read, and a timestamp is
  a function of the number here, as `fetch_from_rpc` estimates it; a chain whose blocks
  are not two seconds apart is not modelled.
- ABI encodings, `RpcProvider`, SQL text, migrations, HTTP, the block range in
  `list_backtest_pairs`, configuration, logging: I/O and generated code; their failures
  are faults of the modules above.
- Live indexing: `main` does not implement it; the store's and the controller's handling
  of it is modelled.
- A task that panics (`JoinSet` logs it): see the hazard at `strategy_executor.rs:146`.
- `index_target.rs`, `indexed_block_message.rs`, `strategies/uniswap_v*_dex_provider.rs`
  and `pair_message.rs` are in no module tree and are not compiled.

## 7. Plan

Done: the ledger and the controller with their proofs, the indexer, the bars and the
store with the finalized header's cache, the pair cache, the trades of both DEXes, the
strategy, the pipeline that composes them, and the report up to the API. Next:

1. **Extend.** Timestamps that are not a function of the block number; the block range of
   a backtest in the API.
2. **Prove.** What is left of safety is `HonestRoundTrip`, from a bound on what the truncated
   prices lose.
