------------------------- MODULE TimePriceBarStore -------------------------
(***************************************************************************)
(* TimePriceBarStore.insert_block: the store takes the indexer's blocks one *)
(* at a time, prunes what a reorganisation orphaned, adds the block's ticks *)
(* to the bars of their pairs, finalizes bars and drops pairs nobody trades *)
(* any more.  In a backtest every block is final; live, the chain may       *)
(* replace any block after the finalized one.                               *)
(***************************************************************************)
EXTENDS TimePriceBars

CONSTANTS
  Pairs,        \* pair addresses
  IsBacktest,   \* is_backtest
  MaxBlock,     \* bound: the highest block number
  MaxForks      \* bound: how often the chain is reorganised

ASSUME PairsAssumption  == IsFiniteSet(Pairs) /\ IsBacktest \in BOOLEAN
ASSUME BoundsAssumption == MaxBlock \in Nat /\ MaxForks \in Nat

VARIABLES
  chain,          \* the chain's blocks so far: its fork, the pairs it trades
  forks,          \* how often the chain was reorganised
  finalized,      \* the number of the newest finalized block
  header,         \* finalized_block_header_cache: at most one header
  bars,           \* time_price_bars: the bars of the pairs in the store
  lastInserted,   \* last_inserted_block_number, 0 for None
  lastPruned,     \* last_pruned_at_block_number, 0 for None
  status          \* "ok", or "err" once insert_block failed

vars == <<chain, forks, finalized, header, bars, lastInserted, lastPruned, status>>

Tick  == [block : 1..MaxBlock, fork : 0..MaxForks]
BarId == NoBar..BarOf(MaxBlock)

Partial(S, T) == UNION {[D -> T] : D \in SUBSET S}

IsBar(bar) == /\ bar.final \in BOOLEAN
              /\ DOMAIN bar.ticks \in (SUBSET (1..MaxBlock)) \ {{}}
              /\ Range(bar.ticks) \subseteq Tick
              /\ bar.ind.ema \in Seq(Tick) \ {<<>>}

TypeOK ==
  /\ chain \in Seq([fork : 0..MaxForks, pairs : SUBSET Pairs]) /\ Len(chain) <= MaxBlock
  /\ forks \in 0..MaxForks
  /\ finalized \in 0..Len(chain)
  /\ header \subseteq [block : 0..finalized, late : BOOLEAN] /\ Cardinality(header) <= 1
  /\ DOMAIN bars \subseteq Pairs
  /\ \A p \in DOMAIN bars : /\ DOMAIN bars[p].data \in (SUBSET BarId) \ {{}}
                            /\ Cardinality(DOMAIN bars[p].data) <= Retention
                            /\ \A k \in DOMAIN bars[p].data : IsBar(bars[p].data[k])
                            /\ bars[p].lastFinalized \in BarId
  /\ lastInserted \in 0..MaxBlock
  /\ lastPruned \in 0..MaxBlock
  /\ status \in {"ok", "err"}

Init == /\ chain = <<>>
        /\ forks = 0
        /\ finalized = 0
        /\ header = {}
        /\ bars = <<>>
        /\ lastInserted = 0
        /\ lastPruned = 0
        /\ status = "ok"
-----------------------------------------------------------------------------
(* TTLCache::is_expired compares the wrong way round: a header counts as    *)
(* expired until its five minutes are over, and never again after that.     *)
IsExpired(h) == ~ h.late

(* What get_finalized_block_header may answer: the header in its cache, or  *)
(* one from a node that may lag behind the chain, or none if the call fails. *)
FinalizedHeaders ==
  IF \E h \in header : ~ IsExpired(h) THEN {header}
  ELSE {{}} \cup {{[block |-> f, late |-> FALSE]} : f \in 0..finalized}

(* The bars up to which insert_block may finalize: those before the one of  *)
(* the finalized block, none without a header.                              *)
BarBefore(answer) == IF answer = {} THEN NoBar ELSE Max({BarOf(h.block) - 1 : h \in answer})

(* A block that replaces the last one is taken for its successor. *)
IsReorg_Below(n) == n < lastInserted

(* A block at or below the last one is a reorganisation. *)
IsReorg(n) == n <= lastInserted

(* The bars after the reorganisation: pairs without any are removed. *)
PrunedBars(n) ==
  LET pruned == [p \in DOMAIN bars |-> PruneToReorged(bars[p], n)]
  IN  IF IsReorg(n) THEN Restrict(pruned, {p \in DOMAIN bars : pruned[p].data # <<>>})
                    ELSE bars

BarsFor(store, p) == IF p \in DOMAIN store THEN store[p] ELSE NewBars

InsertedBars(store, n, pairs, tick, fin) ==
  Over([p \in pairs |-> InsertData(BarsFor(store, p), n, tick, fin)], store)

(* Stale pairs are looked for when a bar's worth of blocks has passed. *)
PruneIsDue(n) == lastPruned # 0 /\ n > lastPruned + PerBar

Unstale(store, n) ==
  IF PruneIsDue(n) THEN Restrict(store, {p \in DOMAIN store : ~ IsStale(store[p], BarOf(n))})
                   ELSE store

(* insert_block under its write lock.  An error ends the indexer, so what a *)
(* failed call has already changed is not looked at again.                  *)
InsertBlock(n, pairs, fin) ==
  LET tick    == [block |-> n, fork |-> forks']
      pruned  == PrunedBars(n)
      success == /\ IsReorg(n) => \A p \in DOMAIN bars : CanPrune(bars[p], n)
                 /\ \A p \in pairs : CanInsert(BarsFor(pruned, p), n, tick, fin)
  IN
  \/ /\ success
     /\ bars' = Unstale(InsertedBars(pruned, n, pairs, tick, fin), n)
     /\ lastPruned' = IF lastPruned = 0 \/ PruneIsDue(n) THEN n ELSE lastPruned
     /\ lastInserted' = n
     /\ UNCHANGED status
  \/ /\ ~ success
     /\ status' = "err"
     /\ UNCHANGED <<bars, lastInserted, lastPruned>>

(* In a backtest every bar before the block's is final; live, the header    *)
(* says which are.  A header that was fetched is cached.                    *)
StoreBlock(n, pairs) ==
  \/ /\ IsBacktest
     /\ UNCHANGED header
     /\ InsertBlock(n, pairs, BarOf(n) - 1)
  \/ /\ ~ IsBacktest
     /\ \E answer \in FinalizedHeaders : /\ header' = (IF answer = {} THEN header ELSE answer)
                                         /\ InsertBlock(n, pairs, BarBefore(answer))

(* The indexer hands over the next block of the chain, *)
Extend(pairs) ==
  LET n == Len(chain) + 1 IN
  /\ status = "ok" /\ n <= MaxBlock
  /\ chain' = Append(chain, [fork |-> forks, pairs |-> pairs])
  /\ UNCHANGED <<forks, finalized>>
  /\ StoreBlock(n, pairs)

(* or, live, a block that replaces one it has handed over. *)
Reorganise(n, pairs) ==
  /\ status = "ok" /\ ~ IsBacktest /\ forks < MaxForks
  /\ n \in finalized + 1 .. Len(chain)
  /\ forks' = forks + 1
  /\ chain' = Append(SubSeq(chain, 1, n - 1), [fork |-> forks', pairs |-> pairs])
  /\ UNCHANGED finalized
  /\ StoreBlock(n, pairs)

(* Environment: the chain finalizes some more of its blocks. *)
Finalize(f) ==
  /\ ~ IsBacktest /\ status = "ok"
  /\ f \in finalized + 1 .. Len(chain)
  /\ finalized' = f
  /\ UNCHANGED <<chain, forks, header, bars, lastInserted, lastPruned, status>>

(* Environment: five minutes pass without a fetch. *)
Pause ==
  /\ status = "ok"
  /\ \E h \in header : ~ h.late /\ header' = {[h EXCEPT !.late = TRUE]}
  /\ UNCHANGED <<chain, forks, finalized, bars, lastInserted, lastPruned, status>>

(* The indexer stops: no more blocks, or an error. *)
Stopped == (status = "err" \/ Len(chain) = MaxBlock) /\ UNCHANGED vars

Next == \/ \E pairs \in SUBSET Pairs : \/ Extend(pairs)
                                       \/ \E n \in 1..MaxBlock : Reorganise(n, pairs)
        \/ \E f \in 1..MaxBlock : Finalize(f)
        \/ Pause
        \/ Stopped

Spec == Init /\ [][Next]_vars
-----------------------------------------------------------------------------
(* Properties *)

HasBar(p, k) == p \in DOMAIN bars /\ k \in DOMAIN bars[p].data

(* The tick is that of the pair's last trade on the chain up to block m. *)
TradesUpTo(p, m) == {o \in 1..m : p \in chain[o].pairs}

IsLastTrade(p, m, tick) ==
  /\ m <= Len(chain)
  /\ \E o \in TradesUpTo(p, m) : /\ \A q \in TradesUpTo(p, m) : q <= o
                                  /\ tick = [block |-> o, fork |-> chain[o].fork]

(* The price a bar has for a block is that of the pair's last trade up to   *)
(* the block, on the chain as it is now: no reorganisation leaves an        *)
(* orphaned trade in a bar, nor a padded copy of one.                       *)
PricesCanonical ==
  \A p \in DOMAIN bars : \A k \in DOMAIN bars[p].data : LET bar == bars[p].data[k] IN
    status = "ok" /\ ~ bar.final =>
      \A m \in DOMAIN bar.ticks : IsLastTrade(p, m, bar.ticks[m])

(* A trade within the retained number of bars is in its bar: neither the    *)
(* retention nor the search for stale pairs loses what the strategy needs.  *)
WindowKept ==
  status = "ok" => \A p \in Pairs, o \in 1..Len(chain) :
    p \in chain[o].pairs /\ BarOf(o) > BarOf(Len(chain)) - Retention =>
      HasBar(p, BarOf(o)) /\ o \in DOMAIN bars[p].data[BarOf(o)].ticks

(* The indicators of a bar follow from the closes there are now, and its    *)
(* moving average continues the previous bar's: whatever changes a bar,     *)
(* an insertion, padding, or a reorganisation, is seen by the indicators.   *)
IndicatorsFresh ==
  \A p \in DOMAIN bars : \A k \in DOMAIN bars[p].data : FreshAt(bars[p].data, k)

(* insert_block never fails: no contiguity or finality check of the bars    *)
(* can stop a backtest, whichever pairs trade in whichever blocks.          *)
NeverFails == status = "ok"

(* Bars are finalized from the oldest on, and all up to the last finalized  *)
(* timestamp are: finalize_range never meets a bar it has finalized before. *)
FinalizedFirst ==
  \A p \in DOMAIN bars : \A k \in DOMAIN bars[p].data :
    bars[p].data[k].final <=> k <= bars[p].lastFinalized

(* A finalized bar never changes again while it is kept. *)
FinalizedFrozen ==
  [][\A p \in Pairs, k \in BarId :
       HasBar(p, k) /\ HasBar(p, k)' /\ bars[p].data[k].final
         => bars'[p].data[k] = bars[p].data[k]]_vars

(* Comment in insert_data: "Pad time price bars with the missing            *)
(* intermediate blocks since the last insert": every block's price is in    *)
(* the bar of its own timestamp.                                            *)
PaddedInOwnBar ==
  \A p \in DOMAIN bars : \A k \in DOMAIN bars[p].data :
    \A m \in DOMAIN bars[p].data[k].ticks : BarOf(m) = k
-----------------------------------------------------------------------------
(* The inductive invariant behind the safety properties *)

(* The bars of a pair end with its last trade or later, and what they say   *)
(* of a block is the chain's.                                               *)
OnChain(p) ==
  LET d == bars[p].data IN
  /\ PadFrom(d) <= Len(chain)
  /\ \A o \in 1..Len(chain) : p \in chain[o].pairs => o <= PadFrom(d)
  /\ \A k \in DOMAIN d : \A m \in DOMAIN d[k].ticks : IsLastTrade(p, m, d[k].ticks[m])

(* Nothing is finalized that the chain may still replace. *)
NotAhead(b) == b.lastFinalized < BarOf(IF IsBacktest THEN Len(chain) ELSE finalized)

StoreInv ==
  /\ TypeOK
  /\ \A p \in DOMAIN bars : BarsInv(bars[p])
  /\ status = "ok" => /\ lastInserted = Len(chain)
                      /\ \A p \in DOMAIN bars : OnChain(p) /\ NotAhead(bars[p])
=============================================================================
