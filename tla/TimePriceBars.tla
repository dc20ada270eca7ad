--------------------------- MODULE TimePriceBars ---------------------------
(***************************************************************************)
(* The bars of one pair, as operators on values: a BTreeMap from resolution *)
(* timestamps to bars that are pending, and then hold a tick per block, or  *)
(* finalized, and then hold one reduced tick and a block range.             *)
(*                                                                          *)
(* Time is counted in bars: a block's timestamp is its number times the     *)
(* average block time, exactly (constants.rs assumes the Base chain), so a  *)
(* bar has room for PerBar blocks, 150 in the program.  A tick is opaque;   *)
(* a bar's reduced data is represented by the close, its last tick.         *)
(***************************************************************************)
EXTENDS Integers, Sequences, SequencesExt, FiniteSets, FiniteSetsExt, Functions

CONSTANTS
  PerBar,      \* Resolution::offset over AVERAGE_BLOCK_TIME_SECONDS
  Retention,   \* retention_count
  Period       \* INDICATOR_BB_PERIOD

ASSUME PerBarAssumption    == PerBar \in Nat \ {0}
ASSUME RetentionAssumption == Retention \in Nat \ {0, 1}
ASSUME PeriodAssumption    == Period \in 1..Retention

(* ResolutionTimestamp::from_timestamp of the timestamp of block n.  Bar 0  *)
(* is before every block, and -1 stands for no timestamp at all.            *)
BarOf(n) == 1 + n \div PerBar
NoBar    == -1

(* A bar: its ticks by block number, and its indicators, represented by     *)
(* what they were computed from: the bands' bars and closes, and the closes *)
(* the moving average has smoothed so far, the last one its own.            *)
NoIndicators == [closes |-> {}, ema |-> <<>>]
NewBar == [final |-> FALSE, ticks |-> <<>>, ind |-> NoIndicators]

NewBars == [data |-> <<>>, lastFinalized |-> NoBar]

StartOf(bar) == Min(DOMAIN bar.ticks)
EndOf(bar)   == Max(DOMAIN bar.ticks)
Close(bar)   == bar.ticks[EndOf(bar)]

(* data.entry(k).or_insert_with(PendingTimePriceBar::new) *)
EntryAt(d, k) == IF k \in DOMAIN d THEN d[k] ELSE NewBar

(* What f says, and g where f says nothing. *)
Over(f, g) == [x \in DOMAIN f \cup DOMAIN g |-> IF x \in DOMAIN f THEN f[x] ELSE g[x]]

(* insert_block_price_bar and insert_block_price_bar_range: the data is     *)
(* reduced again and the indicators are gone.                               *)
WithTicks(d, k, ticks) ==
  [j \in DOMAIN d \cup {k} |->
     IF j = k THEN [final |-> FALSE, ticks |-> Over(ticks, EntryAt(d, k).ticks), ind |-> NoIndicators]
              ELSE d[j]]
-----------------------------------------------------------------------------
(* The bars of the period that ends with bar k. *)
WindowOf(d, k) == {j \in DOMAIN d : k - Period < j /\ j <= k}

(* Indicators::compute at bar k: the bands over the closes of the period    *)
(* (none unless every bar is there), and the moving average, which goes on  *)
(* from the previous bar's average, from its close if that is unset, or     *)
(* starts anew.                                                             *)
Compute(d, k) ==
  [closes |-> {<<j, Close(d[j])>> : j \in WindowOf(d, k)},
   ema    |-> Append(IF k - 1 \notin DOMAIN d THEN <<>>
                     ELSE IF d[k - 1].ind = NoIndicators THEN <<Close(d[k - 1])>>
                     ELSE d[k - 1].ind.ema, Close(d[k]))]

UpdateIndicators(d, k) == [d EXCEPT ![k].ind = Compute(d, k)]
-----------------------------------------------------------------------------
(* prune_to_reorged_block_number: from the end, bars that start at the block *)
(* or after it are removed, and the one it falls into is cut.                *)

(* Definitions named X_Something, here and in TimePriceBarStore, are         *)
(* plausible bugs in the definition X that follows them; the project's       *)
(* mutation runs put one in the place of X to show that a property notices.  *)

(* Finalized bars are cut like any other. *)
CanPrune_FinalToo(b, n) == TRUE

(* No finalized bar reaches up to the block. *)
CanPrune(b, n) == \A k \in DOMAIN b.data : b.data[k].final => EndOf(b.data[k]) < n

CutAt(d, k, n) ==
  UpdateIndicators([d EXCEPT ![k].ticks = Restrict(@, {m \in DOMAIN @ : m < n}),
                             ![k].ind = NoIndicators], k)

PruneToReorged(b, n) ==
  LET kept == Restrict(b.data, {k \in DOMAIN b.data : StartOf(b.data[k]) < n})
      cut  == {k \in DOMAIN kept : EndOf(kept[k]) >= n}
  IN  [b EXCEPT !.data = IF cut = {} THEN kept ELSE CutAt(kept, Max(cut), n)]
-----------------------------------------------------------------------------
(* insert_data *)

(* The block after which ticks are missing, the end of the last bar, *)
PadFrom(d) == EndOf(d[Max(DOMAIN d)])

(* the blocks to pad, one of them forgotten, *)
Missing_OneShort(d, n) == IF d = <<>> THEN {} ELSE PadFrom(d) + 1 .. n - 2

(* or the blocks to pad before block n, *)
Missing(d, n) == IF d = <<>> THEN {} ELSE PadFrom(d) + 1 .. n - 1

(* the bar that gets them: all are given the timestamp of the last insert,  *)
PadBar(d) == BarOf(PadFrom(d))

(* and the copied ticks; a finalized bar is left alone, with a message.     *)
Padding(d, n) == Missing(d, n) # {} /\ ~ EntryAt(d, PadBar(d)).final

Pad(d, n) ==
  IF Padding(d, n)
  THEN WithTicks(d, PadBar(d), [m \in Missing(d, n) |-> Close(d[Max(DOMAIN d)])])
  ELSE d

(* The block's own bar is pending, and empty or ends just before the block. *)
CanAdd(d, n) == LET bar == EntryAt(d, BarOf(n)) IN
                ~ bar.final /\ (bar.ticks # <<>> => EndOf(bar) + 1 = n)

(* One bar too many is kept. *)
Retained_OneMore(d) ==
  Restrict(d, {k \in DOMAIN d : Cardinality({j \in DOMAIN d : j > k}) <= Retention})

(* prune_to_retention_count *)
Retained(d) ==
  Restrict(d, {k \in DOMAIN d : Cardinality({j \in DOMAIN d : j > k}) < Retention})

(* The block's bar is refreshed before the one it continues. *)
Refresh_OwnFirst(d, padded, own) == UpdateIndicators(UpdateIndicators(d, own), padded)

(* update_indicators for the padded bar, then for the block's own. *)
Refresh(d, padded, own) == UpdateIndicators(UpdateIndicators(d, padded), own)

(* The bars up to fin that come after those finalized before. *)
ToFinalize(b, fin) == {k \in DOMAIN b.data : b.lastFinalized + 1 <= k /\ k <= fin}

(* The bars once the tick of block n is in and indicators are up to date. *)
Added(b, n, tick) ==
  LET padded == Pad(b.data, n)
      own    == BarOf(n)
      kept   == Retained(WithTicks(padded, own, [m \in {n} |-> tick]))
  IN  [b EXCEPT !.data = Refresh(kept, IF Padding(b.data, n) THEN PadBar(b.data) ELSE own, own)]

(* finalize_range fails on a bar that is finalized already. *)
CanFinalize(b, fin) == \A k \in ToFinalize(b, fin) : ~ b.data[k].final

(* last_finalized_timestamp is only set the first time. *)
Finalized_FirstOnly(b, fin) ==
  [data |-> [k \in DOMAIN b.data |-> IF k \in ToFinalize(b, fin)
                                     THEN [b.data[k] EXCEPT !.final = TRUE] ELSE b.data[k]],
   lastFinalized |-> IF b.lastFinalized = NoBar THEN fin ELSE b.lastFinalized]

Finalized(b, fin) ==
  IF fin <= b.lastFinalized THEN b
  ELSE [data |-> [k \in DOMAIN b.data |-> IF k \in ToFinalize(b, fin)
                                          THEN [b.data[k] EXCEPT !.final = TRUE] ELSE b.data[k]],
        lastFinalized |-> fin]

CanInsert(b, n, tick, fin) ==
  /\ CanAdd(Pad(b.data, n), n)
  /\ fin > b.lastFinalized => CanFinalize(Added(b, n, tick), fin)

InsertData(b, n, tick, fin) == Finalized(Added(b, n, tick), fin)

(* The age is counted in the unit of the timestamps, not in bars. *)
IsStale_NotInBars(b, k) == b.data # <<>> => (k - Max(DOMAIN b.data)) * PerBar > Retention

(* is_stale: more than the retained number of bars behind bar k. *)
IsStale(b, k) == b.data # <<>> => k - Max(DOMAIN b.data) > Retention
-----------------------------------------------------------------------------
(* What the operations keep true of the bars of a pair *)

Blocks(d) == UNION {DOMAIN d[k].ticks : k \in DOMAIN d}

(* The bars have a tick for every block from their first to their last one, *)
(* in order: no bar is empty, none has a block of a bar before its own.     *)
Whole(d) ==
  /\ DOMAIN d # {}
  /\ \A k \in DOMAIN d : DOMAIN d[k].ticks # {}
  /\ \A k \in DOMAIN d : \A m \in DOMAIN d[k].ticks : k <= BarOf(m)
  /\ \A j, k \in DOMAIN d : j < k =>
       \A m \in DOMAIN d[j].ticks, n \in DOMAIN d[k].ticks : m < n
  /\ \A m, n \in Blocks(d) : m .. n \subseteq Blocks(d)

(* The indicators of bar k are computed from the closes there are now, and  *)
(* its moving average continues the previous bar's.                         *)
FreshAt(d, k) ==
  /\ \A j \in k - Period + 1 .. k : j \in DOMAIN d => <<j, Close(d[j])>> \in d[k].ind.closes
  /\ \A c \in d[k].ind.closes : k - Period < c[1] /\ c[1] <= k
  /\ d[k].ind.ema # <<>> /\ Last(d[k].ind.ema) = Close(d[k])
  /\ k - 1 \in DOMAIN d => Front(d[k].ind.ema) = d[k - 1].ind.ema
  /\ k - 1 \notin DOMAIN d /\ (\E j \in DOMAIN d : j < k) => Len(d[k].ind.ema) = 1

(* The bars of a pair are whole, those up to the last finalized timestamp   *)
(* are final, and the last block of all falls into a bar after it, into     *)
(* which the next blocks can be padded.                                     *)
BarsInv(b) ==
  /\ Whole(b.data)
  /\ b.lastFinalized < BarOf(PadFrom(b.data))
  /\ \A k \in DOMAIN b.data : /\ b.data[k].final <=> k <= b.lastFinalized
                              /\ FreshAt(b.data, k)
=============================================================================
