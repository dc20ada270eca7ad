----------------------- MODULE TimePriceBarStoreProofs -----------------------
(***************************************************************************)
(* Proofs about TimePriceBarStore for every set of pairs, size of a bar,    *)
(* retention, period, length of the chain and number of reorganisations.    *)
(***************************************************************************)
EXTENDS TimePriceBarStore, TimePriceBarsProofs

(* What a chain says of the bars d of pair p, up to its block n *)

LastTradeOn(ch, p, m, tick) ==
  /\ m \in 1..Len(ch)
  /\ \E o \in 1..m : /\ p \in ch[o].pairs
                     /\ \A q \in 1..m : p \in ch[q].pairs => q <= o
                     /\ tick = [block |-> o, fork |-> ch[o].fork]

Follows(ch, p, d, n) ==
  /\ PadFrom(d) <= n
  /\ \A o \in 1..n : p \in ch[o].pairs => o <= PadFrom(d)
  /\ \A k \in DOMAIN d : \A m \in DOMAIN d[k].ticks : LastTradeOn(ch, p, m, d[k].ticks[m])

(* The chain new has n blocks, and is like ch before the last of them. *)
Continues(ch, new, n) ==
  Len(new) = n /\ n - 1 <= Len(ch) /\ \A o \in 1..n - 1 : new[o] = ch[o]

LEMMA PrunedFollows ==
  ASSUME NEW T, NEW B \in Nat, NEW n \in 1..B, NEW p, NEW d, NEW ch, Len(ch) \in Nat,
         IsData(d, T, B), Whole(d), Follows(ch, p, d, Len(ch)),
         NEW c, Pruned(d, n, c, T, B), DOMAIN c # {}, NEW new, Continues(ch, new, n)
  PROVE  Follows(new, p, c, n - 1)
<1>1. n \in Nat /\ PadFrom(d) \in Nat
  <2>1. PadFrom(d) \in 1..B
    BY LastFacts
  <2>2. QED
    BY <2>1
<1>2. Len(new) = n /\ n - 1 <= Len(ch) /\ \A o \in 1..n - 1 : new[o] = ch[o]
  BY DEF Continues
<1>3. PadFrom(c) = IF PadFrom(d) < n THEN PadFrom(d) ELSE n - 1
  BY DEF Pruned
<1>4. ASSUME NEW o \in 1..n - 1, p \in new[o].pairs PROVE o <= PadFrom(c)
  <2>1. o \in 1..Len(ch) /\ p \in ch[o].pairs
    BY <1>1, <1>2, <1>4
  <2>2. o <= PadFrom(d)
    BY <2>1 DEF Follows
  <2>3. QED
    BY <1>1, <1>3, <2>2
<1>5. ASSUME NEW k \in DOMAIN c, NEW m \in DOMAIN c[k].ticks PROVE LastTradeOn(new, p, m, c[k].ticks[m])
  <2>1. k \in DOMAIN d /\ m < n /\ m \in DOMAIN d[k].ticks /\ c[k].ticks[m] = d[k].ticks[m]
    BY DEF Pruned
  <2>2. LastTradeOn(ch, p, m, c[k].ticks[m])
    BY <2>1 DEF Follows
  <2>3. m \in 1..n - 1 /\ \A q \in 1..m : q \in 1..n - 1
    BY <1>1, <2>1, <2>2 DEF LastTradeOn
  <2>4. \A q \in 1..m : new[q] = ch[q]
    BY <1>2, <2>3
  <2>5. m \in 1..Len(new)
    BY <1>1, <1>2, <2>3
  <2>6. QED
    BY <2>2, <2>4, <2>5 DEF LastTradeOn
<1>6. PadFrom(c) <= n - 1
  BY <1>1, <1>3
<1>7. QED
  BY <1>4, <1>5, <1>6 DEF Follows

LEMMA InsertedFollows ==
  ASSUME NEW T, NEW B \in Nat, NEW n \in 1..B, NEW p, NEW b, NEW new, Len(new) = n,
         DOMAIN b.data # {} => IsData(b.data, T, B) /\ Whole(b.data) /\ Follows(new, p, b.data, n - 1),
         p \in new[n].pairs, NEW fin, NEW r,
         InsertedTo(b, n, [block |-> n, fork |-> new[n].fork], fin, r, T, B)
  PROVE  Follows(new, p, r.data, n)
<1> DEFINE d == b.data
           tick == [block |-> n, fork |-> new[n].fork]
<1>1. PadFrom(r.data) = n /\ n \in Nat
  BY DEF InsertedTo
<1>2. \A k \in DOMAIN r.data : \A m \in DOMAIN r.data[k].ticks :
         \/ m = n /\ r.data[k].ticks[m] = tick
         \/ k \in DOMAIN d /\ m \in DOMAIN d[k].ticks /\ r.data[k].ticks[m] = d[k].ticks[m]
         \/ DOMAIN d # {} /\ PadFrom(d) < m /\ m < n /\ r.data[k].ticks[m] = Close(d[Max(DOMAIN d)])
  BY DEF InsertedTo
<1>3. \A k \in DOMAIN r.data : \A m \in DOMAIN r.data[k].ticks : m \in Nat
  BY DEF InsertedTo, IsBars, IsData, IsBarOf, IsTicks
<1>4. DOMAIN d # {} => IsData(d, T, B) /\ Whole(d) /\ Follows(new, p, d, n - 1)
  OBVIOUS
<1> HIDE DEF d
<1>5. LastTradeOn(new, p, n, tick)
  <2>1. n \in 1..Len(new) /\ n \in 1..n /\ \A q \in 1..n : q <= n
    BY <1>1
  <2>2. QED
    BY <2>1 DEF LastTradeOn
<1> HIDE DEF tick
<1>6. ASSUME NEW m \in Nat, DOMAIN d # {}, PadFrom(d) < m, m < n
      PROVE  LastTradeOn(new, p, m, Close(d[Max(DOMAIN d)]))
  <2> DEFINE top == Max(DOMAIN d)
             e == PadFrom(d)
  <2>1. top \in DOMAIN d /\ e \in DOMAIN d[top].ticks /\ e \in 1..B /\ Close(d[top]) = d[top].ticks[e]
    BY <1>4, <1>6, LastFacts
  <2>2. LastTradeOn(new, p, e, Close(d[top]))
    BY <1>4, <1>6, <2>1 DEF Follows
  <2>3. \A o \in 1..n - 1 : p \in new[o].pairs => o <= e
    BY <1>4, <1>6 DEF Follows
  <2> HIDE DEF e, top
  <2>4. PICK o \in 1..e : /\ p \in new[o].pairs
                          /\ \A q \in 1..e : p \in new[q].pairs => q <= o
                          /\ Close(d[top]) = [block |-> o, fork |-> new[o].fork]
    BY <2>2 DEF LastTradeOn
  <2>5. o \in 1..m /\ m \in 1..Len(new)
    BY <1>1, <1>6, <2>1, <2>4 DEF e
  <2>6. ASSUME NEW q \in 1..m, p \in new[q].pairs PROVE q <= o
    <3>1. q \in 1..n - 1
      BY <1>1, <1>6
    <3>2. q <= e
      BY <2>3, <2>6, <3>1
    <3>3. q \in 1..e
      BY <2>1, <3>1, <3>2
    <3>4. QED
      BY <2>4, <2>6, <3>3
  <2>7. QED
    BY <2>4, <2>5, <2>6 DEF LastTradeOn, top
<1>7. ASSUME NEW k \in DOMAIN r.data, NEW m \in DOMAIN r.data[k].ticks
      PROVE  LastTradeOn(new, p, m, r.data[k].ticks[m])
  <2>1. CASE m = n /\ r.data[k].ticks[m] = tick
    BY <1>5, <2>1
  <2>2. CASE k \in DOMAIN d /\ m \in DOMAIN d[k].ticks /\ r.data[k].ticks[m] = d[k].ticks[m]
    BY <1>4, <2>2 DEF Follows
  <2>3. CASE DOMAIN d # {} /\ PadFrom(d) < m /\ m < n /\ r.data[k].ticks[m] = Close(d[Max(DOMAIN d)])
    BY <1>3, <1>6, <2>3
  <2>4. QED
    BY <1>2, <2>1, <2>2, <2>3
<1>8. \A o \in 1..n : p \in new[o].pairs => o <= PadFrom(r.data)
  BY <1>1
<1>9. QED
  BY <1>1, <1>7, <1>8 DEF Follows

LEMMA UntradedFollows ==
  ASSUME NEW B \in Nat, NEW n \in 1..B, NEW p, NEW d, PadFrom(d) \in Nat, NEW new, Len(new) = n,
         Follows(new, p, d, n - 1), p \notin new[n].pairs
  PROVE  Follows(new, p, d, n)
<1>1. PadFrom(d) <= n
  BY DEF Follows
<1>2. ASSUME NEW o \in 1..n, p \in new[o].pairs PROVE o <= PadFrom(d)
  <2>1. o # n
    BY <1>2
  <2>2. o \in 1..n - 1
    BY <2>1
  <2>3. QED
    BY <1>2, <2>2 DEF Follows
<1>3. QED
  BY <1>1, <1>2 DEF Follows

(* One pair: what insert_block does to its bars *)

PairOK(b) == /\ IsBars(b, Tick, MaxBlock) /\ BarsInv(b)
             /\ Cardinality(DOMAIN b.data) <= Retention

LEMMA PairFacts ==
  ASSUME NEW b, PairOK(b)
  PROVE  /\ IsData(b.data, Tick, MaxBlock) /\ Whole(b.data) /\ b.lastFinalized \in Int
         /\ b.lastFinalized < BarOf(PadFrom(b.data)) /\ PadFrom(b.data) \in 1..MaxBlock
         /\ MaxBlock \in Nat /\ DOMAIN b.data # {}
<1>1. IsData(b.data, Tick, MaxBlock) /\ Whole(b.data) /\ b.lastFinalized \in Int /\ MaxBlock \in Nat
  BY BoundsAssumption DEF PairOK, IsBars, BarsInv, NoBar
<1>2. PadFrom(b.data) \in 1..MaxBlock
  BY <1>1, LastFacts
<1>3. QED
  BY <1>1, <1>2 DEF PairOK, BarsInv, Whole

(* Bars that end before the block are left alone by a reorganisation. *)
LEMMA PruneNothing ==
  ASSUME NEW T, NEW B \in Nat, NEW d, IsData(d, T, B), Whole(d), \A k \in DOMAIN d : FreshAt(d, k),
         NEW n \in 1..B, PadFrom(d) < n
  PROVE  Pruned(d, n, d, T, B)
<1>1. PadFrom(d) \in Nat /\ \A j \in DOMAIN d : \A m \in DOMAIN d[j].ticks : m \in 1..B /\ m <= PadFrom(d)
  <2>1. PadFrom(d) \in 1..B /\ \A j \in DOMAIN d : \A m \in DOMAIN d[j].ticks : m \in 1..B /\ m <= PadFrom(d)
    BY LastFacts
  <2>2. QED
    BY <2>1
<1>2. \A j \in DOMAIN d : \A m \in DOMAIN d[j].ticks : m < n
  BY <1>1
<1>3. QED
  BY <1>2 DEF Pruned

(* The bars of a pair that are left before block n is stored: those there   *)
(* are, or what a reorganisation leaves of them.                            *)
LeftBefore(b, c, n) ==
  /\ Pruned(b.data, n, c.data, Tick, MaxBlock) /\ DOMAIN c.data # {}
  /\ c = [data |-> c.data, lastFinalized |-> b.lastFinalized]

ReadyFor(new, p, c, n) == PairOK(c) /\ PadFrom(c.data) < n /\ Follows(new, p, c.data, n - 1)

LEMMA PrunedPair ==
  ASSUME NEW n \in 1..MaxBlock, NEW b, PairOK(b), NEW p, NEW ch, Len(ch) \in Nat, Follows(ch, p, b.data, Len(ch)),
         NEW new, Continues(ch, new, n), n <= Len(ch) => b.lastFinalized < BarOf(n - 1),
         NEW c, LeftBefore(b, c, n)
  PROVE  ReadyFor(new, p, c, n) /\ c.lastFinalized = b.lastFinalized
<1> DEFINE d == b.data
           e == c.data
           l == b.lastFinalized
<1>1. /\ IsData(d, Tick, MaxBlock) /\ Whole(d) /\ l \in Int /\ l < BarOf(PadFrom(d))
      /\ PadFrom(d) \in 1..MaxBlock /\ MaxBlock \in Nat
  BY PairFacts
<1>2. Pruned(d, n, e, Tick, MaxBlock) /\ DOMAIN e # {} /\ c = [data |-> e, lastFinalized |-> l] /\ c.lastFinalized = l
  BY DEF LeftBefore
<1>3. l \in NoBar..MaxBlock + 1 /\ (\A k \in DOMAIN d : d[k].final <=> k <= l) /\ Cardinality(DOMAIN d) <= Retention
  BY DEF PairOK, IsBars, BarsInv
<1>4. Follows(ch, p, d, Len(ch)) /\ (n <= Len(ch) => l < BarOf(n - 1))
  OBVIOUS
<1> HIDE DEF d, e, l
<1>5. /\ IsData(e, Tick, MaxBlock) /\ Whole(e) /\ DOMAIN e \subseteq DOMAIN d
      /\ PadFrom(e) = IF PadFrom(d) < n THEN PadFrom(d) ELSE n - 1
      /\ \A k \in DOMAIN e : e[k].final = d[k].final /\ FreshAt(e, k)
  BY <1>2 DEF Pruned
<1>6. PadFrom(e) < n
  BY <1>1, <1>5
<1>7. l < BarOf(PadFrom(e))
  <2>1. CASE PadFrom(d) < n
    BY <1>1, <1>5, <2>1
  <2>2. CASE ~ (PadFrom(d) < n)
    <3>1. n <= Len(ch)
      <4>1. PadFrom(d) <= Len(ch)
        BY <1>4 DEF Follows
      <4>2. QED
        BY <1>1, <2>2, <4>1
    <3>2. QED
      BY <1>4, <1>5, <2>2, <3>1
  <2>3. QED
    BY <2>1, <2>2
<1>8. Follows(new, p, e, n - 1)
  BY <1>1, <1>2, <1>4, PrunedFollows
<1>9. Cardinality(DOMAIN e) <= Retention
  <2>1. IsFiniteSet(DOMAIN d)
    <3>1. DOMAIN d \subseteq 0..MaxBlock + 1
      BY <1>1 DEF IsData
    <3>2. IsFiniteSet(0..MaxBlock + 1)
      <4>1. 0 \in Int /\ MaxBlock + 1 \in Int
        BY <1>1
      <4>2. QED
        BY <4>1, FS_Interval
    <3>3. QED
      BY <3>1, <3>2, FS_Subset
  <2>2. Cardinality(DOMAIN e) <= Cardinality(DOMAIN d) /\ Cardinality(DOMAIN d) \in Nat /\ Cardinality(DOMAIN e) \in Nat
    BY <1>5, <2>1, FS_Subset, FS_CardinalityType
  <2>3. QED
    BY <1>3, <2>2, RetentionAssumption
<1>10. PairOK(c)
  <2>1. IsBars(c, Tick, MaxBlock)
    BY <1>2, <1>3, <1>5 DEF IsBars, e
  <2>2. \A k \in DOMAIN e : e[k].final <=> k <= l
    BY <1>3, <1>5
  <2>3. BarsInv(c)
    BY <1>2, <1>5, <1>7, <2>2 DEF BarsInv, e
  <2>4. QED
    BY <1>9, <2>1, <2>3 DEF PairOK, e
<1>11. QED
  BY <1>2, <1>6, <1>8, <1>10 DEF ReadyFor, e, l

(* insert_data for a pair that has bars, or has none *)
LEMMA InsertedPair ==
  ASSUME NEW n \in 1..MaxBlock, NEW p, NEW new, Len(new) = n, p \in new[n].pairs, new[n].fork \in 0..MaxForks,
         NEW b, b = NewBars \/ ReadyFor(new, p, b, n),
         NEW fin \in NoBar..MaxBlock + 1, fin < BarOf(n),
         NEW tick, tick = [block |-> n, fork |-> new[n].fork], NEW r, r = InsertData(b, n, tick, fin)
  PROVE  /\ PairOK(r) /\ Follows(new, p, r.data, n) /\ InsertedTo(b, n, tick, fin, r, Tick, MaxBlock)
         /\ CanInsert(b, n, tick, fin)
<1>1. tick \in Tick /\ MaxBlock \in Nat
  BY BoundsAssumption DEF Tick
<1>2. Extendable(b, n, Tick, MaxBlock)
  <2>1. CASE b = NewBars
    BY <1>1, <2>1, NewBarsExtendable
  <2>2. CASE ReadyFor(new, p, b, n)
    <3>1. IsBars(b, Tick, MaxBlock) /\ BarsInv(b) /\ PadFrom(b.data) < n
      BY <2>2 DEF ReadyFor, PairOK
    <3>2. QED
      BY <1>1, <3>1, BarsExtendable
  <2>3. QED
    BY <2>1, <2>2
<1>3. InsertedTo(b, n, tick, fin, r, Tick, MaxBlock) /\ CanInsert(b, n, tick, fin)
  BY <1>1, <1>2, InsertFacts
<1>4. PairOK(r)
  BY <1>3 DEF InsertedTo, PairOK
<1>5. DOMAIN b.data # {} => IsData(b.data, Tick, MaxBlock) /\ Whole(b.data) /\ Follows(new, p, b.data, n - 1)
  <2>1. CASE b = NewBars
    BY <2>1 DEF NewBars
  <2>2. CASE ReadyFor(new, p, b, n)
    BY <2>2, PairFacts DEF ReadyFor
  <2>3. QED
    BY <2>1, <2>2
<1>6. Follows(new, p, r.data, n)
  BY <1>1, <1>3, <1>5, InsertedFollows
<1>7. QED
  BY <1>3, <1>4, <1>6

(* All pairs: one call of insert_block *)

EnvOK ==
  /\ chain \in Seq([fork : 0..MaxForks, pairs : SUBSET Pairs]) /\ Len(chain) <= MaxBlock
  /\ forks \in 0..MaxForks /\ finalized \in 0..Len(chain)
  /\ header = {} \/ \E h \in [block : 0..finalized, late : BOOLEAN] : header = {h}

BarsOK ==
  /\ bars = [p \in DOMAIN bars |-> bars[p]] /\ DOMAIN bars \subseteq Pairs
  /\ \A p \in DOMAIN bars : PairOK(bars[p])

InStep ==
  status = "ok" =>
    /\ lastInserted = Len(chain)
    /\ \A p \in DOMAIN bars : Follows(chain, p, bars[p].data, Len(chain)) /\ NotAhead(bars[p])

StoreOK ==
  /\ BarsOK /\ InStep
  /\ lastInserted \in 0..MaxBlock /\ lastPruned \in 0..MaxBlock /\ status \in {"ok", "err"}

IInv == EnvOK /\ StoreOK

(* A call of insert_block with the chain's next or replaced block *)
Call(n, pairs, fin) ==
  /\ n \in 1..MaxBlock /\ pairs \in SUBSET Pairs /\ fin \in NoBar..MaxBlock + 1
  /\ Continues(chain, chain', n) /\ chain'[n] = [fork |-> forks', pairs |-> pairs]
  /\ forks' \in 0..MaxForks /\ finalized' = finalized /\ finalized < n
  /\ n <= Len(chain) => ~ IsBacktest
  /\ fin < BarOf(IF IsBacktest THEN n ELSE finalized)
  /\ InsertBlock(n, pairs, fin)

(* What is left of the pairs before the block's ticks are added *)
LEMMA LeftPairs ==
  ASSUME IInv, status = "ok", NEW n \in 1..MaxBlock, NEW p \in DOMAIN PrunedBars(n), n - 1 <= Len(chain)
  PROVE  p \in DOMAIN bars /\ LeftBefore(bars[p], PrunedBars(n)[p], n)
<1> DEFINE pruned == [q \in DOMAIN bars |-> PruneToReorged(bars[q], n)]
<1>1. lastInserted = Len(chain) /\ Len(chain) \in Nat /\ n \in Nat /\ MaxBlock \in Nat
  BY BoundsAssumption DEF IInv, StoreOK, InStep, EnvOK
<1>2. CASE IsReorg(n)
  <2> DEFINE b == bars[p]
             c == PruneToReorged(b, n)
  <2>1. PrunedBars(n) = Restrict(pruned, {q \in DOMAIN bars : pruned[q].data # <<>>})
    BY <1>2 DEF PrunedBars
  <2>2. p \in DOMAIN bars /\ PrunedBars(n)[p] = c /\ c.data # <<>>
    BY <2>1 DEF Restrict
  <2>3. PairOK(b)
    BY <2>2 DEF IInv, StoreOK, BarsOK
  <2>4. IsBars(b, Tick, MaxBlock) /\ Whole(b.data) /\ \A k \in DOMAIN b.data : FreshAt(b.data, k)
    BY <2>3 DEF PairOK, BarsInv
  <2>5. Pruned(b.data, n, c.data, Tick, MaxBlock) /\ c = [data |-> c.data, lastFinalized |-> b.lastFinalized]
    BY <1>1, <2>4, PruneFacts
  <2>6. DOMAIN c.data # {}
    <3> DEFINE e == c.data
    <3>1. IsData(e, Tick, MaxBlock) /\ e # <<>>
      BY <2>2, <2>5 DEF Pruned
    <3> HIDE DEF e
    <3>2. e = [k \in DOMAIN e |-> e[k]]
      BY <3>1 DEF IsData
    <3>3. DOMAIN e # {}
      BY <3>1, <3>2
    <3>4. QED
      BY <3>3 DEF e
  <2>7. QED
    BY <2>2, <2>5, <2>6 DEF LeftBefore
<1>3. CASE ~ IsReorg(n)
  <2>1. PrunedBars(n) = bars /\ p \in DOMAIN bars
    BY <1>3 DEF PrunedBars
  <2>2. PairOK(bars[p]) /\ Follows(chain, p, bars[p].data, Len(chain))
    BY <2>1 DEF IInv, StoreOK, BarsOK, InStep
  <2>3. Len(chain) < n
    BY <1>1, <1>3 DEF IsReorg
  <2>4. /\ IsData(bars[p].data, Tick, MaxBlock) /\ Whole(bars[p].data) /\ PadFrom(bars[p].data) \in 1..MaxBlock
        /\ DOMAIN bars[p].data # {}
    BY <2>2, PairFacts
  <2>5. PadFrom(bars[p].data) < n
    BY <1>1, <2>2, <2>3, <2>4 DEF Follows
  <2>6. \A k \in DOMAIN bars[p].data : FreshAt(bars[p].data, k)
    BY <2>2 DEF PairOK, BarsInv
  <2>7. Pruned(bars[p].data, n, bars[p].data, Tick, MaxBlock)
    BY <1>1, <2>4, <2>5, <2>6, PruneNothing
  <2>8. bars[p] = [data |-> bars[p].data, lastFinalized |-> bars[p].lastFinalized]
    BY <2>2 DEF PairOK, IsBars
  <2>9. QED
    BY <2>1, <2>4, <2>7, <2>8 DEF LeftBefore
<1>4. QED
  BY <1>2, <1>3

LEMMA LeftPairsReady ==
  ASSUME IInv, status = "ok", NEW n, NEW pairs, NEW fin, Call(n, pairs, fin), NEW p \in DOMAIN PrunedBars(n)
  PROVE  ReadyFor(chain', p, PrunedBars(n)[p], n) /\ PrunedBars(n)[p].lastFinalized = bars[p].lastFinalized
<1>1. /\ n \in 1..MaxBlock /\ n \in Nat /\ Continues(chain, chain', n) /\ n - 1 <= Len(chain)
      /\ finalized < n /\ (n <= Len(chain) => ~ IsBacktest)
  BY DEF Call, Continues
<1>2. p \in DOMAIN bars /\ LeftBefore(bars[p], PrunedBars(n)[p], n)
  BY <1>1, LeftPairs
<1>3. PairOK(bars[p]) /\ Follows(chain, p, bars[p].data, Len(chain)) /\ NotAhead(bars[p]) /\ Len(chain) \in Nat /\ finalized \in Nat
  BY <1>2 DEF IInv, StoreOK, BarsOK, InStep, EnvOK
<1>4. n <= Len(chain) => bars[p].lastFinalized < BarOf(n - 1)
  <2>1. ASSUME n <= Len(chain) PROVE bars[p].lastFinalized < BarOf(n - 1)
    <3>1. bars[p].lastFinalized < BarOf(finalized) /\ bars[p].lastFinalized \in Int
      BY <1>1, <1>3, <2>1, PairFacts DEF NotAhead
    <3>2. n - 1 \in Nat /\ finalized <= n - 1
      BY <1>1, <1>3
    <3>3. BarOf(finalized) <= BarOf(n - 1) /\ BarOf(finalized) \in Nat /\ BarOf(n - 1) \in Nat
      BY <1>3, <3>2, BarOfGrows, BarOfFacts
    <3>4. QED
      BY <3>1, <3>3
  <2>2. QED
    BY <2>1
<1>5. QED
  BY <1>1, <1>2, <1>3, <1>4, PrunedPair

(* What is added to the bars of the pairs the block trades *)
Inserted(n, p, fin) == InsertData(BarsFor(PrunedBars(n), p), n, [block |-> n, fork |-> forks'], fin)

LEMMA CallFacts ==
  ASSUME IInv, NEW n, NEW pairs, NEW fin, Call(n, pairs, fin)
  PROVE  /\ n \in 1..MaxBlock /\ n \in Nat /\ MaxBlock \in Nat /\ Len(chain) \in Nat /\ finalized \in Nat
         /\ pairs \subseteq Pairs /\ Len(chain') = n /\ n - 1 <= Len(chain)
         /\ fin \in NoBar..MaxBlock + 1 /\ fin \in Int /\ fin < BarOf(n) /\ BarOf(n) \in Nat
         /\ chain'[n] = [fork |-> forks', pairs |-> pairs] /\ forks' \in 0..MaxForks
         /\ InsertBlock(n, pairs, fin)
<1>1. /\ n \in 1..MaxBlock /\ n \in Nat /\ MaxBlock \in Nat /\ Len(chain) \in Nat /\ finalized \in Nat
      /\ pairs \subseteq Pairs /\ Len(chain') = n /\ n - 1 <= Len(chain)
      /\ fin \in NoBar..MaxBlock + 1 /\ fin \in Int /\ finalized < n
  BY BoundsAssumption DEF Call, Continues, IInv, EnvOK, NoBar
<1>2. fin < BarOf(n) /\ BarOf(n) \in Nat
  <2>1. BarOf(finalized) <= BarOf(n) /\ BarOf(finalized) \in Nat /\ BarOf(n) \in Nat
    <3>1. finalized <= n
      BY <1>1
    <3>2. QED
      BY <1>1, <3>1, BarOfGrows, BarOfFacts
  <2>2. fin < BarOf(n) \/ fin < BarOf(finalized)
    BY DEF Call
  <2>3. QED
    BY <1>1, <2>1, <2>2
<1>3. chain'[n] = [fork |-> forks', pairs |-> pairs] /\ forks' \in 0..MaxForks /\ InsertBlock(n, pairs, fin)
  BY DEF Call
<1>4. QED
  BY <1>1, <1>2, <1>3

LEMMA InsertedPairs ==
  ASSUME IInv, status = "ok", NEW n, NEW pairs, NEW fin, Call(n, pairs, fin), NEW p \in pairs
  PROVE  /\ PairOK(Inserted(n, p, fin)) /\ Follows(chain', p, Inserted(n, p, fin).data, n)
         /\ InsertedTo(BarsFor(PrunedBars(n), p), n, [block |-> n, fork |-> forks'], fin, Inserted(n, p, fin), Tick, MaxBlock)
         /\ CanInsert(BarsFor(PrunedBars(n), p), n, [block |-> n, fork |-> forks'], fin)
<1> DEFINE b == BarsFor(PrunedBars(n), p)
           new == chain'
           tick == [block |-> n, fork |-> forks']
           r == Inserted(n, p, fin)
<1>1. /\ n \in 1..MaxBlock /\ Len(new) = n /\ fin \in NoBar..MaxBlock + 1 /\ fin < BarOf(n)
      /\ new[n] = [fork |-> forks', pairs |-> pairs] /\ forks' \in 0..MaxForks
  BY CallFacts
<1>2. b = NewBars \/ ReadyFor(new, p, b, n)
  <2>1. CASE p \in DOMAIN PrunedBars(n)
    BY <2>1, LeftPairsReady DEF BarsFor
  <2>2. CASE p \notin DOMAIN PrunedBars(n)
    BY <2>2 DEF BarsFor
  <2>3. QED
    BY <2>1, <2>2
<1>3. p \in new[n].pairs /\ new[n].fork \in 0..MaxForks /\ tick = [block |-> n, fork |-> new[n].fork]
  BY <1>1
<1>4. r = InsertData(b, n, tick, fin)
  BY DEF Inserted
<1> HIDE DEF b, new, tick, r
<1>5. /\ PairOK(r) /\ Follows(new, p, r.data, n) /\ InsertedTo(b, n, tick, fin, r, Tick, MaxBlock)
      /\ CanInsert(b, n, tick, fin)
  BY <1>1, <1>2, <1>3, <1>4, InsertedPair
<1>6. QED
  BY <1>5 DEF b, new, tick, r

(* The bars after the call: each pair's are what was inserted, or what was  *)
(* left of them.  A pair that has a bar in the window is not stale.         *)
Stored(n, pairs, fin) ==
  /\ bars' = [p \in DOMAIN bars' |-> bars'[p]]
  /\ \A p \in DOMAIN bars' : \/ p \in pairs /\ bars'[p] = Inserted(n, p, fin)
                             \/ p \in DOMAIN PrunedBars(n) \ pairs /\ bars'[p] = PrunedBars(n)[p]
  /\ pairs \subseteq DOMAIN bars'
  /\ \A p \in DOMAIN PrunedBars(n) :
       (\E j \in DOMAIN PrunedBars(n)[p].data : j > BarOf(n) - Retention) => p \in DOMAIN bars'
  /\ lastInserted' = n /\ lastPruned' \in {lastPruned, n} /\ status' = status
  /\ IsReorg(n) => \A p \in DOMAIN bars : CanPrune(bars[p], n)

LEMMA CallStores ==
  ASSUME IInv, status = "ok", NEW n, NEW pairs, NEW fin, Call(n, pairs, fin)
  PROVE  \/ Stored(n, pairs, fin)
         \/ status' = "err" /\ IsReorg(n) /\ UNCHANGED <<bars, lastInserted, lastPruned>>
<1> DEFINE pruned == PrunedBars(n)
           tick == [block |-> n, fork |-> forks']
           canPrune == IsReorg(n) => \A p \in DOMAIN bars : CanPrune(bars[p], n)
           canInsert == \A p \in pairs : CanInsert(BarsFor(pruned, p), n, tick, fin)
           all == InsertedBars(pruned, n, pairs, tick, fin)
<1>1. /\ n \in 1..MaxBlock /\ n \in Nat /\ BarOf(n) \in Nat /\ MaxBlock \in Nat /\ n - 1 <= Len(chain)
      /\ InsertBlock(n, pairs, fin)
  BY CallFacts
<1>2. canInsert
  <2>1. ASSUME NEW p \in pairs PROVE CanInsert(BarsFor(pruned, p), n, tick, fin)
    BY InsertedPairs
  <2>2. QED
    BY <2>1
<1>3. \/ /\ canPrune /\ canInsert
         /\ bars' = Unstale(all, n)
         /\ lastPruned' = IF lastPruned = 0 \/ PruneIsDue(n) THEN n ELSE lastPruned
         /\ lastInserted' = n
         /\ UNCHANGED status
      \/ ~ (canPrune /\ canInsert) /\ status' = "err" /\ UNCHANGED <<bars, lastInserted, lastPruned>>
  BY <1>1 DEF InsertBlock
<1>4. /\ all = [p \in pairs \cup DOMAIN pruned |-> IF p \in pairs THEN Inserted(n, p, fin) ELSE pruned[p]]
  BY DEF InsertedBars, Over, Inserted
<1>5. CASE ~ (canPrune /\ canInsert)
  <2>1. IsReorg(n)
    BY <1>2, <1>5
  <2>2. QED
    BY <1>3, <1>5, <2>1
<1>6. CASE canPrune /\ canInsert
  <2> HIDE DEF canInsert, all, pruned, tick
  <2>1. /\ bars' = Unstale(all, n) /\ lastInserted' = n /\ status' = status
        /\ lastPruned' \in {lastPruned, n}
    BY <1>3, <1>6
  <2>2. DOMAIN all = pairs \cup DOMAIN pruned /\ all = [p \in DOMAIN all |-> all[p]]
    BY <1>4
  <2>3. bars' = [p \in DOMAIN bars' |-> bars'[p]] /\ DOMAIN bars' \subseteq DOMAIN all /\ \A p \in DOMAIN bars' : bars'[p] = all[p]
    BY <2>1, <2>2 DEF Unstale, Restrict
  <2>4. \A p \in DOMAIN all : ~ IsStale(all[p], BarOf(n)) => p \in DOMAIN bars'
    BY <2>1, <2>2 DEF Unstale, Restrict
  <2>5. \A p \in pairs : all[p] = Inserted(n, p, fin) /\ p \in DOMAIN all
    BY <1>4
  <2>6. \A p \in DOMAIN pruned \ pairs : all[p] = pruned[p] /\ p \in DOMAIN all
    BY <1>4
  <2>7. ASSUME NEW p \in pairs PROVE p \in DOMAIN bars'
    <3> DEFINE r == Inserted(n, p, fin)
    <3>1. PairOK(r) /\ InsertedTo(BarsFor(pruned, p), n, tick, fin, r, Tick, MaxBlock)
      BY InsertedPairs DEF pruned, tick
    <3>2. Max(DOMAIN r.data) = BarOf(n) /\ BarOf(n) \in DOMAIN r.data
      BY <3>1 DEF InsertedTo
    <3> HIDE DEF r
    <3>3. r.data # <<>>
      BY <3>2
    <3>4. ~ (BarOf(n) - Max(DOMAIN r.data) > Retention)
      BY <1>1, <3>2, RetentionAssumption
    <3>5. ~ IsStale(r, BarOf(n))
      BY <3>3, <3>4 DEF IsStale
    <3>6. QED
      BY <2>4, <2>5, <3>5 DEF r
  <2>8. ASSUME NEW p \in DOMAIN pruned, NEW j \in DOMAIN pruned[p].data, j > BarOf(n) - Retention
        PROVE  p \in DOMAIN bars'
    <3>1. CASE p \in pairs
      BY <2>7, <3>1
    <3>2. CASE p \notin pairs
      <4> DEFINE c == pruned[p]
                 top == Max(DOMAIN c.data)
      <4>1. IsData(c.data, Tick, MaxBlock)
        BY <1>1, LeftPairs DEF LeftBefore, Pruned, pruned
      <4>2. top \in Nat /\ j \in Nat /\ j <= top /\ c.data # <<>>
        <5>1. DOMAIN c.data \in SUBSET (0..MaxBlock + 1) /\ MaxBlock + 1 \in Nat /\ DOMAIN c.data # {}
          BY <1>1, <4>1 DEF IsData
        <5>2. top \in DOMAIN c.data /\ j <= top
          BY <5>1, MaxFacts
        <5>3. QED
          BY <5>1, <5>2
      <4> HIDE DEF c, top
      <4>3. ~ (BarOf(n) - top > Retention)
        BY <1>1, <2>8, <4>2, RetentionAssumption
      <4>4. ~ IsStale(c, BarOf(n))
        BY <4>2, <4>3 DEF IsStale, top
      <4>5. QED
        BY <2>4, <2>6, <3>2, <4>4 DEF c
    <3>3. QED
      BY <3>1, <3>2
  <2>9. \A p \in DOMAIN bars' : \/ p \in pairs /\ bars'[p] = Inserted(n, p, fin)
                                \/ p \in DOMAIN pruned \ pairs /\ bars'[p] = pruned[p]
    BY <2>2, <2>3, <2>5, <2>6
  <2>10. QED
    BY <1>6, <2>1, <2>3, <2>7, <2>8, <2>9 DEF Stored, pruned
<1>7. QED
  BY <1>5, <1>6

(* The invariant of the bars holds again, *)
LEMMA CallKeeps ==
  ASSUME IInv, status = "ok", NEW n, NEW pairs, NEW fin, Call(n, pairs, fin), Stored(n, pairs, fin)
  PROVE  BarsOK' /\ InStep' /\ lastInserted' \in 0..MaxBlock /\ lastPruned' \in 0..MaxBlock /\ status' = "ok"
<1> DEFINE bound == IF IsBacktest THEN n ELSE finalized
<1>1. /\ n \in 1..MaxBlock /\ n \in Nat /\ BarOf(n) \in Nat /\ pairs \subseteq Pairs /\ Len(chain') = n /\ n - 1 <= Len(chain)
      /\ Len(chain) \in Nat /\ finalized \in Nat /\ MaxBlock \in Nat /\ fin \in Int
      /\ chain'[n] = [fork |-> forks', pairs |-> pairs]
  BY CallFacts
<1>2. finalized' = finalized /\ fin < BarOf(bound) /\ (n <= Len(chain) => ~ IsBacktest)
  BY DEF Call
<1>3. lastInserted' = n /\ lastPruned' \in {lastPruned, n} /\ status' = "ok" /\ bars' = [p \in DOMAIN bars' |-> bars'[p]]
  BY DEF Stored
<1>4. DOMAIN bars \subseteq Pairs /\ lastPruned \in 0..MaxBlock /\ \A p \in DOMAIN bars : NotAhead(bars[p]) /\ bars[p].lastFinalized \in Int
  BY PairFacts DEF IInv, StoreOK, BarsOK, InStep
<1>5. bound \in Nat /\ BarOf(bound) \in Nat /\ 1 <= BarOf(bound)
  BY <1>1, BarOfFacts
<1>6. ASSUME NEW p \in DOMAIN bars PROVE bars[p].lastFinalized < BarOf(bound)
  <2>1. CASE IsBacktest
    <3>1. Len(chain) <= n
      BY <1>1, <1>2, <2>1
    <3>2. BarOf(Len(chain)) <= BarOf(n) /\ BarOf(Len(chain)) \in Nat
      BY <1>1, <3>1, BarOfGrows, BarOfFacts
    <3>3. QED
      BY <1>1, <1>4, <2>1, <3>2 DEF NotAhead
  <2>2. CASE ~ IsBacktest
    BY <1>4, <2>2 DEF NotAhead
  <2>3. QED
    BY <2>1, <2>2
<1>7. ASSUME NEW p \in DOMAIN PrunedBars(n)
      PROVE  /\ p \in DOMAIN bars /\ ReadyFor(chain', p, PrunedBars(n)[p], n)
             /\ PrunedBars(n)[p].lastFinalized < BarOf(bound)
  <2>1. p \in DOMAIN bars
    BY <1>1, LeftPairs
  <2>2. ReadyFor(chain', p, PrunedBars(n)[p], n) /\ PrunedBars(n)[p].lastFinalized = bars[p].lastFinalized
    BY LeftPairsReady
  <2>3. QED
    BY <1>6, <2>1, <2>2
<1>8. ASSUME NEW p \in DOMAIN bars'
      PROVE  /\ p \in Pairs /\ PairOK(bars'[p]) /\ Follows(chain', p, bars'[p].data, n)
             /\ bars'[p].lastFinalized < BarOf(bound)
  <2>1. CASE p \in pairs /\ bars'[p] = Inserted(n, p, fin)
    <3> DEFINE b == BarsFor(PrunedBars(n), p)
               r == Inserted(n, p, fin)
    <3>1. PairOK(r) /\ Follows(chain', p, r.data, n) /\ InsertedTo(b, n, [block |-> n, fork |-> forks'], fin, r, Tick, MaxBlock)
      BY <2>1, InsertedPairs
    <3>2. r.lastFinalized = IF fin <= b.lastFinalized THEN b.lastFinalized ELSE fin
      BY <3>1 DEF InsertedTo
    <3>3. b.lastFinalized < BarOf(bound)
      <4>1. CASE p \in DOMAIN PrunedBars(n)
        BY <1>7, <4>1 DEF BarsFor
      <4>2. CASE p \notin DOMAIN PrunedBars(n)
        <5>1. b.lastFinalized = -1
          BY <4>2 DEF BarsFor, NewBars, NoBar
        <5>2. QED
          BY <1>5, <5>1
      <4>3. QED
        BY <4>1, <4>2
    <3> HIDE DEF r, b
    <3>4. r.lastFinalized < BarOf(bound)
      BY <1>2, <3>2, <3>3
    <3>5. QED
      BY <1>1, <2>1, <3>1, <3>4 DEF r
  <2>2. CASE p \in DOMAIN PrunedBars(n) \ pairs /\ bars'[p] = PrunedBars(n)[p]
    <3> DEFINE c == PrunedBars(n)[p]
    <3>1. ReadyFor(chain', p, c, n) /\ p \in Pairs /\ c.lastFinalized < BarOf(bound)
      BY <1>4, <1>7, <2>2
    <3>2. PairOK(c) /\ Follows(chain', p, c.data, n - 1) /\ PadFrom(c.data) \in Nat
      <4>1. PairOK(c) /\ Follows(chain', p, c.data, n - 1)
        BY <3>1 DEF ReadyFor
      <4>2. PadFrom(c.data) \in 1..MaxBlock
        BY <4>1, PairFacts
      <4>3. QED
        BY <4>1, <4>2
    <3>3. p \notin chain'[n].pairs
      BY <1>1, <2>2
    <3>4. Follows(chain', p, c.data, n)
      BY <1>1, <3>2, <3>3, UntradedFollows
    <3>5. QED
      BY <2>2, <3>1, <3>2, <3>4
  <2>3. QED
    BY <2>1, <2>2 DEF Stored
<1>9. BarsOK'
  BY <1>3, <1>8 DEF BarsOK
<1>10. InStep'
  <2>1. \A p \in DOMAIN bars' : Follows(chain', p, bars'[p].data, n) /\ bars'[p].lastFinalized < BarOf(bound)
    BY <1>8
  <2>2. (IF IsBacktest THEN Len(chain') ELSE finalized') = bound
    BY <1>1, <1>2
  <2> HIDE DEF bound
  <2>3. lastInserted' = Len(chain') /\ \A p \in DOMAIN bars' : Follows(chain', p, bars'[p].data, Len(chain'))
    BY <1>1, <1>3, <2>1
  <2>4. \A p \in DOMAIN bars' : bars'[p].lastFinalized < BarOf(IF IsBacktest THEN Len(chain') ELSE finalized')
    BY <2>1, <2>2
  <2>5. QED
    BY <2>3, <2>4 DEF InStep, NotAhead
<1>11. QED
  BY <1>1, <1>3, <1>4, <1>9, <1>10

(* and bars that were final are as they were. *)
LEMMA CallFreezes ==
  ASSUME IInv, status = "ok", NEW n, NEW pairs, NEW fin, Call(n, pairs, fin), Stored(n, pairs, fin),
         NEW p \in DOMAIN bars, p \in DOMAIN bars',
         NEW k \in DOMAIN bars[p].data, k \in DOMAIN bars'[p].data, bars[p].data[k].final
  PROVE  bars'[p].data[k] = bars[p].data[k]
<1> DEFINE b == bars[p]
           c == PrunedBars(n)[p]
<1>1. n \in 1..MaxBlock /\ MaxBlock \in Nat
  BY CallFacts
<1>2. p \in DOMAIN PrunedBars(n) /\ k \in DOMAIN c.data /\ c.data[k] = b.data[k]
  <2>1. CASE ~ IsReorg(n)
    BY <2>1 DEF PrunedBars
  <2>2. CASE IsReorg(n)
    <3> DEFINE r == PruneToReorged(b, n)
               pruned == [q \in DOMAIN bars |-> PruneToReorged(bars[q], n)]
    <3>1. CanPrune(b, n)
      BY <2>2 DEF Stored
    <3>2. EndOf(b.data[k]) < n
      BY <3>1 DEF CanPrune
    <3>3. IsBars(b, Tick, MaxBlock) /\ BarsInv(b)
      BY DEF IInv, StoreOK, BarsOK, PairOK
    <3>4. Pruned(b.data, n, r.data, Tick, MaxBlock)
      BY <1>1, <3>3, PruneFacts DEF BarsInv
    <3>5. k \in DOMAIN r.data /\ r.data[k] = b.data[k]
      BY <3>2, <3>4 DEF Pruned
    <3>6. r.data # <<>>
      BY <3>5
    <3>7. PrunedBars(n) = Restrict(pruned, {q \in DOMAIN bars : pruned[q].data # <<>>})
      BY <2>2 DEF PrunedBars
    <3>8. p \in DOMAIN PrunedBars(n) /\ c = r
      BY <3>6, <3>7 DEF Restrict
    <3>9. QED
      BY <3>5, <3>8
  <2>3. QED
    BY <2>1, <2>2
<1>3. CASE p \in pairs /\ bars'[p] = Inserted(n, p, fin)
  <2>1. InsertedTo(BarsFor(PrunedBars(n), p), n, [block |-> n, fork |-> forks'], fin, Inserted(n, p, fin), Tick, MaxBlock)
    BY <1>3, InsertedPairs
  <2>2. BarsFor(PrunedBars(n), p) = c
    BY <1>2 DEF BarsFor
  <2>3. c.data[k].final => Inserted(n, p, fin).data[k] = c.data[k]
    BY <1>2, <1>3, <2>1, <2>2 DEF InsertedTo
  <2>4. QED
    BY <1>2, <1>3, <2>3
<1>4. CASE p \in DOMAIN PrunedBars(n) \ pairs /\ bars'[p] = c
  BY <1>2, <1>4
<1>5. QED
  BY <1>3, <1>4 DEF Stored

(* The invariant *)

(* What a block may finalize is behind what the chain may replace. *)
LEMMA StoreBlockCalls ==
  ASSUME IInv, NEW n \in 1..MaxBlock, NEW pairs, StoreBlock(n, pairs)
  PROVE  /\ \E fin \in NoBar..MaxBlock + 1 :
              fin < BarOf(IF IsBacktest THEN n ELSE finalized) /\ InsertBlock(n, pairs, fin)
         /\ header' = {} \/ \E h \in [block : 0..finalized, late : BOOLEAN] : header' = {h}
<1>1. /\ finalized \in Nat /\ finalized <= MaxBlock /\ MaxBlock \in Nat /\ n \in Nat
      /\ header = {} \/ \E h \in [block : 0..finalized, late : BOOLEAN] : header = {h}
  BY BoundsAssumption DEF IInv, EnvOK
<1>2. CASE IsBacktest /\ UNCHANGED header /\ InsertBlock(n, pairs, BarOf(n) - 1)
  <2>1. BarOf(n) - 1 \in NoBar..MaxBlock + 1 /\ BarOf(n) - 1 < BarOf(n)
    <3>1. BarOf(n) \in Nat /\ BarOf(n) <= n + 1
      BY <1>1, BarOfFacts
    <3>2. QED
      BY <1>1, <3>1 DEF NoBar
  <2>2. QED
    BY <1>1, <1>2, <2>1
<1>3. CASE ~ IsBacktest /\ \E answer \in FinalizedHeaders : /\ header' = (IF answer = {} THEN header ELSE answer)
                                                            /\ InsertBlock(n, pairs, BarBefore(answer))
  <2>1. PICK answer \in FinalizedHeaders : /\ header' = (IF answer = {} THEN header ELSE answer)
                                           /\ InsertBlock(n, pairs, BarBefore(answer))
    BY <1>3
  <2>2. answer = {} \/ \E h \in [block : 0..finalized, late : BOOLEAN] : answer = {h}
    <3>1. CASE answer = header
      BY <1>1, <3>1
    <3>2. CASE answer # header
      <4>1. answer = {} \/ \E f \in 0..finalized : answer = {[block |-> f, late |-> FALSE]}
        BY <3>2 DEF FinalizedHeaders
      <4>2. \A f \in 0..finalized : [block |-> f, late |-> FALSE] \in [block : 0..finalized, late : BOOLEAN]
        OBVIOUS
      <4>3. QED
        BY <4>1, <4>2
    <3>3. QED
      BY <3>1, <3>2
  <2>3. header' = {} \/ \E h \in [block : 0..finalized, late : BOOLEAN] : header' = {h}
    BY <1>1, <2>1, <2>2
  <2>4. BarBefore(answer) \in NoBar..MaxBlock + 1 /\ BarBefore(answer) < BarOf(finalized)
    <3>1. BarOf(finalized) \in Nat /\ 1 <= BarOf(finalized)
      BY <1>1, BarOfFacts
    <3>2. CASE answer = {}
      BY <1>1, <3>1, <3>2 DEF BarBefore, NoBar
    <3>3. CASE answer # {}
      <4>1. PICK h \in [block : 0..finalized, late : BOOLEAN] : answer = {h}
        BY <2>2, <3>3
      <4>2. h.block \in Nat /\ h.block <= finalized
        BY <1>1
      <4>3. /\ BarOf(h.block) \in Nat /\ 1 <= BarOf(h.block) /\ BarOf(h.block) <= h.block + 1
            /\ BarOf(h.block) <= BarOf(finalized)
        BY <1>1, <4>2, BarOfFacts, BarOfGrows
      <4> DEFINE x == BarOf(h.block) - 1
      <4>4. {BarOf(g.block) - 1 : g \in answer} = {x}
        BY <4>1
      <4>5. x \in Nat
        BY <4>3
      <4> HIDE DEF x
      <4>6. Max({x}) = x
        <5>1. {x} \in SUBSET Nat /\ x \in {x} /\ \A y \in {x} : y <= x
          BY <4>5
        <5>2. QED
          BY <5>1, MaxIs
      <4>7. BarBefore(answer) = x
        BY <3>3, <4>4, <4>6 DEF BarBefore
      <4>8. QED
        BY <1>1, <3>1, <4>2, <4>3, <4>7 DEF x, NoBar
    <3>4. QED
      BY <3>2, <3>3
  <2>5. QED
    BY <1>3, <2>1, <2>3, <2>4
<1>4. QED
  BY <1>2, <1>3 DEF StoreBlock

LEMMA ExtendCalls ==
  ASSUME IInv, NEW pairs \in SUBSET Pairs, Extend(pairs)
  PROVE  EnvOK' /\ \E fin : Call(Len(chain) + 1, pairs, fin)
<1> DEFINE n == Len(chain) + 1
           S == [fork : 0..MaxForks, pairs : SUBSET Pairs]
           e == [fork |-> forks, pairs |-> pairs]
<1>1. chain \in Seq(S) /\ forks \in 0..MaxForks /\ finalized \in 0..Len(chain) /\ Len(chain) \in Nat /\ MaxBlock \in Nat
  BY BoundsAssumption DEF IInv, EnvOK
<1>2. n <= MaxBlock /\ chain' = Append(chain, e) /\ forks' = forks /\ finalized' = finalized /\ StoreBlock(n, pairs)
  BY DEF Extend
<1>3. e \in S
  BY <1>1
<1> HIDE DEF S, e
<1>4. chain' \in Seq(S) /\ Len(chain') = n /\ chain'[n] = e /\ \A i \in 1..Len(chain) : chain'[i] = chain[i]
  BY <1>1, <1>2, <1>3, AppendProperties
<1>5. n \in 1..MaxBlock /\ n - 1 = Len(chain) /\ ~ (n <= Len(chain)) /\ finalized < n
  BY <1>1, <1>2
<1>6. Continues(chain, chain', n)
  BY <1>1, <1>4, <1>5 DEF Continues
<1>7. /\ \E fin \in NoBar..MaxBlock + 1 : fin < BarOf(IF IsBacktest THEN n ELSE finalized) /\ InsertBlock(n, pairs, fin)
      /\ header' = {} \/ \E h \in [block : 0..finalized, late : BOOLEAN] : header' = {h}
  BY <1>2, <1>5, StoreBlockCalls
<1>8. EnvOK'
  <2>1. chain' \in Seq(S) /\ Len(chain') <= MaxBlock /\ forks' \in 0..MaxForks /\ finalized' \in 0..Len(chain')
    BY <1>1, <1>2, <1>4
  <2>2. QED
    BY <1>2, <1>7, <2>1 DEF EnvOK, S
<1>9. \E fin : Call(n, pairs, fin)
  <2> HIDE DEF n
  <2>1. QED
    BY <1>1, <1>2, <1>4, <1>5, <1>6, <1>7 DEF Call, e
<1>10. QED
  BY <1>8, <1>9

LEMMA ReorganiseCalls ==
  ASSUME IInv, NEW pairs \in SUBSET Pairs, NEW n \in 1..MaxBlock, Reorganise(n, pairs)
  PROVE  EnvOK' /\ \E fin : Call(n, pairs, fin)
<1> DEFINE S == [fork : 0..MaxForks, pairs : SUBSET Pairs]
           e == [fork |-> forks + 1, pairs |-> pairs]
           base == SubSeq(chain, 1, n - 1)
<1>1. /\ chain \in Seq(S) /\ forks \in 0..MaxForks /\ MaxForks \in Nat /\ finalized \in 0..Len(chain)
      /\ Len(chain) \in Nat /\ Len(chain) <= MaxBlock /\ MaxBlock \in Nat /\ n \in Nat
  BY BoundsAssumption DEF IInv, EnvOK
<1>2. /\ ~ IsBacktest /\ forks < MaxForks /\ n \in finalized + 1..Len(chain) /\ forks' = forks + 1
      /\ chain' = Append(base, e) /\ finalized' = finalized /\ StoreBlock(n, pairs)
  BY DEF Reorganise
<1>3. e \in S /\ forks' \in 0..MaxForks
  BY <1>1, <1>2
<1> HIDE DEF S, e
<1>4. n \in 1..Len(chain) /\ n - 1 \in 0..Len(chain) /\ finalized < n /\ n - 1 <= Len(chain)
  BY <1>1, <1>2
<1>5. base \in Seq(S) /\ Len(base) = n - 1 /\ \A i \in 1..n - 1 : base[i] = chain[i]
  <2>1. Len(base) = n - 1 /\ \A i \in 1..n - 1 : base[i] = chain[i]
    BY <1>1, <1>4
  <2>2. \A i \in 1..n - 1 : chain[i] \in S
    BY <1>1, <1>4
  <2>3. base \in Seq(S)
    BY <1>1, <1>4, <2>2, SubSeqProperties
  <2>4. QED
    BY <2>1, <2>3
<1> HIDE DEF base
<1>6. chain' \in Seq(S) /\ Len(chain') = n /\ chain'[n] = e /\ \A i \in 1..n - 1 : chain'[i] = chain[i]
  <2>1. /\ chain' \in Seq(S) /\ Len(chain') = Len(base) + 1 /\ chain'[Len(base) + 1] = e
        /\ \A i \in 1..Len(base) : chain'[i] = base[i]
    BY <1>2, <1>3, <1>5, AppendProperties
  <2>2. Len(base) + 1 = n
    BY <1>1, <1>5
  <2>3. QED
    BY <1>5, <2>1, <2>2
<1>7. Continues(chain, chain', n)
  BY <1>4, <1>6 DEF Continues
<1>8. /\ \E fin \in NoBar..MaxBlock + 1 : fin < BarOf(IF IsBacktest THEN n ELSE finalized) /\ InsertBlock(n, pairs, fin)
      /\ header' = {} \/ \E h \in [block : 0..finalized, late : BOOLEAN] : header' = {h}
  BY <1>2, StoreBlockCalls
<1>9. EnvOK'
  <2>1. chain' \in Seq(S) /\ Len(chain') <= MaxBlock /\ forks' \in 0..MaxForks /\ finalized' \in 0..Len(chain')
    BY <1>1, <1>2, <1>3, <1>4, <1>6
  <2>2. QED
    BY <1>2, <1>8, <2>1 DEF EnvOK, S
<1>10. \E fin : Call(n, pairs, fin)
  BY <1>2, <1>3, <1>4, <1>6, <1>7, <1>8 DEF Call, e
<1>11. QED
  BY <1>9, <1>10

LEMMA InitIInv ==
  ASSUME Init
  PROVE  IInv
<1>1. EnvOK
  BY BoundsAssumption DEF Init, EnvOK
<1>2. BarsOK /\ InStep
  BY DEF Init, BarsOK, InStep
<1>3. QED
  BY <1>1, <1>2, BoundsAssumption DEF Init, IInv, StoreOK

(* A block is stored, with the bars as Stored says, or the call fails, which *)
(* only a reorganisation can make it do.                                    *)
BlockStep ==
  \E n, pairs, fin : Call(n, pairs, fin) /\
    (Stored(n, pairs, fin) \/ (status' = "err" /\ IsReorg(n) /\ UNCHANGED <<bars, lastInserted, lastPruned>>))

LEMMA NextSteps ==
  ASSUME IInv, [Next]_vars
  PROVE  /\ EnvOK'
         /\ \/ status = "ok" /\ BlockStep
            \/ UNCHANGED <<chain, bars, lastInserted, lastPruned, status>> /\ (finalized' = finalized \/ finalized <= finalized')
<1>1. ASSUME status = "ok", NEW n, NEW pairs, NEW fin, Call(n, pairs, fin) PROVE BlockStep
  BY <1>1, CallStores DEF BlockStep
<1>2. ASSUME NEW pairs \in SUBSET Pairs, Extend(pairs) PROVE EnvOK' /\ status = "ok" /\ BlockStep
  <2>1. status = "ok"
    BY <1>2 DEF Extend
  <2>2. EnvOK' /\ \E fin : Call(Len(chain) + 1, pairs, fin)
    BY <1>2, ExtendCalls
  <2>3. QED
    BY <1>1, <2>1, <2>2
<1>3. ASSUME NEW pairs \in SUBSET Pairs, NEW n \in 1..MaxBlock, Reorganise(n, pairs)
      PROVE  EnvOK' /\ status = "ok" /\ BlockStep
  <2>1. status = "ok"
    BY <1>3 DEF Reorganise
  <2>2. EnvOK' /\ \E fin : Call(n, pairs, fin)
    BY <1>3, ReorganiseCalls
  <2>3. QED
    BY <1>1, <2>1, <2>2
<1>4. ASSUME NEW f \in 1..MaxBlock, Finalize(f)
      PROVE  EnvOK' /\ UNCHANGED <<chain, bars, lastInserted, lastPruned, status>> /\ finalized <= finalized'
  <2>1. /\ f \in finalized + 1..Len(chain) /\ finalized' = f
        /\ UNCHANGED <<chain, forks, header, bars, lastInserted, lastPruned, status>>
    BY <1>4 DEF Finalize
  <2>2. finalized \in Nat /\ f \in Nat /\ finalized <= f /\ f \in 0..Len(chain)
    BY <2>1 DEF IInv, EnvOK
  <2>3. header' = {} \/ \E h \in [block : 0..finalized', late : BOOLEAN] : header' = {h}
    <3>1. \A h \in [block : 0..finalized, late : BOOLEAN] : h \in [block : 0..f, late : BOOLEAN]
      BY <2>2
    <3>2. QED
      BY <2>1, <3>1 DEF IInv, EnvOK
  <2>4. QED
    BY <2>1, <2>2, <2>3 DEF IInv, EnvOK
<1>5. CASE Pause
  <2>1. UNCHANGED <<chain, forks, finalized, bars, lastInserted, lastPruned, status>>
    BY <1>5 DEF Pause
  <2>2. PICK h \in header : header' = {[h EXCEPT !.late = TRUE]}
    BY <1>5 DEF Pause
  <2>3. h \in [block : 0..finalized, late : BOOLEAN]
    BY <2>2 DEF IInv, EnvOK
  <2>4. [h EXCEPT !.late = TRUE] \in [block : 0..finalized, late : BOOLEAN]
    BY <2>3
  <2>5. QED
    BY <2>1, <2>2, <2>4 DEF IInv, EnvOK
<1>6. CASE UNCHANGED vars
  <2>1. UNCHANGED <<chain, forks, finalized, header, bars, lastInserted, lastPruned, status>>
    BY <1>6 DEF vars
  <2>2. QED
    BY <2>1 DEF IInv, EnvOK
<1>7. QED
  BY <1>2, <1>3, <1>4, <1>5, <1>6 DEF Next, Stopped

LEMMA NextIInv ==
  ASSUME IInv, [Next]_vars
  PROVE  IInv'
<1>1. EnvOK'
  BY NextSteps
<1>2. ASSUME status = "ok", BlockStep PROVE StoreOK'
  <2>1. PICK n, pairs, fin : /\ Call(n, pairs, fin)
                             /\ \/ Stored(n, pairs, fin)
                                \/ status' = "err" /\ UNCHANGED <<bars, lastInserted, lastPruned>>
    BY <1>2 DEF BlockStep
  <2>2. CASE Stored(n, pairs, fin)
    BY <1>2, <2>1, <2>2, CallKeeps DEF StoreOK
  <2>3. CASE status' = "err" /\ UNCHANGED <<bars, lastInserted, lastPruned>>
    BY <2>3 DEF IInv, StoreOK, BarsOK, InStep
  <2>4. QED
    BY <2>1, <2>2, <2>3
<1>3. ASSUME UNCHANGED <<chain, bars, lastInserted, lastPruned, status>>, finalized' = finalized \/ finalized <= finalized'
      PROVE  StoreOK'
  <2>1. BarsOK' /\ lastInserted' \in 0..MaxBlock /\ lastPruned' \in 0..MaxBlock /\ status' \in {"ok", "err"}
    BY <1>3 DEF IInv, StoreOK, BarsOK
  <2>2. ASSUME NEW p \in DOMAIN bars, NotAhead(bars[p]) PROVE NotAhead(bars[p])'
    <3>1. finalized \in Nat /\ finalized' \in Nat /\ finalized <= finalized' /\ bars[p].lastFinalized \in Int
      BY <1>1, <1>3, PairFacts DEF IInv, EnvOK, StoreOK, BarsOK
    <3>2. BarOf(finalized) <= BarOf(finalized') /\ BarOf(finalized) \in Nat /\ BarOf(finalized') \in Nat
      BY <3>1, BarOfGrows, BarOfFacts
    <3>3. bars'[p].lastFinalized = bars[p].lastFinalized /\ Len(chain') = Len(chain)
      BY <1>3
    <3>4. CASE IsBacktest
      BY <2>2, <3>3, <3>4 DEF NotAhead
    <3>5. CASE ~ IsBacktest
      <4>1. bars[p].lastFinalized < BarOf(finalized)
        BY <2>2, <3>5 DEF NotAhead
      <4>2. bars[p].lastFinalized < BarOf(finalized')
        BY <3>1, <3>2, <4>1
      <4>3. QED
        BY <3>3, <3>5, <4>2 DEF NotAhead
    <3>6. QED
      BY <3>4, <3>5
  <2>3. InStep'
    BY <1>3, <2>2 DEF IInv, StoreOK, InStep
  <2>4. QED
    BY <2>1, <2>3 DEF StoreOK
<1>4. QED
  BY <1>1, <1>2, <1>3, NextSteps DEF IInv

(* The invariant behind the safety properties, with the shapes of the       *)
(* records it needs, holds in every state.                                  *)
THEOREM StoreInductive == Spec => []IInv
<1>1. Init => IInv
  BY InitIInv
<1>2. IInv /\ [Next]_vars => IInv'
  BY NextIInv
<1>3. QED
  BY <1>1, <1>2, PTL DEF Spec

(* What the invariant says *)

LEMMA TypeFromInv ==
  ASSUME IInv
  PROVE  TypeOK
<1>1. /\ chain \in Seq([fork : 0..MaxForks, pairs : SUBSET Pairs]) /\ Len(chain) <= MaxBlock
      /\ forks \in 0..MaxForks /\ finalized \in 0..Len(chain) /\ DOMAIN bars \subseteq Pairs
      /\ lastInserted \in 0..MaxBlock /\ lastPruned \in 0..MaxBlock /\ status \in {"ok", "err"}
  BY DEF IInv, EnvOK, StoreOK, BarsOK
<1>2. header \subseteq [block : 0..finalized, late : BOOLEAN] /\ Cardinality(header) <= 1
  <2>1. CASE header = {}
    BY <2>1, FS_EmptySet
  <2>2. CASE header # {}
    <3>1. PICK h \in [block : 0..finalized, late : BOOLEAN] : header = {h}
      BY <2>2 DEF IInv, EnvOK
    <3>2. Cardinality({h}) = 1
      BY FS_Singleton
    <3>3. QED
      BY <3>1, <3>2
  <2>3. QED
    BY <2>1, <2>2
<1>3. ASSUME NEW p \in DOMAIN bars
      PROVE  /\ DOMAIN bars[p].data \in (SUBSET BarId) \ {{}} /\ Cardinality(DOMAIN bars[p].data) <= Retention
             /\ \A k \in DOMAIN bars[p].data : IsBar(bars[p].data[k])
             /\ bars[p].lastFinalized \in BarId
  <2> DEFINE b == bars[p]
             d == bars[p].data
             top == BarOf(MaxBlock)
  <2>1. PairOK(b)
    BY DEF IInv, StoreOK, BarsOK
  <2>2. /\ IsData(d, Tick, MaxBlock) /\ Whole(d) /\ b.lastFinalized < BarOf(PadFrom(d))
        /\ PadFrom(d) \in 1..MaxBlock /\ MaxBlock \in Nat /\ DOMAIN d # {}
    BY <2>1, PairFacts
  <2>3. Cardinality(DOMAIN d) <= Retention /\ b.lastFinalized \in NoBar..MaxBlock + 1 /\ \A k \in DOMAIN d : FreshAt(d, k)
    BY <2>1 DEF PairOK, IsBars, BarsInv
  <2> HIDE DEF d
  <2>4. ASSUME NEW m \in 1..MaxBlock PROVE BarOf(m) <= top /\ BarOf(m) \in Nat /\ top \in Nat
    <3>1. m \in Nat /\ m <= MaxBlock
      OBVIOUS
    <3>2. QED
      BY <2>2, <3>1, BarOfGrows, BarOfFacts
  <2> HIDE DEF top
  <2>5. b.lastFinalized \in NoBar..top
    BY <2>2, <2>3, <2>4 DEF NoBar
  <2>6. ASSUME NEW k \in DOMAIN d PROVE k \in NoBar..top /\ IsBar(d[k])
    <3> DEFINE bar == d[k]
    <3>1. IsBarOf(bar, Tick, MaxBlock) /\ k \in Nat /\ DOMAIN bar.ticks # {}
      BY <2>2 DEF IsData, Whole
    <3>2. PICK m \in DOMAIN bar.ticks : k <= BarOf(m)
      BY <2>2, <3>1 DEF Whole
    <3>3. FreshAt(d, k)
      BY <2>3
    <3>4. bar.ind.ema # <<>>
      BY <3>3 DEF FreshAt
    <3> HIDE DEF bar
    <3>5. bar.final \in BOOLEAN /\ IsTicks(bar.ticks, Tick, MaxBlock) /\ bar.ind.ema \in Seq(Tick)
      BY <3>1 DEF IsBarOf, IsInd
    <3>6. DOMAIN bar.ticks \subseteq 1..MaxBlock /\ Range(bar.ticks) \subseteq Tick
      <4> DEFINE t == bar.ticks
      <4>1. IsTicks(t, Tick, MaxBlock)
        BY <3>5
      <4> HIDE DEF t
      <4>2. DOMAIN t \subseteq 1..MaxBlock /\ Range(t) \subseteq Tick
        BY <4>1 DEF IsTicks, Range
      <4>3. QED
        BY <4>2 DEF t
    <3>7. k \in NoBar..top
      <4>1. m \in 1..MaxBlock
        BY <3>2, <3>6
      <4>2. BarOf(m) <= top /\ BarOf(m) \in Nat /\ top \in Nat
        BY <2>4, <4>1
      <4>3. QED
        BY <3>1, <3>2, <4>2 DEF NoBar
    <3>8. DOMAIN bar.ticks # {}
      BY <3>1 DEF bar
    <3>9. bar.ind.ema # <<>>
      BY <3>4 DEF bar
    <3>10. IsBar(bar)
      <4>1. DOMAIN bar.ticks \in (SUBSET (1..MaxBlock)) \ {{}}
        BY <3>6, <3>8
      <4>2. bar.ind.ema \in Seq(Tick) \ {<<>>}
        BY <3>5, <3>9
      <4>3. QED
        BY <3>5, <3>6, <4>1, <4>2 DEF IsBar
    <3>11. QED
      BY <3>7, <3>10 DEF bar
  <2>7. BarId = NoBar..top
    BY DEF BarId, top
  <2>8. DOMAIN d \in (SUBSET BarId) \ {{}}
    <3>1. DOMAIN d \subseteq NoBar..top /\ DOMAIN d # {}
      BY <2>2, <2>6
    <3>2. QED
      BY <2>7, <3>1
  <2>9. Cardinality(DOMAIN d) <= Retention /\ \A k \in DOMAIN d : IsBar(d[k])
    BY <2>3, <2>6
  <2>10. b.lastFinalized \in BarId
    BY <2>5, <2>7
  <2>11. QED
    BY <2>8, <2>9, <2>10 DEF d
<1>4. QED
  BY <1>1, <1>2, <1>3 DEF TypeOK

(* The shape of the state: see TypeOK.                                      *)
THEOREM StoreTypeCorrect == Spec => []TypeOK
<1>1. IInv => TypeOK
  BY TypeFromInv
<1>2. QED
  BY <1>1, StoreInductive, PTL

(* The bars of a pair are finalized from the oldest on, so finalize_range   *)
(* never meets a bar that it has finalized before.                          *)
THEOREM FinalizesInOrder == Spec => []FinalizedFirst
<1>1. IInv => FinalizedFirst
  BY DEF IInv, StoreOK, BarsOK, PairOK, BarsInv, FinalizedFirst
<1>2. QED
  BY <1>1, StoreInductive, PTL

(* The indicators follow from the closes there are, whatever changed a bar. *)
THEOREM IndicatorsStayFresh == Spec => []IndicatorsFresh
<1>1. IInv => IndicatorsFresh
  BY DEF IInv, StoreOK, BarsOK, PairOK, BarsInv, IndicatorsFresh
<1>2. QED
  BY <1>1, StoreInductive, PTL

LEMMA LastTradeIs ==
  ASSUME Len(chain) \in Nat, NEW p, NEW m, NEW tick, LastTradeOn(chain, p, m, tick)
  PROVE  IsLastTrade(p, m, tick)
<1>1. m \in 1..Len(chain)
  BY DEF LastTradeOn
<1>2. PICK o \in 1..m : /\ p \in chain[o].pairs
                        /\ \A q \in 1..m : p \in chain[q].pairs => q <= o
                        /\ tick = [block |-> o, fork |-> chain[o].fork]
  BY DEF LastTradeOn
<1>3. m <= Len(chain) /\ o \in TradesUpTo(p, m) /\ \A q \in TradesUpTo(p, m) : q <= o
  BY <1>1, <1>2 DEF TradesUpTo
<1>4. QED
  BY <1>2, <1>3 DEF IsLastTrade

(* A reorganisation leaves no orphaned trade in a bar, nor a copy of one.   *)
THEOREM PricesStayCanonical == Spec => []PricesCanonical
<1>1. ASSUME IInv PROVE PricesCanonical
  <2>1. SUFFICES ASSUME NEW p \in DOMAIN bars, NEW k \in DOMAIN bars[p].data, status = "ok",
                        NEW m \in DOMAIN bars[p].data[k].ticks
                 PROVE  IsLastTrade(p, m, bars[p].data[k].ticks[m])
    BY DEF PricesCanonical
  <2>2. Len(chain) \in Nat /\ LastTradeOn(chain, p, m, bars[p].data[k].ticks[m])
    BY <1>1, <2>1 DEF IInv, EnvOK, StoreOK, InStep, Follows
  <2>3. QED
    BY <2>2, LastTradeIs
<1>2. QED
  BY <1>1, StoreInductive, PTL

(* The invariant as TLC checks it: every part of it follows from IInv,      *)
(* which adds only that the records are records.                            *)
THEOREM StoreInvariant == Spec => []StoreInv
<1>1. IInv => StoreInv
  <2>1. SUFFICES ASSUME IInv PROVE StoreInv
    OBVIOUS
  <2>2. TypeOK
    BY <2>1, TypeFromInv
  <2>3. \A p \in DOMAIN bars : BarsInv(bars[p])
    BY <2>1 DEF IInv, StoreOK, BarsOK, PairOK
  <2>4. ASSUME status = "ok"
        PROVE  lastInserted = Len(chain) /\ \A p \in DOMAIN bars : OnChain(p) /\ NotAhead(bars[p])
    <3>1. /\ lastInserted = Len(chain)
          /\ \A p \in DOMAIN bars : Follows(chain, p, bars[p].data, Len(chain)) /\ NotAhead(bars[p])
      BY <2>1, <2>4 DEF IInv, StoreOK, InStep
    <3>2. ASSUME NEW p \in DOMAIN bars, Follows(chain, p, bars[p].data, Len(chain)) PROVE OnChain(p)
      <4>1. \A m, tick : LastTradeOn(chain, p, m, tick) => IsLastTrade(p, m, tick)
        BY <2>1, LastTradeIs DEF IInv, EnvOK
      <4>2. QED
        BY <3>2, <4>1 DEF Follows, OnChain
    <3>3. QED
      BY <3>1, <3>2
  <2>5. QED
    BY <2>2, <2>3, <2>4 DEF StoreInv
<1>2. QED
  BY <1>1, StoreInductive, PTL

(* No step changes a bar that is final, other than to drop it.              *)
THEOREM FinalBarsAreFrozen == Spec => FinalizedFrozen
<1> DEFINE Frozen == \A p \in Pairs, k \in BarId :
                       HasBar(p, k) /\ HasBar(p, k)' /\ bars[p].data[k].final
                         => bars'[p].data[k] = bars[p].data[k]
<1>1. ASSUME IInv, [Next]_vars PROVE Frozen
  <2>1. SUFFICES ASSUME NEW p \in Pairs, NEW k \in BarId, HasBar(p, k), HasBar(p, k)', bars[p].data[k].final
                 PROVE  bars'[p].data[k] = bars[p].data[k]
    OBVIOUS
  <2>2. /\ p \in DOMAIN bars /\ k \in DOMAIN bars[p].data
        /\ p \in DOMAIN bars' /\ k \in DOMAIN bars'[p].data
    BY <2>1 DEF HasBar
  <2>3. CASE UNCHANGED bars
    BY <2>3
  <2>4. CASE status = "ok" /\ BlockStep
    <3>1. PICK n, pairs, fin : Call(n, pairs, fin) /\ (Stored(n, pairs, fin) \/ UNCHANGED bars)
      BY <2>4 DEF BlockStep
    <3>2. CASE Stored(n, pairs, fin)
      BY <1>1, <2>1, <2>2, <2>4, <3>1, <3>2, CallFreezes
    <3>3. QED
      BY <2>3, <3>1, <3>2
  <2>5. QED
    BY <1>1, <2>3, <2>4, NextSteps
<1>2. Spec => [][Frozen]_vars
  <2> HIDE DEF Frozen
  <2>1. QED
    BY <1>1, StoreInductive, PTL DEF Spec
<1>3. QED
  BY <1>2 DEF FinalizedFrozen

(* A backtest *)

LEMMA BacktestSteps ==
  ASSUME IInv, [Next]_vars, IsBacktest, status = "ok"
  PROVE  \/ UNCHANGED <<chain, bars, status>>
         \/ \E n, pairs, fin : /\ Call(n, pairs, fin) /\ Stored(n, pairs, fin)
                               /\ n = Len(chain) + 1 /\ PrunedBars(n) = bars
<1>1. CASE UNCHANGED <<chain, bars, lastInserted, lastPruned, status>>
  BY <1>1
<1>2. CASE BlockStep
  <2>1. PICK n, pairs, fin : /\ Call(n, pairs, fin)
                             /\ Stored(n, pairs, fin) \/ IsReorg(n)
    BY <1>2 DEF BlockStep
  <2>2. n \in Nat /\ Len(chain) \in Nat /\ n - 1 <= Len(chain) /\ ~ (n <= Len(chain)) /\ lastInserted = Len(chain)
    <3>1. n \in Nat /\ Len(chain) \in Nat /\ n - 1 <= Len(chain)
      BY <2>1, CallFacts
    <3>2. ~ (n <= Len(chain))
      BY <2>1 DEF Call
    <3>3. QED
      BY <3>1, <3>2 DEF IInv, StoreOK, InStep
  <2>3. ~ IsReorg(n) /\ n = Len(chain) + 1
    BY <2>2 DEF IsReorg
  <2>4. PrunedBars(n) = bars
    BY <2>3 DEF PrunedBars
  <2>5. QED
    BY <2>1, <2>3, <2>4
<1>3. QED
  BY <1>1, <1>2, NextSteps

(* A trade within the window stays in its bar when the next block is added. *)
LEMMA WindowStays ==
  ASSUME IInv, status = "ok", WindowKept, NEW n, NEW pairs, NEW fin, Call(n, pairs, fin), Stored(n, pairs, fin),
         n = Len(chain) + 1, PrunedBars(n) = bars
  PROVE  WindowKept'
<1>1. /\ n \in 1..MaxBlock /\ n \in Nat /\ BarOf(n) \in Nat /\ Len(chain) \in Nat /\ Len(chain') = n
      /\ chain'[n] = [fork |-> forks', pairs |-> pairs] /\ \A o \in 1..n - 1 : chain'[o] = chain[o]
  BY CallFacts DEF Call, Continues
<1>2. SUFFICES ASSUME NEW p \in Pairs, NEW o \in 1..n, p \in chain'[o].pairs, BarOf(o) > BarOf(n) - Retention
               PROVE  /\ p \in DOMAIN bars' /\ BarOf(o) \in DOMAIN bars'[p].data
                      /\ o \in DOMAIN bars'[p].data[BarOf(o)].ticks
  BY <1>1 DEF WindowKept, HasBar
<1>3. ASSUME p \in pairs
      PROVE  /\ p \in DOMAIN bars' /\ bars'[p] = Inserted(n, p, fin)
             /\ InsertedTo(BarsFor(bars, p), n, [block |-> n, fork |-> forks'], fin, bars'[p], Tick, MaxBlock)
  <2>1. p \in DOMAIN bars' /\ bars'[p] = Inserted(n, p, fin)
    BY <1>3 DEF Stored
  <2>2. InsertedTo(BarsFor(PrunedBars(n), p), n, [block |-> n, fork |-> forks'], fin, Inserted(n, p, fin), Tick, MaxBlock)
    BY <1>3, InsertedPairs
  <2>3. QED
    BY <2>1, <2>2
<1>4. CASE o = n
  <2>1. p \in pairs
    BY <1>1, <1>2, <1>4
  <2>2. QED
    BY <1>3, <1>4, <2>1 DEF InsertedTo
<1>5. CASE o # n
  <2>1. o \in 1..Len(chain) /\ o \in 1..n - 1 /\ o \in Nat /\ Len(chain) <= n
    BY <1>1, <1>5
  <2>2. p \in chain[o].pairs
    BY <1>1, <1>2, <2>1
  <2>3. BarOf(Len(chain)) <= BarOf(n) /\ BarOf(Len(chain)) \in Nat /\ BarOf(o) \in Nat
    BY <1>1, <2>1, BarOfGrows, BarOfFacts
  <2>4. BarOf(o) > BarOf(Len(chain)) - Retention
    BY <1>1, <1>2, <2>3, RetentionAssumption
  <2>5. p \in DOMAIN bars /\ BarOf(o) \in DOMAIN bars[p].data /\ o \in DOMAIN bars[p].data[BarOf(o)].ticks
    BY <2>1, <2>2, <2>4 DEF WindowKept, HasBar
  <2>6. CASE p \in pairs
    <3>1. BarsFor(bars, p) = bars[p]
      BY <2>5 DEF BarsFor
    <3>2. BarOf(o) \in DOMAIN bars'[p].data /\ DOMAIN bars[p].data[BarOf(o)].ticks \subseteq DOMAIN bars'[p].data[BarOf(o)].ticks
      BY <1>2, <1>3, <2>5, <2>6, <3>1 DEF InsertedTo
    <3>3. QED
      BY <1>3, <2>5, <2>6, <3>2
  <2>7. CASE p \notin pairs
    <3>1. p \in DOMAIN bars'
      BY <1>2, <2>5 DEF Stored
    <3>2. bars'[p] = bars[p]
      BY <2>7, <3>1 DEF Stored
    <3>3. QED
      BY <2>5, <3>1, <3>2
  <2>8. QED
    BY <2>6, <2>7
<1>6. QED
  BY <1>4, <1>5

BacktestInv == IInv /\ NeverFails /\ WindowKept

(* In a backtest nothing fails, and nothing in the window is lost.          *)
THEOREM BacktestInductive == IsBacktest /\ Spec => []BacktestInv
<1>1. Init => BacktestInv
  <2>1. ASSUME Init PROVE NeverFails /\ WindowKept
    BY <2>1 DEF Init, NeverFails, WindowKept
  <2>2. QED
    BY <2>1, InitIInv DEF BacktestInv
<1>2. ASSUME IsBacktest, BacktestInv, [Next]_vars PROVE BacktestInv'
  <2>1. IInv /\ status = "ok" /\ WindowKept
    BY <1>2 DEF BacktestInv, NeverFails
  <2>2. IInv'
    BY <1>2, <2>1, NextIInv
  <2>3. CASE UNCHANGED <<chain, bars, status>>
    BY <2>1, <2>2, <2>3 DEF BacktestInv, NeverFails, WindowKept, HasBar
  <2>4. CASE \E n, pairs, fin : /\ Call(n, pairs, fin) /\ Stored(n, pairs, fin)
                                /\ n = Len(chain) + 1 /\ PrunedBars(n) = bars
    <3>1. PICK n, pairs, fin : /\ Call(n, pairs, fin) /\ Stored(n, pairs, fin)
                               /\ n = Len(chain) + 1 /\ PrunedBars(n) = bars
      BY <2>4
    <3>2. WindowKept'
      BY <2>1, <3>1, WindowStays
    <3>3. status' = "ok"
      BY <2>1, <3>1 DEF Stored
    <3>4. QED
      BY <2>2, <3>2, <3>3 DEF BacktestInv, NeverFails
  <2>5. QED
    BY <1>2, <2>1, <2>3, <2>4, BacktestSteps
<1>3. IsBacktest /\ Spec => []BacktestInv
  <2>1. CASE IsBacktest
    BY <1>1, <1>2, <2>1, PTL DEF Spec
  <2>2. QED
    BY <2>1
<1>4. QED
  BY <1>3

(* insert_block never fails in a backtest, whichever pairs trade when.      *)
THEOREM BacktestNeverFails == IsBacktest /\ Spec => []NeverFails
<1>1. BacktestInv => NeverFails
  BY DEF BacktestInv
<1>2. QED
  BY <1>1, BacktestInductive, PTL

(* A backtest finds every trade of the retained bars in its bar.            *)
THEOREM BacktestKeepsWindow == IsBacktest /\ Spec => []WindowKept
<1>1. BacktestInv => WindowKept
  BY DEF BacktestInv
<1>2. QED
  BY <1>1, BacktestInductive, PTL
=============================================================================
