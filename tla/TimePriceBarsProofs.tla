------------------------- MODULE TimePriceBarsProofs -------------------------
(***************************************************************************)
(* What the operations on the bars of one pair do to bars that are whole,   *)
(* for any number of blocks in a bar, any retention and any period: the     *)
(* lemmas behind the proofs about the store.                                *)
(***************************************************************************)
EXTENDS TimePriceBars, BoundedInduction, SequenceTheorems, FiniteSetTheorems

(* Greatest and least elements *)

LEMMA MaxFacts ==
  ASSUME NEW B \in Nat, NEW S \in SUBSET (0..B), S # {}
  PROVE  Max(S) \in S /\ \A x \in S : x <= Max(S)
<1> DEFINE T == {B - x : x \in S}
<1>1. T \in SUBSET Nat /\ T # {}
  <2>1. \A x \in S : B - x \in Nat
    OBVIOUS
  <2>2. QED
    BY <2>1
<1>2. PICK t \in T : \A u \in T : t <= u
  BY <1>1, LeastNatural
<1>3. PICK x \in S : t = B - x
  BY <1>2
<1>4. \A y \in S : x >= y
  <2>1. ASSUME NEW y \in S PROVE x >= y
    <3>1. B - x <= B - y
      BY <1>2, <1>3
    <3>2. QED
      BY <3>1
  <2>2. QED
    BY <2>1
<1>5. Max(S) \in S /\ \A y \in S : Max(S) >= y
  BY <1>3, <1>4 DEF Max
<1>6. QED
  BY <1>5

LEMMA MinFacts ==
  ASSUME NEW S \in SUBSET Nat, S # {}
  PROVE  Min(S) \in S /\ \A x \in S : Min(S) <= x
BY LeastNatural DEF Min

LEMMA MaxIs ==
  ASSUME NEW S \in SUBSET Nat, NEW x \in S, \A y \in S : y <= x
  PROVE  Max(S) = x
<1>1. \A y \in S : x >= y
  OBVIOUS
<1>2. Max(S) \in S /\ \A y \in S : Max(S) >= y
  BY <1>1 DEF Max
<1>3. Max(S) \in Nat /\ x \in Nat /\ x >= Max(S) /\ Max(S) >= x
  BY <1>1, <1>2
<1>4. QED
  BY <1>3

LEMMA BarOfFacts ==
  ASSUME NEW n \in Nat
  PROVE  BarOf(n) \in Nat /\ 1 <= BarOf(n) /\ BarOf(n) <= n + 1
<1>1. n \div PerBar \in Nat /\ n \div PerBar <= n
  BY PerBarAssumption
<1>2. QED
  BY <1>1 DEF BarOf

LEMMA BarOfGrows ==
  ASSUME NEW m \in Nat, NEW n \in Nat, m <= n
  PROVE  BarOf(m) <= BarOf(n)
<1>1. m \div PerBar <= n \div PerBar /\ m \div PerBar \in Nat /\ n \div PerBar \in Nat
  BY PerBarAssumption
<1>2. QED
  BY <1>1 DEF BarOf

(* Bars with ticks in T for blocks up to B *)

IsTicks(t, T, B) == DOMAIN t \subseteq 1..B /\ t \in [DOMAIN t -> T]

IsInd(i, T) == i = [closes |-> i.closes, ema |-> i.ema] /\ i.ema \in Seq(T)

IsBarOf(bar, T, B) ==
  /\ bar = [final |-> bar.final, ticks |-> bar.ticks, ind |-> bar.ind]
  /\ bar.final \in BOOLEAN /\ IsTicks(bar.ticks, T, B) /\ IsInd(bar.ind, T)

IsData(d, T, B) ==
  /\ d = [k \in DOMAIN d |-> d[k]] /\ DOMAIN d \subseteq 0..B + 1
  /\ \A k \in DOMAIN d : IsBarOf(d[k], T, B)

(* A bar that is not empty has a first and a last block, and a close. *)
LEMMA EndFacts ==
  ASSUME NEW T, NEW B \in Nat, NEW bar, IsTicks(bar.ticks, T, B), DOMAIN bar.ticks # {}
  PROVE  /\ StartOf(bar) \in DOMAIN bar.ticks /\ \A m \in DOMAIN bar.ticks : StartOf(bar) <= m
         /\ EndOf(bar) \in DOMAIN bar.ticks /\ \A m \in DOMAIN bar.ticks : m <= EndOf(bar)
         /\ Close(bar) \in T
<1> DEFINE D == DOMAIN bar.ticks
<1>1. D \in SUBSET (0..B) /\ D \in SUBSET Nat /\ D # {}
  BY DEF IsTicks
<1> HIDE DEF D
<1>2. Max(D) \in D /\ \A m \in D : m <= Max(D)
  BY <1>1, MaxFacts
<1>3. Min(D) \in D /\ \A m \in D : Min(D) <= m
  BY <1>1, MinFacts
<1>4. EndOf(bar) = Max(D) /\ StartOf(bar) = Min(D)
  BY DEF EndOf, StartOf, D
<1>5. Close(bar) \in T
  <2>1. EndOf(bar) \in DOMAIN bar.ticks
    BY <1>2, <1>4 DEF D
  <2>2. QED
    BY <2>1 DEF Close, IsTicks
<1>6. QED
  BY <1>2, <1>3, <1>4, <1>5 DEF D

(* The last of all blocks is the end of the last bar. *)
LEMMA LastFacts ==
  ASSUME NEW T, NEW B \in Nat, NEW d, IsData(d, T, B), Whole(d)
  PROVE  LET k == Max(DOMAIN d) IN
         /\ k \in DOMAIN d /\ k \in Nat /\ \A j \in DOMAIN d : j \in Nat /\ j <= k
         /\ PadFrom(d) \in DOMAIN d[k].ticks /\ PadFrom(d) \in 1..B
         /\ \A j \in DOMAIN d : \A m \in DOMAIN d[j].ticks : m \in 1..B /\ m <= PadFrom(d)
         /\ k <= BarOf(PadFrom(d)) /\ Close(d[k]) = d[k].ticks[PadFrom(d)] /\ Close(d[k]) \in T
<1> DEFINE k == Max(DOMAIN d)
           e == PadFrom(d)
<1>1. k \in DOMAIN d /\ k \in Nat /\ \A j \in DOMAIN d : j \in Nat /\ j <= k
  <2>1. DOMAIN d \in SUBSET (0..B + 1) /\ DOMAIN d # {} /\ B + 1 \in Nat
    BY DEF IsData, Whole
  <2>2. k \in DOMAIN d /\ \A j \in DOMAIN d : j <= k
    BY <2>1, MaxFacts
  <2>3. QED
    BY <2>1, <2>2
<1>2. IsTicks(d[k].ticks, T, B) /\ DOMAIN d[k].ticks # {}
  BY <1>1 DEF IsData, IsBarOf, Whole
<1>3. e = EndOf(d[k])
  BY DEF PadFrom
<1> HIDE DEF k, e
<1>4. e \in DOMAIN d[k].ticks /\ e \in 1..B /\ (\A m \in DOMAIN d[k].ticks : m <= e) /\ Close(d[k]) \in T
  <2>1. e \in DOMAIN d[k].ticks /\ (\A m \in DOMAIN d[k].ticks : m <= e) /\ Close(d[k]) \in T
    BY <1>2, <1>3, EndFacts
  <2>2. QED
    BY <1>2, <2>1 DEF IsTicks
<1>5. Close(d[k]) = d[k].ticks[e]
  BY <1>3 DEF Close
<1>6. ASSUME NEW j \in DOMAIN d, NEW m \in DOMAIN d[j].ticks PROVE m \in 1..B /\ m <= e
  <2>1. m \in 1..B
    BY DEF IsData, IsBarOf, IsTicks
  <2>2. CASE j = k
    BY <1>4, <1>6, <2>1, <2>2
  <2>3. CASE j # k
    <3>1. j < k
      BY <1>1, <2>3
    <3>2. m < e
      BY <1>1, <1>4, <3>1 DEF Whole
    <3>3. QED
      BY <1>4, <2>1, <3>2
  <2>4. QED
    BY <2>2, <2>3
<1>7. k <= BarOf(e)
  BY <1>1, <1>4 DEF Whole
<1>8. QED
  BY <1>1, <1>4, <1>5, <1>6, <1>7 DEF k, e

(* Ticks that are added to a bar *)

LEMMA EntryFacts ==
  ASSUME NEW T, NEW B \in Nat, NEW d, IsData(d, T, B), NEW k
  PROVE  /\ IsBarOf(EntryAt(d, k), T, B)
         /\ k \in DOMAIN d => EntryAt(d, k) = d[k]
         /\ k \notin DOMAIN d => EntryAt(d, k) = NewBar /\ DOMAIN EntryAt(d, k).ticks = {}
<1>1. IsBarOf(NewBar, T, B) /\ DOMAIN NewBar.ticks = {}
  <2>1. /\ NewBar.final = FALSE /\ NewBar.ticks = <<>> /\ NewBar.ind = NoIndicators
        /\ NoIndicators.closes = {} /\ NoIndicators.ema = <<>>
    BY DEF NewBar, NoIndicators
  <2>2. IsTicks(<<>>, T, B)
    BY DEF IsTicks
  <2>3. IsInd(NoIndicators, T)
    BY DEF IsInd, NoIndicators
  <2>4. QED
    BY <2>1, <2>2, <2>3 DEF IsBarOf, NewBar
<1>2. CASE k \in DOMAIN d
  BY <1>2 DEF EntryAt, IsData
<1>3. CASE k \notin DOMAIN d
  BY <1>1, <1>3 DEF EntryAt
<1>4. QED
  BY <1>2, <1>3

TicksAdded(d, k, ticks, r, T, B) ==
  /\ IsData(r, T, B) /\ DOMAIN r = DOMAIN d \cup {k}
  /\ \A j \in DOMAIN d : j # k => r[j] = d[j]
  /\ r[k].final = FALSE /\ r[k].ticks = Over(ticks, EntryAt(d, k).ticks)
  /\ DOMAIN r[k].ticks = DOMAIN ticks \cup DOMAIN EntryAt(d, k).ticks

LEMMA WithTicksFacts ==
  ASSUME NEW T, NEW B \in Nat, NEW d, IsData(d, T, B), NEW k \in 0..B + 1,
         NEW ticks, IsTicks(ticks, T, B)
  PROVE  TicksAdded(d, k, ticks, WithTicks(d, k, ticks), T, B)
<1> DEFINE r == WithTicks(d, k, ticks)
           old == EntryAt(d, k).ticks
           bar == [final |-> FALSE, ticks |-> Over(ticks, old), ind |-> NoIndicators]
<1>1. IsTicks(old, T, B)
  BY EntryFacts DEF IsBarOf
<1>2. IsTicks(Over(ticks, old), T, B) /\ DOMAIN Over(ticks, old) = DOMAIN ticks \cup DOMAIN old
  <2> HIDE DEF old
  <2>1. QED
    BY <1>1 DEF IsTicks, Over
<1>3. IsInd(NoIndicators, T)
  <2>1. NoIndicators.closes = {} /\ NoIndicators.ema = <<>>
    BY DEF NoIndicators
  <2>2. QED
    BY <2>1 DEF IsInd, NoIndicators
<1>4. IsBarOf(bar, T, B) /\ bar.final = FALSE /\ bar.ticks = Over(ticks, old)
  BY <1>2, <1>3 DEF IsBarOf
<1>5. r = [j \in DOMAIN d \cup {k} |-> IF j = k THEN bar ELSE d[j]]
  BY DEF WithTicks
<1> HIDE DEF r, old, bar
<1>6. DOMAIN r = DOMAIN d \cup {k} /\ r[k] = bar /\ (\A j \in DOMAIN d : j # k => r[j] = d[j])
      /\ r = [j \in DOMAIN r |-> r[j]]
  BY <1>5
<1>7. IsData(r, T, B)
  <2>1. ASSUME NEW j \in DOMAIN r PROVE IsBarOf(r[j], T, B)
    <3>1. CASE j = k
      BY <1>4, <1>6, <3>1
    <3>2. CASE j # k
      BY <1>6, <3>2 DEF IsData
    <3>3. QED
      BY <3>1, <3>2
  <2>2. DOMAIN r \subseteq 0..B + 1
    BY <1>6 DEF IsData
  <2>3. QED
    BY <1>6, <2>1, <2>2 DEF IsData
<1>8. QED
  BY <1>2, <1>4, <1>6, <1>7 DEF r, old, TicksAdded

(* Blocks in a row that follow the last one, or are the first, make bars    *)
(* that are whole again.                                                    *)
Extended(d, k, first, last, r) ==
  /\ Whole(r) /\ PadFrom(r) = last /\ Max(DOMAIN r) = k
  /\ Blocks(r) = Blocks(d) \cup first..last

LEMMA ExtendWhole ==
  ASSUME NEW T, NEW B \in Nat, NEW d, IsData(d, T, B),
         NEW k \in 0..B + 1, \A j \in DOMAIN d : j <= k,
         NEW first \in 1..B, NEW last \in first..B, k <= BarOf(first),
         NEW ticks, IsTicks(ticks, T, B), DOMAIN ticks = first..last,
         DOMAIN d = {} \/ (Whole(d) /\ first = PadFrom(d) + 1)
  PROVE  Extended(d, k, first, last, WithTicks(d, k, ticks))
<1> DEFINE r == WithTicks(d, k, ticks)
           old == DOMAIN EntryAt(d, k).ticks
<1>1. /\ IsData(r, T, B) /\ DOMAIN r = DOMAIN d \cup {k}
      /\ \A j \in DOMAIN d : j # k => r[j] = d[j]
      /\ DOMAIN r[k].ticks = first..last \cup old
  <2>1. TicksAdded(d, k, ticks, r, T, B)
    BY WithTicksFacts
  <2> HIDE DEF r
  <2>2. QED
    BY <2>1 DEF TicksAdded
<1>2. (k \in DOMAIN d => old = DOMAIN d[k].ticks) /\ (k \notin DOMAIN d => old = {})
  BY EntryFacts
<1> HIDE DEF r, old
<1>3. \A j \in DOMAIN d : \A m \in DOMAIN d[j].ticks : m \in 1..B /\ m < first
  <2>1. CASE DOMAIN d = {}
    BY <2>1
  <2>2. CASE Whole(d) /\ first = PadFrom(d) + 1
    <3>1. /\ PadFrom(d) \in 1..B
          /\ \A j \in DOMAIN d : \A m \in DOMAIN d[j].ticks : m \in 1..B /\ m <= PadFrom(d)
      BY <2>2, LastFacts
    <3>2. QED
      BY <2>2, <3>1
  <2>3. QED
    BY <2>1, <2>2
<1>4. first \in Nat /\ last \in Nat /\ first <= last /\ first \in first..last /\ last \in first..last
  OBVIOUS
<1>5. Blocks(r) = Blocks(d) \cup first..last
  <2>1. ASSUME NEW m \in Blocks(r) PROVE m \in Blocks(d) \cup first..last
    <3>1. PICK j \in DOMAIN r : m \in DOMAIN r[j].ticks
      BY DEF Blocks
    <3>2. CASE j = k
      BY <1>1, <1>2, <3>1, <3>2 DEF Blocks
    <3>3. CASE j # k
      BY <1>1, <3>1, <3>3 DEF Blocks
    <3>4. QED
      BY <3>2, <3>3
  <2>2. first..last \subseteq Blocks(r)
    BY <1>1 DEF Blocks
  <2>3. ASSUME NEW m \in Blocks(d) PROVE m \in Blocks(r)
    <3>1. PICK j \in DOMAIN d : m \in DOMAIN d[j].ticks
      BY DEF Blocks
    <3>2. CASE j = k
      BY <1>1, <1>2, <3>1, <3>2 DEF Blocks
    <3>3. CASE j # k
      BY <1>1, <3>1, <3>3 DEF Blocks
    <3>4. QED
      BY <3>2, <3>3
  <2>4. QED
    BY <2>1, <2>2, <2>3
<1>6. ASSUME NEW j \in DOMAIN r PROVE DOMAIN r[j].ticks # {}
  <2>1. CASE j = k
    BY <1>1, <1>4, <2>1
  <2>2. CASE j # k
    BY <1>1, <2>2 DEF Whole
  <2>3. QED
    BY <2>1, <2>2
<1>7. ASSUME NEW j \in DOMAIN r, NEW m \in DOMAIN r[j].ticks PROVE j <= BarOf(m)
  <2>1. CASE j \in DOMAIN d /\ m \in DOMAIN d[j].ticks
    BY <2>1 DEF Whole
  <2>2. CASE j = k /\ m \in first..last
    <3>1. m \in Nat /\ first <= m
      BY <2>2
    <3>2. BarOf(first) <= BarOf(m) /\ BarOf(first) \in Nat /\ BarOf(m) \in Nat
      BY <1>4, <3>1, BarOfGrows, BarOfFacts
    <3>3. QED
      BY <2>2, <3>2
  <2>3. QED
    BY <1>1, <1>2, <1>7, <2>1, <2>2
<1>8. ASSUME NEW i \in DOMAIN r, NEW j \in DOMAIN r, i < j,
             NEW m \in DOMAIN r[i].ticks, NEW n \in DOMAIN r[j].ticks
      PROVE  m < n
  <2>1. i \in DOMAIN d /\ i # k /\ m \in DOMAIN d[i].ticks
    <3>1. \A x \in DOMAIN r : x \in Nat /\ x <= k
      BY <1>1 DEF IsData
    <3>2. i # k
      BY <1>8, <3>1
    <3>3. QED
      BY <1>1, <1>8, <3>2
  <2>2. CASE j \in DOMAIN d /\ n \in DOMAIN d[j].ticks
    BY <1>8, <2>1, <2>2 DEF Whole
  <2>3. CASE n \in first..last
    BY <1>3, <2>1, <2>3
  <2>4. QED
    BY <1>1, <1>2, <1>8, <2>2, <2>3
<1>9. ASSUME NEW m \in Blocks(r), NEW n \in Blocks(r) PROVE m..n \subseteq Blocks(r)
  <2>1. CASE DOMAIN d = {}
    <3>1. Blocks(d) = {}
      BY <2>1 DEF Blocks
    <3>2. QED
      BY <1>4, <1>5, <3>1
  <2>2. CASE Whole(d) /\ first = PadFrom(d) + 1
    <3>1. PadFrom(d) \in Blocks(d) /\ PadFrom(d) \in Nat /\ \A x \in Blocks(d) : x \in Nat /\ x <= PadFrom(d)
      <4>1. /\ Max(DOMAIN d) \in DOMAIN d /\ PadFrom(d) \in DOMAIN d[Max(DOMAIN d)].ticks /\ PadFrom(d) \in 1..B
            /\ \A j \in DOMAIN d : \A x \in DOMAIN d[j].ticks : x \in 1..B /\ x <= PadFrom(d)
        BY <2>2, LastFacts
      <4>2. QED
        BY <4>1 DEF Blocks
    <3>2. ASSUME NEW x \in m..n PROVE x \in Blocks(d) \cup first..last
      <4>1. m \in Nat /\ n \in Nat /\ n <= last
        BY <1>4, <1>5, <2>2, <3>1
      <4>2. CASE x <= PadFrom(d)
        <5>1. m \in Blocks(d)
          BY <1>5, <2>2, <3>1, <4>1, <4>2
        <5>2. x \in m..PadFrom(d)
          BY <3>1, <4>1, <4>2
        <5>3. m..PadFrom(d) \subseteq Blocks(d)
          BY <2>2, <3>1, <5>1 DEF Whole
        <5>4. QED
          BY <5>2, <5>3
      <4>3. CASE ~ (x <= PadFrom(d))
        BY <1>4, <2>2, <3>1, <4>1, <4>3
      <4>4. QED
        BY <4>2, <4>3
    <3>3. QED
      BY <1>5, <3>2
  <2>3. QED
    BY <2>1, <2>2
<1>10. Whole(r)
  BY <1>1, <1>6, <1>7, <1>8, <1>9 DEF Whole
<1>11. Max(DOMAIN r) = k
  <2>1. DOMAIN r \in SUBSET Nat /\ k \in DOMAIN r /\ \A j \in DOMAIN r : j <= k
    BY <1>1 DEF IsData
  <2>2. QED
    BY <2>1, MaxIs
<1>12. PadFrom(r) = last
  <2>0. /\ PadFrom(r) \in DOMAIN r[Max(DOMAIN r)].ticks /\ PadFrom(r) \in 1..B
        /\ \A j \in DOMAIN r : \A m \in DOMAIN r[j].ticks : m <= PadFrom(r)
    BY <1>1, <1>10, LastFacts
  <2>1. /\ PadFrom(r) \in DOMAIN r[k].ticks /\ PadFrom(r) \in Nat
        /\ \A m \in DOMAIN r[k].ticks : m <= PadFrom(r)
    BY <1>1, <1>11, <2>0
  <2>2. last <= PadFrom(r)
    BY <1>1, <1>4, <2>1
  <2>3. PadFrom(r) <= last
    BY <1>1, <1>2, <1>3, <1>4, <2>1
  <2>4. QED
    BY <1>4, <2>1, <2>2, <2>3
<1>13. QED
  BY <1>5, <1>10, <1>11, <1>12 DEF r, Extended

(* What decides whether bars are whole *)

SameTicks(d, r) == DOMAIN r = DOMAIN d /\ \A k \in DOMAIN d : r[k].ticks = d[k].ticks

LEMMA SameTicksFacts ==
  ASSUME NEW T, NEW B \in Nat, NEW d, IsData(d, T, B), Whole(d), NEW r, SameTicks(d, r)
  PROVE  Whole(r) /\ PadFrom(r) = PadFrom(d) /\ Blocks(r) = Blocks(d)
<1>1. DOMAIN r = DOMAIN d /\ \A k \in DOMAIN d : r[k].ticks = d[k].ticks
  BY DEF SameTicks
<1>2. Blocks(r) = Blocks(d)
  BY <1>1 DEF Blocks
<1>3. Whole(r)
  <2>1. \A k \in DOMAIN r : DOMAIN r[k].ticks # {} /\ \A m \in DOMAIN r[k].ticks : k <= BarOf(m)
    BY <1>1 DEF Whole
  <2>2. \A j, k \in DOMAIN r : j < k => \A m \in DOMAIN r[j].ticks, n \in DOMAIN r[k].ticks : m < n
    BY <1>1 DEF Whole
  <2>3. \A m, n \in Blocks(r) : m..n \subseteq Blocks(r)
    BY <1>2 DEF Whole
  <2>4. DOMAIN r # {}
    BY <1>1 DEF Whole
  <2>5. QED
    BY <2>1, <2>2, <2>3, <2>4 DEF Whole
<1>4. PadFrom(r) = PadFrom(d)
  <2>1. Max(DOMAIN d) \in DOMAIN d
    BY LastFacts
  <2>2. r[Max(DOMAIN r)].ticks = d[Max(DOMAIN d)].ticks
    BY <1>1, <2>1
  <2>3. QED
    BY <2>2 DEF PadFrom, EndOf
<1>5. QED
  BY <1>2, <1>3, <1>4

(* The indicators of a bar *)

LEMMA AppendEnds ==
  ASSUME NEW T, NEW s \in Seq(T), NEW e \in T
  PROVE  /\ Append(s, e) \in Seq(T) /\ Append(s, e) # <<>> /\ Last(Append(s, e)) = e
         /\ Front(Append(s, e)) = s /\ Len(Append(s, e)) = Len(s) + 1
<1>1. /\ Append(s, e) \in Seq(T) /\ Len(Append(s, e)) = Len(s) + 1 /\ Len(s) \in Nat
      /\ Append(s, e)[Len(s) + 1] = e /\ \A i \in 1..Len(s) : Append(s, e)[i] = s[i]
  BY AppendProperties
<1>2. Front(Append(s, e)) = SubSeq(Append(s, e), 1, Len(s))
  BY <1>1 DEF Front
<1>3. SubSeq(Append(s, e), 1, Len(s)) = s
  BY <1>1
<1>4. QED
  BY <1>1, <1>2, <1>3 DEF Last

(* Bars d and r have the same ticks and indicators up to bar k. *)
Agree(d, r, k) ==
  \A j \in Int : j <= k =>
    /\ j \in DOMAIN d <=> j \in DOMAIN r
    /\ j \in DOMAIN d => r[j].ticks = d[j].ticks /\ r[j].ind = d[j].ind

(* Freshness is about the bars up to the one it is about, *)
LEMMA AgreeFresh ==
  ASSUME NEW B \in Nat, NEW d, DOMAIN d \subseteq 0..B + 1, NEW r, DOMAIN r \subseteq 0..B + 1,
         NEW k \in DOMAIN d, Agree(d, r, k), FreshAt(d, k)
  PROVE  FreshAt(r, k)
<1>1. k \in Int /\ k - 1 \in Int /\ k <= k /\ k - 1 <= k /\ Period \in Int
  BY PeriodAssumption, RetentionAssumption
<1>2. k \in DOMAIN r /\ r[k].ticks = d[k].ticks /\ r[k].ind = d[k].ind
  BY <1>1 DEF Agree
<1>3. /\ k - 1 \in DOMAIN d <=> k - 1 \in DOMAIN r
      /\ k - 1 \in DOMAIN d => r[k - 1].ind = d[k - 1].ind
  BY <1>1 DEF Agree
<1>4. \A j \in k - Period + 1..k : j \in DOMAIN r => j \in DOMAIN d /\ Close(r[j]) = Close(d[j])
  <2>1. ASSUME NEW j \in k - Period + 1..k, j \in DOMAIN r PROVE j \in DOMAIN d /\ r[j].ticks = d[j].ticks
    BY <1>1, <2>1 DEF Agree
  <2>2. QED
    BY <2>1 DEF Close, EndOf
<1>5. (\E j \in DOMAIN r : j < k) => \E j \in DOMAIN d : j < k
  <2>1. ASSUME NEW j \in DOMAIN r, j < k PROVE j \in DOMAIN d
    <3>1. j \in Int /\ j <= k
      BY <1>1, <2>1
    <3>2. QED
      BY <2>1, <3>1 DEF Agree
  <2>2. QED
    BY <2>1
<1>6. Close(r[k]) = Close(d[k])
  BY <1>2 DEF Close, EndOf
<1>7. \A j \in k - Period + 1..k : j \in DOMAIN r => <<j, Close(r[j])>> \in r[k].ind.closes
  BY <1>2, <1>4 DEF FreshAt
<1>8. \A c \in r[k].ind.closes : k - Period < c[1] /\ c[1] <= k
  BY <1>2 DEF FreshAt
<1>9. /\ r[k].ind.ema # <<>> /\ Last(r[k].ind.ema) = Close(r[k])
      /\ k - 1 \in DOMAIN r => Front(r[k].ind.ema) = r[k - 1].ind.ema
      /\ k - 1 \notin DOMAIN r /\ (\E j \in DOMAIN r : j < k) => Len(r[k].ind.ema) = 1
  BY <1>2, <1>3, <1>5, <1>6 DEF FreshAt
<1>10. QED
  BY <1>7, <1>8, <1>9 DEF FreshAt

(* and bears the loss of the oldest bars. *)
LEMMA DropFresh ==
  ASSUME NEW B \in Nat, NEW d, DOMAIN d \subseteq 0..B + 1, NEW r, DOMAIN r \subseteq DOMAIN d,
         \A j \in DOMAIN r : r[j] = d[j],
         \A i \in DOMAIN r, j \in DOMAIN d : i <= j => j \in DOMAIN r,
         NEW k \in DOMAIN r, FreshAt(d, k)
  PROVE  FreshAt(r, k)
<1>1. r[k] = d[k] /\ k \in Int
  OBVIOUS
<1>2. (k - 1 \notin DOMAIN r /\ \E j \in DOMAIN r : j < k) => k - 1 \notin DOMAIN d /\ \E j \in DOMAIN d : j < k
  <2>1. ASSUME NEW j \in DOMAIN r, j < k, k - 1 \in DOMAIN d PROVE k - 1 \in DOMAIN r
    <3>1. j \in Int /\ j <= k - 1
      BY <1>1, <2>1
    <3>2. QED
      BY <2>1, <3>1
  <2>2. QED
    BY <2>1
<1>3. \A j \in k - Period + 1..k : j \in DOMAIN r => <<j, Close(r[j])>> \in r[k].ind.closes
  BY <1>1 DEF FreshAt
<1>4. /\ \A c \in r[k].ind.closes : k - Period < c[1] /\ c[1] <= k
      /\ r[k].ind.ema # <<>> /\ Last(r[k].ind.ema) = Close(r[k])
      /\ k - 1 \in DOMAIN r => Front(r[k].ind.ema) = r[k - 1].ind.ema
      /\ k - 1 \notin DOMAIN r /\ (\E j \in DOMAIN r : j < k) => Len(r[k].ind.ema) = 1
  BY <1>1, <1>2 DEF FreshAt
<1>5. QED
  BY <1>3, <1>4 DEF FreshAt

(* Indicators that are computed again are fresh, and nothing else changes. *)
Updated(d, k, r, T, B) ==
  /\ IsData(r, T, B) /\ SameTicks(d, r)
  /\ \A j \in DOMAIN d : j # k => r[j] = d[j]
  /\ r[k].final = d[k].final /\ FreshAt(r, k)

LEMMA UpdateFacts ==
  ASSUME NEW T, NEW B \in Nat, NEW d, IsData(d, T, B), \A j \in DOMAIN d : DOMAIN d[j].ticks # {},
         NEW k \in DOMAIN d, k - 1 \in DOMAIN d => d[k - 1].ind.ema # <<>>
  PROVE  Updated(d, k, UpdateIndicators(d, k), T, B)
<1> DEFINE ind == Compute(d, k)
           bar == d[k]
           new == [final |-> bar.final, ticks |-> bar.ticks, ind |-> ind]
           r   == UpdateIndicators(d, k)
           before == IF k - 1 \notin DOMAIN d THEN <<>>
                     ELSE IF d[k - 1].ind = NoIndicators THEN <<Close(d[k - 1])>>
                     ELSE d[k - 1].ind.ema
<1>1. ASSUME NEW j \in DOMAIN d PROVE Close(d[j]) \in T
  <2>1. IsTicks(d[j].ticks, T, B) /\ DOMAIN d[j].ticks # {}
    BY DEF IsData, IsBarOf
  <2>2. QED
    BY <2>1, EndFacts
<1>2. IsBarOf(bar, T, B) /\ k \in Int /\ Period \in Int /\ DOMAIN d \subseteq 0..B + 1
  BY PeriodAssumption, RetentionAssumption DEF IsData
<1>3. before \in Seq(T)
  <2>1. CASE k - 1 \notin DOMAIN d
    BY <2>1
  <2>2. CASE k - 1 \in DOMAIN d
    <3>1. Close(d[k - 1]) \in T /\ d[k - 1].ind.ema \in Seq(T)
      BY <1>1, <2>2 DEF IsData, IsBarOf, IsInd
    <3>2. QED
      BY <2>2, <3>1
  <2>3. QED
    BY <2>1, <2>2
<1>4. k - 1 \in DOMAIN d => before = d[k - 1].ind.ema
  <2>1. NoIndicators.ema = <<>>
    BY DEF NoIndicators
  <2>2. QED
    BY <2>1
<1>5. ind = [closes |-> {<<j, Close(d[j])>> : j \in WindowOf(d, k)}, ema |-> Append(before, Close(bar))]
  BY DEF Compute
<1>6. k - 1 \notin DOMAIN d => Len(before) = 0
  OBVIOUS
<1> HIDE DEF before, ind
<1>7. /\ Append(before, Close(bar)) \in Seq(T) /\ Append(before, Close(bar)) # <<>>
      /\ Last(Append(before, Close(bar))) = Close(bar) /\ Front(Append(before, Close(bar))) = before
      /\ Len(Append(before, Close(bar))) = Len(before) + 1
  BY <1>1, <1>3, AppendEnds
<1>8. r = [d EXCEPT ![k] = new]
  <2>1. r = [d EXCEPT ![k].ind = ind]
    BY DEF UpdateIndicators, ind
  <2>2. bar = [final |-> bar.final, ticks |-> bar.ticks, ind |-> bar.ind]
    BY <1>2 DEF IsBarOf
  <2>3. [bar EXCEPT !.ind = ind] = new
    BY <2>2
  <2>4. QED
    BY <2>1, <2>3
<1>9. new.final = bar.final /\ new.ticks = bar.ticks /\ new.ind = ind /\ new = [final |-> new.final, ticks |-> new.ticks, ind |-> new.ind]
  OBVIOUS
<1>10. IsInd(ind, T) /\ ind.ema = Append(before, Close(bar)) /\ ind.closes = {<<j, Close(d[j])>> : j \in WindowOf(d, k)}
  <2>1. ind.ema = Append(before, Close(bar)) /\ ind.closes = {<<j, Close(d[j])>> : j \in WindowOf(d, k)}
    BY <1>5
  <2>2. ind = [closes |-> ind.closes, ema |-> ind.ema]
    BY <1>5
  <2>3. QED
    BY <1>7, <2>1, <2>2 DEF IsInd
<1>11. IsBarOf(new, T, B)
  BY <1>2, <1>9, <1>10 DEF IsBarOf
<1> HIDE DEF r, new, bar
<1>12. DOMAIN r = DOMAIN d /\ r[k] = new /\ (\A j \in DOMAIN d : j # k => r[j] = d[j]) /\ r = [j \in DOMAIN r |-> r[j]]
  <2>1. d = [j \in DOMAIN d |-> d[j]]
    BY DEF IsData
  <2>2. QED
    BY <1>8, <2>1
<1>13. IsData(r, T, B)
  <2>1. ASSUME NEW j \in DOMAIN r PROVE IsBarOf(r[j], T, B)
    BY <1>11, <1>12 DEF IsData
  <2>2. QED
    BY <1>2, <1>12, <2>1 DEF IsData
<1>14. SameTicks(d, r)
  BY <1>9, <1>12 DEF SameTicks, bar
<1>15. \A j \in DOMAIN d : Close(r[j]) = Close(d[j])
  BY <1>14 DEF SameTicks, Close, EndOf
<1>16. FreshAt(r, k)
  <2>1. \A j \in k - Period + 1..k : j \in DOMAIN r => <<j, Close(r[j])>> \in r[k].ind.closes
    <3>1. ASSUME NEW j \in k - Period + 1..k, j \in DOMAIN r PROVE <<j, Close(d[j])>> \in ind.closes
      <4>1. k - Period < j /\ j <= k
        BY <1>2
      <4>2. j \in WindowOf(d, k)
        BY <1>12, <3>1, <4>1 DEF WindowOf
      <4>3. QED
        BY <1>10, <4>2
    <3>2. QED
      BY <1>9, <1>12, <1>15, <3>1
  <2>2. \A c \in r[k].ind.closes : k - Period < c[1] /\ c[1] <= k
    <3>1. ASSUME NEW c \in ind.closes PROVE k - Period < c[1] /\ c[1] <= k
      <4>1. PICK j \in WindowOf(d, k) : c = <<j, Close(d[j])>>
        BY <1>10
      <4>2. QED
        BY <4>1 DEF WindowOf
    <3>2. QED
      BY <1>9, <1>12, <3>1
  <2>3. r[k].ind.ema # <<>> /\ Last(r[k].ind.ema) = Close(r[k])
    BY <1>7, <1>9, <1>10, <1>12, <1>15 DEF bar
  <2>4. k - 1 \in DOMAIN r => Front(r[k].ind.ema) = r[k - 1].ind.ema
    <3>1. k - 1 # k
      BY <1>2
    <3>2. QED
      BY <1>4, <1>7, <1>9, <1>10, <1>12, <3>1
  <2>5. k - 1 \notin DOMAIN r => Len(r[k].ind.ema) = 1
    BY <1>6, <1>7, <1>9, <1>10, <1>12
  <2>6. QED
    BY <2>1, <2>2, <2>3, <2>4, <2>5 DEF FreshAt
<1>17. r[k].final = d[k].final
  BY <1>9, <1>12 DEF bar
<1>18. QED
  BY <1>12, <1>13, <1>14, <1>16, <1>17 DEF Updated, r

(* The retained bars are the last ones, at most as many as the retention:   *)
(* all that are less than the retention behind the last, and the last two.  *)
Kept(d, r, T, B) ==
  /\ IsData(r, T, B) /\ DOMAIN r \subseteq DOMAIN d /\ \A j \in DOMAIN r : r[j] = d[j]
  /\ \A i \in DOMAIN r, j \in DOMAIN d : i <= j => j \in DOMAIN r
  /\ \A k \in DOMAIN d : k > Max(DOMAIN d) - Retention => k \in DOMAIN r
  /\ \A k \in DOMAIN d : (\A j \in DOMAIN d : j > k => j = Max(DOMAIN d)) => k \in DOMAIN r
  /\ Cardinality(DOMAIN r) <= Retention
  /\ Whole(r) /\ PadFrom(r) = PadFrom(d)

LEMMA RetainedFacts ==
  ASSUME NEW T, NEW B \in Nat, NEW d, IsData(d, T, B), Whole(d)
  PROVE  Kept(d, Retained(d), T, B)
<1> DEFINE After(k) == {j \in DOMAIN d : j > k}
           r == Retained(d)
           top == Max(DOMAIN d)
<1>1. DOMAIN d \subseteq 0..B + 1 /\ IsFiniteSet(DOMAIN d) /\ Retention \in Nat /\ 2 <= Retention
  <2>1. DOMAIN d \subseteq 0..B + 1 /\ IsFiniteSet(0..B + 1)
    <3>1. B + 1 \in Int /\ 0 \in Int
      OBVIOUS
    <3>2. QED
      BY <3>1, FS_Interval DEF IsData
  <2>2. QED
    BY <2>1, FS_Subset, RetentionAssumption
<1>2. ASSUME NEW k \in DOMAIN d PROVE IsFiniteSet(After(k)) /\ Cardinality(After(k)) \in Nat
  <2>1. After(k) \in SUBSET DOMAIN d
    OBVIOUS
  <2>2. QED
    BY <1>1, <2>1, FS_Subset, FS_CardinalityType
<1>3. DOMAIN r = {k \in DOMAIN d : Cardinality(After(k)) < Retention} /\ (\A j \in DOMAIN r : r[j] = d[j]) /\ r = [j \in DOMAIN r |-> r[j]]
  BY DEF Retained, Restrict
<1>4. top \in DOMAIN d /\ (\A j \in DOMAIN d : j \in Nat /\ j <= top)
  BY LastFacts
<1> HIDE DEF r, top
<1>5. ASSUME NEW i \in DOMAIN r, NEW j \in DOMAIN d, i <= j PROVE j \in DOMAIN r
  <2>1. i \in DOMAIN d /\ Cardinality(After(i)) < Retention
    BY <1>3
  <2>2. After(j) \in SUBSET After(i)
    BY <1>4, <1>5, <2>1
  <2>3. Cardinality(After(j)) <= Cardinality(After(i))
    BY <1>2, <2>1, <2>2, FS_Subset
  <2>4. Cardinality(After(j)) < Retention
    BY <1>1, <1>2, <2>1, <2>3
  <2>5. QED
    BY <1>3, <2>4
<1>6. ASSUME NEW k \in DOMAIN d, k > top - Retention PROVE k \in DOMAIN r
  <2>1. k \in Nat /\ top \in Nat /\ k <= top
    BY <1>4
  <2>2. IsFiniteSet(k + 1..top) /\ Cardinality(k + 1..top) <= top - k
    <3>1. PICK low \in Int : low = k + 1
      BY <2>1
    <3>2. IsFiniteSet(low..top) /\ Cardinality(low..top) = IF low > top THEN 0 ELSE top - low + 1
      <4>1. low \in Int /\ top \in Int
        BY <2>1
      <4>2. QED
        BY <4>1, FS_Interval, Zenon
    <3>3. (IF low > top THEN 0 ELSE top - low + 1) <= top - k
      BY <2>1, <3>1
    <3>4. QED
      BY <3>1, <3>2, <3>3
  <2>3. After(k) \in SUBSET (k + 1..top)
    BY <1>4, <2>1
  <2>4. Cardinality(After(k)) <= Cardinality(k + 1..top)
    BY <2>2, <2>3, FS_Subset
  <2>5. Cardinality(After(k)) < Retention
    <3>1. PICK c \in Nat : c = Cardinality(After(k))
      BY <1>2
    <3>2. PICK i \in Nat : i = Cardinality(k + 1..top)
      BY <2>2, FS_CardinalityType
    <3>3. c <= i /\ i <= top - k /\ top - k < Retention
      BY <1>1, <1>6, <2>1, <2>2, <2>4, <3>1, <3>2
    <3>4. QED
      BY <1>1, <2>1, <3>1, <3>3
  <2>6. QED
    BY <1>3, <2>5
<1>7. top \in DOMAIN r
  BY <1>1, <1>4, <1>6
<1>14. ASSUME NEW k \in DOMAIN d, \A j \in DOMAIN d : j > k => j = top PROVE k \in DOMAIN r
  <2>1. After(k) \in SUBSET {top}
    BY <1>14
  <2>2. IsFiniteSet({top}) /\ Cardinality({top}) = 1
    BY FS_Singleton
  <2>3. Cardinality(After(k)) <= 1
    BY <2>1, <2>2, FS_Subset
  <2>4. QED
    <3>1. Cardinality(After(k)) < Retention
      <4> DEFINE c == Cardinality(After(k))
      <4>1. c \in Nat /\ c <= 1
        BY <1>2, <2>2, <2>3
      <4> HIDE DEF c
      <4>2. c < Retention
        BY <1>1, <4>1
      <4>3. QED
        BY <4>2 DEF c
    <3>2. QED
      BY <1>3, <3>1
<1>8. Cardinality(DOMAIN r) <= Retention
  <2>1. DOMAIN r \in SUBSET Nat /\ DOMAIN r # {}
    BY <1>3, <1>4, <1>7
  <2>2. PICK k \in DOMAIN r : \A j \in DOMAIN r : k <= j
    BY <2>1, MinFacts
  <2>3. k \in DOMAIN d /\ Cardinality(After(k)) < Retention
    BY <1>3
  <2>4. DOMAIN r \in SUBSET (After(k) \cup {k})
    <3>1. ASSUME NEW j \in DOMAIN r, j # k PROVE j \in After(k)
      <4>1. j \in DOMAIN d /\ j \in Nat /\ k \in Nat /\ k <= j
        BY <1>3, <2>1, <2>2
      <4>2. QED
        BY <3>1, <4>1
    <3>2. QED
      BY <3>1
  <2>5. IsFiniteSet(After(k) \cup {k}) /\ Cardinality(After(k) \cup {k}) = Cardinality(After(k)) + 1
    <3>1. k \notin After(k)
      BY <2>1
    <3>2. IsFiniteSet(After(k))
      BY <1>2, <2>3
    <3> HIDE DEF After
    <3>3. QED
      BY <3>1, <3>2, FS_AddElement
  <2>6. Cardinality(DOMAIN r) <= Cardinality(After(k)) + 1 /\ Cardinality(DOMAIN r) \in Nat
    BY <2>4, <2>5, FS_Subset, FS_CardinalityType
  <2>7. QED
    BY <1>1, <1>2, <2>3, <2>6
<1>9. IsData(r, T, B)
  BY <1>3 DEF IsData
<1>10. Max(DOMAIN r) = top
  <2>1. DOMAIN r \in SUBSET Nat /\ \A j \in DOMAIN r : j <= top
    BY <1>3, <1>4
  <2>2. QED
    BY <1>7, <2>1, MaxIs
<1>11. PadFrom(r) = PadFrom(d)
  BY <1>3, <1>7, <1>10 DEF PadFrom, top
<1>12. Whole(r)
  <2>1. DOMAIN r # {} /\ \A k \in DOMAIN r : DOMAIN r[k].ticks # {} /\ \A m \in DOMAIN r[k].ticks : k <= BarOf(m)
    BY <1>3, <1>7 DEF Whole
  <2>2. \A j, k \in DOMAIN r : j < k => \A m \in DOMAIN r[j].ticks, n \in DOMAIN r[k].ticks : m < n
    BY <1>3 DEF Whole
  <2>3. ASSUME NEW m \in Blocks(r), NEW n \in Blocks(r), NEW x \in m..n PROVE x \in Blocks(r)
    <3>1. PICK i \in DOMAIN r : m \in DOMAIN r[i].ticks
      BY DEF Blocks
    <3>2. m \in DOMAIN d[i].ticks /\ i \in DOMAIN d /\ Blocks(r) \subseteq Blocks(d)
      <4>1. m \in DOMAIN d[i].ticks /\ i \in DOMAIN d
        BY <1>3, <3>1
      <4>2. Blocks(r) \subseteq Blocks(d)
        <5>1. ASSUME NEW y, NEW j \in DOMAIN r, y \in DOMAIN r[j].ticks PROVE y \in Blocks(d)
          BY <1>3, <5>1 DEF Blocks
        <5>2. QED
          BY <5>1 DEF Blocks
      <4>3. QED
        BY <4>1, <4>2
    <3>3. x \in Blocks(d)
      BY <3>2 DEF Whole
    <3>4. PICK j \in DOMAIN d : x \in DOMAIN d[j].ticks
      BY <3>3 DEF Blocks
    <3>5. m \in Nat /\ x \in Nat /\ m <= x
      BY <3>2, <3>4 DEF IsData, IsBarOf, IsTicks
    <3>6. i \in Nat /\ j \in Nat
      BY <1>4, <3>2
    <3>7. ~ (j < i)
      <4>1. j < i => x < m
        BY <3>2, <3>4 DEF Whole
      <4>2. QED
        BY <3>5, <4>1
    <3>8. j \in DOMAIN r
      BY <1>5, <3>6, <3>7
    <3>9. QED
      BY <1>3, <3>4, <3>8 DEF Blocks
  <2>4. QED
    BY <2>1, <2>2, <2>3 DEF Whole
<1>13. QED
  BY <1>3, <1>5, <1>6, <1>8, <1>9, <1>11, <1>12, <1>14 DEF Kept, r, top

(* Finalized bars *)

IsBars(b, T, B) ==
  /\ b = [data |-> b.data, lastFinalized |-> b.lastFinalized]
  /\ b.lastFinalized \in NoBar..B + 1 /\ IsData(b.data, T, B)

(* The final bars are those up to the last finalized timestamp. *)
FinalUpTo(b) == \A k \in DOMAIN b.data : b.data[k].final <=> k <= b.lastFinalized

FinalizedTo(b, fin, r, T, B) ==
  /\ IsBars(r, T, B) /\ FinalUpTo(r) /\ SameTicks(b.data, r.data)
  /\ \A k \in DOMAIN b.data : r.data[k].ind = b.data[k].ind /\ (b.data[k].final => r.data[k] = b.data[k])
  /\ r.lastFinalized = IF fin <= b.lastFinalized THEN b.lastFinalized ELSE fin

LEMMA FinalizedFacts ==
  ASSUME NEW T, NEW B \in Nat, NEW b, IsBars(b, T, B), FinalUpTo(b), NEW fin \in NoBar..B + 1
  PROVE  /\ FinalizedTo(b, fin, Finalized(b, fin), T, B) /\ CanFinalize(b, fin)
<1>1. b.lastFinalized \in Int /\ fin \in Int /\ NoBar \in Int /\ DOMAIN b.data \subseteq 0..B + 1
  BY DEF IsBars, NoBar, IsData
<1>2. CanFinalize(b, fin)
  <2>1. ASSUME NEW k \in ToFinalize(b, fin) PROVE ~ b.data[k].final
    <3>1. k \in DOMAIN b.data /\ b.lastFinalized + 1 <= k /\ k \in Int
      BY <1>1 DEF ToFinalize
    <3>2. QED
      BY <1>1, <3>1 DEF FinalUpTo
  <2>2. QED
    BY <2>1 DEF CanFinalize
<1>3. CASE fin <= b.lastFinalized
  <2>1. Finalized(b, fin) = b
    BY <1>3 DEF Finalized
  <2>2. QED
    BY <1>2, <1>3, <2>1 DEF FinalizedTo, SameTicks
<1>4. CASE ~ (fin <= b.lastFinalized)
  <2> DEFINE r == Finalized(b, fin)
             d == b.data
             done(k) == [final |-> TRUE, ticks |-> d[k].ticks, ind |-> d[k].ind]
             F == ToFinalize(b, fin)
             e == [k \in DOMAIN d |-> IF k \in F THEN done(k) ELSE d[k]]
  <2>1. ASSUME NEW k \in DOMAIN d
        PROVE  IsBarOf(d[k], T, B) /\ IsBarOf(done(k), T, B) /\ [d[k] EXCEPT !.final = TRUE] = done(k)
    <3>1. IsBarOf(d[k], T, B)
      BY DEF IsBars, IsData
    <3> DEFINE f == d[k].final
               t == d[k].ticks
               i == d[k].ind
    <3>2. d[k] = [final |-> f, ticks |-> t, ind |-> i]
      BY <3>1 DEF IsBarOf
    <3>3. [d[k] EXCEPT !.final = TRUE] = [final |-> TRUE, ticks |-> t, ind |-> i]
      <4> HIDE DEF d, f, t, i
      <4>1. \A g : [d[k] EXCEPT !.final = g] = [final |-> g, ticks |-> t, ind |-> i]
        BY <3>2
      <4>2. QED
        BY <4>1, Zenon
    <3>4. QED
      BY <3>1, <3>3 DEF IsBarOf
  <2>2. r.data = e /\ r.lastFinalized = fin /\ r = [data |-> r.data, lastFinalized |-> r.lastFinalized]
    BY <1>4, <2>1 DEF Finalized
  <2>3. ASSUME NEW k \in DOMAIN d
        PROVE  /\ IsBarOf(e[k], T, B) /\ e[k].ticks = d[k].ticks /\ e[k].ind = d[k].ind
               /\ e[k].final <=> k <= fin
               /\ d[k].final => e[k] = d[k]
    <3>1. k \in Int /\ (d[k].final <=> k <= b.lastFinalized) /\ (k \in F <=> b.lastFinalized + 1 <= k /\ k <= fin)
      BY <1>1 DEF FinalUpTo, ToFinalize
    <3> HIDE DEF d, F
    <3>2. CASE k \in F
      <4>1. e[k] = done(k) /\ k <= fin /\ ~ d[k].final
        BY <1>1, <3>1, <3>2
      <4>2. QED
        BY <2>1, <4>1
    <3>3. CASE k \notin F
      <4>1. e[k] = d[k] /\ (k <= b.lastFinalized <=> k <= fin)
        BY <1>1, <1>4, <3>1, <3>3
      <4>2. QED
        BY <2>1, <3>1, <4>1
    <3>4. QED
      BY <3>2, <3>3
  <2>4. DOMAIN e = DOMAIN d /\ e = [k \in DOMAIN e |-> e[k]] /\ DOMAIN d \subseteq 0..B + 1
    BY <1>1
  <2> HIDE DEF e, r
  <2>5. IsData(e, T, B)
    BY <2>3, <2>4 DEF IsData
  <2>6. IsBars(r, T, B)
    BY <2>2, <2>5 DEF IsBars
  <2>7. SameTicks(d, r.data) /\ FinalUpTo(r)
    BY <2>2, <2>3, <2>4 DEF SameTicks, FinalUpTo
  <2>8. QED
    BY <1>2, <1>4, <2>2, <2>3, <2>6, <2>7 DEF FinalizedTo, r
<1>5. QED
  BY <1>3, <1>4

LEMMA LastBlock ==
  ASSUME NEW T, NEW B \in Nat, NEW d, IsData(d, T, B), Whole(d)
  PROVE  PadFrom(d) \in Blocks(d) /\ \A m \in Blocks(d) : m \in 1..B /\ m <= PadFrom(d)
<1>1. /\ Max(DOMAIN d) \in DOMAIN d /\ PadFrom(d) \in DOMAIN d[Max(DOMAIN d)].ticks
      /\ \A j \in DOMAIN d : \A x \in DOMAIN d[j].ticks : x \in 1..B /\ x <= PadFrom(d)
  BY LastFacts
<1>2. QED
  BY <1>1 DEF Blocks

(* What a reorganisation at block n leaves of the bars *)

CutBar(bar, n) == [final |-> bar.final,
                   ticks |-> Restrict(bar.ticks, {m \in DOMAIN bar.ticks : m < n}),
                   ind   |-> NoIndicators]

CutTo(d, n) == [k \in {j \in DOMAIN d : StartOf(d[j]) < n} |->
                  IF EndOf(d[k]) >= n THEN CutBar(d[k], n) ELSE d[k]]

WasCut(d, n, e, T, B) ==
  /\ IsData(e, T, B) /\ DOMAIN e = {k \in DOMAIN d : StartOf(d[k]) < n}
  /\ \A k \in DOMAIN e :
       /\ DOMAIN e[k].ticks = {m \in DOMAIN d[k].ticks : m < n} /\ DOMAIN e[k].ticks # {}
       /\ \A m \in DOMAIN e[k].ticks : e[k].ticks[m] = d[k].ticks[m]
       /\ e[k].final = d[k].final
       /\ EndOf(d[k]) < n => e[k] = d[k]
  /\ DOMAIN e # {} => Whole(e) /\ PadFrom(e) = IF PadFrom(d) < n THEN PadFrom(d) ELSE n - 1

LEMMA CutFacts ==
  ASSUME NEW T, NEW B \in Nat, NEW d, IsData(d, T, B), Whole(d), NEW n \in 1..B
  PROVE  WasCut(d, n, CutTo(d, n), T, B)
<1> DEFINE S == {k \in DOMAIN d : StartOf(d[k]) < n}
           e == CutTo(d, n)
<1>1. ASSUME NEW k \in DOMAIN d
      PROVE  /\ IsBarOf(d[k], T, B) /\ \A m \in DOMAIN d[k].ticks : m \in 1..B /\ m <= EndOf(d[k])
             /\ StartOf(d[k]) \in DOMAIN d[k].ticks /\ EndOf(d[k]) \in DOMAIN d[k].ticks
  <2>1. IsBarOf(d[k], T, B) /\ IsTicks(d[k].ticks, T, B) /\ DOMAIN d[k].ticks # {}
    BY DEF IsData, IsBarOf, Whole
  <2>2. /\ StartOf(d[k]) \in DOMAIN d[k].ticks /\ EndOf(d[k]) \in DOMAIN d[k].ticks
        /\ \A m \in DOMAIN d[k].ticks : m <= EndOf(d[k])
    BY <2>1, EndFacts
  <2>3. QED
    BY <2>1, <2>2 DEF IsTicks
<1>2. ASSUME NEW k \in DOMAIN d
      PROVE  /\ IsBarOf(CutBar(d[k], n), T, B) /\ CutBar(d[k], n).final = d[k].final
             /\ DOMAIN CutBar(d[k], n).ticks = {m \in DOMAIN d[k].ticks : m < n}
             /\ \A m \in DOMAIN CutBar(d[k], n).ticks : CutBar(d[k], n).ticks[m] = d[k].ticks[m]
  <2> DEFINE t == d[k].ticks
             c == Restrict(t, {m \in DOMAIN t : m < n})
  <2>1. IsTicks(t, T, B) /\ d[k].final \in BOOLEAN
    BY <1>1 DEF IsBarOf
  <2>2. IsTicks(c, T, B) /\ DOMAIN c = {m \in DOMAIN t : m < n} /\ \A m \in DOMAIN c : c[m] = t[m]
    <3> HIDE DEF t
    <3>1. QED
      BY <2>1 DEF IsTicks, Restrict
  <2>3. IsInd(NoIndicators, T)
    <3>1. NoIndicators.closes = {} /\ NoIndicators.ema = <<>>
      BY DEF NoIndicators
    <3>2. QED
      BY <3>1 DEF IsInd, NoIndicators
  <2>4. CutBar(d[k], n) = [final |-> d[k].final, ticks |-> c, ind |-> NoIndicators]
    BY DEF CutBar
  <2> HIDE DEF c
  <2>5. QED
    BY <2>1, <2>2, <2>3, <2>4 DEF IsBarOf
<1>3. DOMAIN e = S /\ e = [k \in DOMAIN e |-> e[k]] /\ \A k \in S : e[k] = IF EndOf(d[k]) >= n THEN CutBar(d[k], n) ELSE d[k]
  BY DEF CutTo
<1>4. S \subseteq DOMAIN d /\ DOMAIN d \subseteq 0..B + 1 /\ \A k \in S : StartOf(d[k]) < n
  BY DEF IsData
<1> HIDE DEF e, S
<1>5. ASSUME NEW k \in S
      PROVE  /\ IsBarOf(e[k], T, B) /\ e[k].final = d[k].final
             /\ DOMAIN e[k].ticks = {m \in DOMAIN d[k].ticks : m < n} /\ DOMAIN e[k].ticks # {}
             /\ \A m \in DOMAIN e[k].ticks : e[k].ticks[m] = d[k].ticks[m]
             /\ EndOf(d[k]) < n => e[k] = d[k]
  <2>1. EndOf(d[k]) \in Nat /\ n \in Nat /\ k \in DOMAIN d
    BY <1>1, <1>4
  <2>2. CASE EndOf(d[k]) >= n
    <3>1. e[k] = CutBar(d[k], n) /\ ~ (EndOf(d[k]) < n)
      BY <1>3, <2>1, <2>2
    <3>2. StartOf(d[k]) \in {m \in DOMAIN d[k].ticks : m < n}
      BY <1>1, <1>4, <2>1
    <3>3. QED
      BY <1>2, <2>1, <3>1, <3>2
  <2>3. CASE ~ (EndOf(d[k]) >= n)
    <3>1. e[k] = d[k]
      BY <1>3, <2>3
    <3>2. \A m \in DOMAIN d[k].ticks : m < n
      BY <1>1, <2>1, <2>3
    <3>3. DOMAIN d[k].ticks # {}
      BY <1>1, <2>1
    <3>4. QED
      BY <1>1, <2>1, <3>1, <3>2, <3>3
  <2>4. QED
    BY <2>2, <2>3
<1>6. IsData(e, T, B)
  BY <1>3, <1>4, <1>5 DEF IsData
<1>7. ASSUME NEW m PROVE m \in Blocks(e) <=> m \in Blocks(d) /\ m < n
  <2>1. ASSUME m \in Blocks(e) PROVE m \in Blocks(d) /\ m < n
    <3>1. PICK k \in S : m \in DOMAIN e[k].ticks
      BY <1>3, <2>1 DEF Blocks
    <3>2. k \in DOMAIN d /\ m \in DOMAIN d[k].ticks /\ m < n
      BY <1>4, <1>5, <3>1
    <3>3. QED
      BY <3>2 DEF Blocks
  <2>2. ASSUME m \in Blocks(d), m < n PROVE m \in Blocks(e)
    <3>1. PICK k \in DOMAIN d : m \in DOMAIN d[k].ticks
      BY <2>2 DEF Blocks
    <3>2. StartOf(d[k]) <= m /\ StartOf(d[k]) \in Nat /\ m \in Nat
      <4>1. IsTicks(d[k].ticks, T, B) /\ DOMAIN d[k].ticks # {}
        BY <1>1 DEF IsBarOf
      <4>2. StartOf(d[k]) <= m
        BY <3>1, <4>1, EndFacts
      <4>3. QED
        BY <1>1, <3>1, <4>2
    <3>3. k \in S
      BY <2>2, <3>2 DEF S
    <3>4. m \in DOMAIN e[k].ticks
      BY <1>5, <2>2, <3>1, <3>3
    <3>5. QED
      BY <1>3, <3>3, <3>4 DEF Blocks
  <2>3. QED
    BY <2>1, <2>2
<1>8. PadFrom(d) \in Blocks(d) /\ \A m \in Blocks(d) : m \in Nat /\ m <= PadFrom(d)
  BY LastBlock
<1>9. ASSUME DOMAIN e # {} PROVE Whole(e)
  <2>1. \A k \in DOMAIN e : DOMAIN e[k].ticks # {} /\ \A m \in DOMAIN e[k].ticks : k <= BarOf(m)
    BY <1>3, <1>4, <1>5 DEF Whole
  <2>2. \A j, k \in DOMAIN e : j < k => \A x \in DOMAIN e[j].ticks, y \in DOMAIN e[k].ticks : x < y
    BY <1>3, <1>4, <1>5 DEF Whole
  <2>3. ASSUME NEW x \in Blocks(e), NEW y \in Blocks(e), NEW z \in x..y PROVE z \in Blocks(e)
    <3>1. x \in Blocks(d) /\ y \in Blocks(d) /\ y < n
      BY <1>7
    <3>2. z \in Blocks(d)
      BY <3>1 DEF Whole
    <3>3. z < n
      BY <1>8, <3>1, <3>2
    <3>4. QED
      BY <1>7, <3>2, <3>3
  <2>4. QED
    BY <1>9, <2>1, <2>2, <2>3 DEF Whole
<1>10. ASSUME DOMAIN e # {} PROVE PadFrom(e) = IF PadFrom(d) < n THEN PadFrom(d) ELSE n - 1
  <2>1. PadFrom(e) \in Blocks(e) /\ \A m \in Blocks(e) : m \in Nat /\ m <= PadFrom(e)
    BY <1>6, <1>9, <1>10, LastBlock
  <2>2. PadFrom(e) \in Blocks(d) /\ PadFrom(e) < n /\ PadFrom(e) \in Nat /\ PadFrom(d) \in Nat /\ PadFrom(e) <= PadFrom(d)
    BY <1>7, <1>8, <2>1
  <2>3. CASE PadFrom(d) < n
    <3>1. PadFrom(d) <= PadFrom(e)
      BY <1>7, <1>8, <2>1, <2>3
    <3>2. QED
      BY <2>2, <2>3, <3>1
  <2>4. CASE ~ (PadFrom(d) < n)
    <3>1. n - 1 \in PadFrom(e)..PadFrom(d) /\ n - 1 < n
      BY <2>2, <2>4
    <3>2. n - 1 \in Blocks(d)
      BY <1>8, <2>2, <3>1 DEF Whole
    <3>3. n - 1 <= PadFrom(e)
      BY <1>7, <2>1, <3>1, <3>2
    <3>4. QED
      BY <2>2, <2>4, <3>3
  <2>5. QED
    BY <2>3, <2>4
<1>11. QED
  BY <1>3, <1>5, <1>6, <1>9, <1>10 DEF WasCut, e, S

Pruned(d, n, r, T, B) ==
  /\ IsData(r, T, B) /\ DOMAIN r \subseteq DOMAIN d
  /\ \A k \in DOMAIN r :
       /\ r[k].final = d[k].final /\ FreshAt(r, k)
       /\ \A m \in DOMAIN r[k].ticks : m < n /\ m \in DOMAIN d[k].ticks /\ r[k].ticks[m] = d[k].ticks[m]
  /\ \A k \in DOMAIN d : EndOf(d[k]) < n => k \in DOMAIN r /\ r[k] = d[k]
  /\ DOMAIN r # {} => Whole(r) /\ PadFrom(r) = IF PadFrom(d) < n THEN PadFrom(d) ELSE n - 1

CutOff(f, c, n) == [f EXCEPT ![c].ticks = Restrict(@, {m \in DOMAIN @ : m < n}), ![c].ind = NoIndicators]

LEMMA CutBarIs ==
  ASSUME NEW f, NEW c, NEW n, f[c] = [final |-> f[c].final, ticks |-> f[c].ticks, ind |-> f[c].ind],
         f = [k \in DOMAIN f |-> f[k]], c \in DOMAIN f
  PROVE  CutOff(f, c, n) = [k \in DOMAIN f |-> IF k = c THEN CutBar(f[c], n) ELSE f[k]]
<1> DEFINE a == f[c].final
           t == f[c].ticks
           i == f[c].ind
           u == Restrict(t, {m \in DOMAIN t : m < n})
           g == [f EXCEPT ![c].ticks = u]
<1>1. CutOff(f, c, n) = [g EXCEPT ![c].ind = NoIndicators]
  BY DEF CutOff
<1>2. CutBar(f[c], n) = [final |-> a, ticks |-> u, ind |-> NoIndicators]
  BY DEF CutBar
<1>3. f[c] = [final |-> a, ticks |-> t, ind |-> i]
  OBVIOUS
<1> HIDE DEF u, a, i, t
<1>4. g = [k \in DOMAIN f |-> IF k = c THEN [final |-> a, ticks |-> u, ind |-> i] ELSE f[k]]
  <2>1. [f[c] EXCEPT !.ticks = u] = [final |-> a, ticks |-> u, ind |-> i]
    BY <1>3
  <2>2. g = [f EXCEPT ![c] = [f[c] EXCEPT !.ticks = u]]
    OBVIOUS
  <2>3. QED
    BY <2>1, <2>2
<1> HIDE DEF g
<1>5. [g EXCEPT ![c].ind = NoIndicators] = [k \in DOMAIN f |-> IF k = c THEN [final |-> a, ticks |-> u, ind |-> NoIndicators] ELSE f[k]]
  <2>1. g[c] = [final |-> a, ticks |-> u, ind |-> i]
    BY <1>4
  <2>2. [g[c] EXCEPT !.ind = NoIndicators] = [final |-> a, ticks |-> u, ind |-> NoIndicators]
    BY <2>1
  <2>3. [g EXCEPT ![c].ind = NoIndicators] = [g EXCEPT ![c] = [g[c] EXCEPT !.ind = NoIndicators]]
    OBVIOUS
  <2>4. QED
    BY <1>4, <2>2, <2>3
<1>6. QED
  BY <1>1, <1>2, <1>5

LEMMA PruneFacts ==
  ASSUME NEW T, NEW B \in Nat, NEW b, IsBars(b, T, B), Whole(b.data),
         \A k \in DOMAIN b.data : FreshAt(b.data, k), NEW n \in 1..B
  PROVE  /\ Pruned(b.data, n, PruneToReorged(b, n).data, T, B)
         /\ PruneToReorged(b, n) = [data |-> PruneToReorged(b, n).data, lastFinalized |-> b.lastFinalized]
<1> DEFINE d == b.data
           S == {k \in DOMAIN d : StartOf(d[k]) < n}
           kept == Restrict(d, S)
           cut  == {k \in DOMAIN kept : EndOf(kept[k]) >= n}
           e == CutTo(d, n)
           r == PruneToReorged(b, n).data
<1>1. IsData(d, T, B) /\ Whole(d) /\ \A k \in DOMAIN d : FreshAt(d, k)
  BY DEF IsBars
<1>2. /\ r = IF cut = {} THEN kept ELSE CutAt(kept, Max(cut), n)
      /\ PruneToReorged(b, n) = [data |-> r, lastFinalized |-> b.lastFinalized]
  <2> DEFINE s == IF cut = {} THEN kept ELSE CutAt(kept, Max(cut), n)
             l == b.lastFinalized
  <2>1. PruneToReorged(b, n) = [b EXCEPT !.data = s]
    BY DEF PruneToReorged
  <2>2. b = [data |-> d, lastFinalized |-> l]
    BY DEF IsBars
  <2> HIDE DEF s, l, d
  <2>3. [b EXCEPT !.data = s] = [data |-> s, lastFinalized |-> l]
    BY <2>2
  <2>4. QED
    BY <2>1, <2>3 DEF s, l
<1> HIDE DEF d, r
<1>3. WasCut(d, n, e, T, B)
  BY <1>1, CutFacts
<1>4. e = [k \in S |-> IF EndOf(d[k]) >= n THEN CutBar(d[k], n) ELSE d[k]]
  BY DEF CutTo
<1>5. DOMAIN kept = S /\ kept = [k \in S |-> d[k]] /\ S \subseteq DOMAIN d /\ \A k \in S : kept[k] = d[k]
  BY DEF Restrict
<1>6. cut = {k \in S : EndOf(d[k]) >= n}
  BY <1>5
<1>7. \A k \in DOMAIN d : /\ k \in Nat /\ IsBarOf(d[k], T, B) /\ StartOf(d[k]) \in Nat /\ EndOf(d[k]) \in Nat
                         /\ StartOf(d[k]) \in DOMAIN d[k].ticks /\ EndOf(d[k]) \in DOMAIN d[k].ticks
  <2>1. ASSUME NEW k \in DOMAIN d
        PROVE  /\ k \in Nat /\ IsBarOf(d[k], T, B) /\ StartOf(d[k]) \in Nat /\ EndOf(d[k]) \in Nat
               /\ StartOf(d[k]) \in DOMAIN d[k].ticks /\ EndOf(d[k]) \in DOMAIN d[k].ticks
    <3>1. k \in Nat /\ IsBarOf(d[k], T, B) /\ IsTicks(d[k].ticks, T, B) /\ DOMAIN d[k].ticks # {}
      BY <1>1 DEF IsData, IsBarOf, Whole
    <3>2. StartOf(d[k]) \in DOMAIN d[k].ticks /\ EndOf(d[k]) \in DOMAIN d[k].ticks
      BY <3>1, EndFacts
    <3>3. QED
      BY <3>1, <3>2 DEF IsTicks
  <2>2. QED
    BY <2>1
<1>8. DOMAIN e = S /\ IsData(e, T, B)
  BY <1>3 DEF WasCut
<1>9. \A j, k \in S : j < k => j \notin cut
  <2>1. ASSUME NEW j \in S, NEW k \in S, j < k PROVE EndOf(d[j]) < n
    <3>1. EndOf(d[j]) < StartOf(d[k])
      BY <1>1, <1>5, <1>7, <2>1 DEF Whole
    <3>2. QED
      BY <1>5, <1>7, <3>1
  <2>2. QED
    BY <1>5, <1>6, <1>7, <2>1
<1>10. \A j \in DOMAIN d, k \in S : j <= k => j \in S
  <2>1. ASSUME NEW j \in DOMAIN d, NEW k \in S, j <= k PROVE StartOf(d[j]) < n
    <3>1. CASE j = k
      BY <3>1
    <3>2. CASE j # k
      <4>1. j < k
        BY <1>5, <1>7, <2>1, <3>2
      <4>2. StartOf(d[j]) < StartOf(d[k])
        BY <1>1, <1>5, <1>7, <4>1 DEF Whole
      <4>3. QED
        BY <1>5, <1>7, <4>2
    <3>3. QED
      BY <3>1, <3>2
  <2>2. QED
    BY <2>1
<1>11. \A k \in DOMAIN d : EndOf(d[k]) < n => k \in S
  <2>1. ASSUME NEW k \in DOMAIN d, EndOf(d[k]) < n PROVE StartOf(d[k]) < n
    <3>1. StartOf(d[k]) <= EndOf(d[k])
      <4>1. IsTicks(d[k].ticks, T, B) /\ DOMAIN d[k].ticks # {}
        BY <1>7 DEF IsBarOf
      <4>2. QED
        BY <1>7, <4>1, EndFacts
    <3>2. QED
      BY <1>7, <2>1, <3>1
  <2>2. QED
    BY <2>1
<1> HIDE DEF S, kept, cut, e
<1>12. ASSUME NEW f, DOMAIN f = S, NEW k \in S, \A j \in S : j <= k => f[j] = d[j]
       PROVE  FreshAt(f, k)
  <2>1. DOMAIN d \subseteq 0..B + 1 /\ DOMAIN f \subseteq 0..B + 1
    BY <1>1, <1>5, <1>12 DEF IsData
  <2>2. Agree(d, f, k)
    BY <1>5, <1>10, <1>12 DEF Agree
  <2>3. k \in DOMAIN d /\ FreshAt(d, k)
    BY <1>1, <1>5
  <2>4. QED
    BY <2>1, <2>2, <2>3, AgreeFresh
<1>13. CASE cut = {}
  <2>1. r = e
    <3>1. \A k \in S : ~ (EndOf(d[k]) >= n)
      BY <1>6, <1>13
    <3>2. QED
      BY <1>2, <1>4, <1>5, <1>13, <3>1
  <2>2. \A k \in S : r[k] = d[k]
    BY <1>2, <1>5, <1>13
  <2>3. \A k \in S : FreshAt(r, k)
    BY <1>8, <1>12, <2>1, <2>2
  <2>4. QED
    BY <1>2, <1>3, <1>5, <1>8, <1>11, <2>1, <2>3 DEF Pruned, WasCut, d, r
<1>14. CASE cut # {}
  <2> DEFINE c == Max(cut)
  <2>1. c \in cut /\ c \in S
    <3>1. cut \in SUBSET (0..B + 1) /\ B + 1 \in Nat
      BY <1>1, <1>5, <1>6 DEF IsData
    <3>2. QED
      BY <1>6, <1>14, <3>1, MaxFacts
  <2> HIDE DEF c
  <2>2. \A j \in S : j \in Nat /\ j <= c /\ (j # c => j \notin cut)
    BY <1>5, <1>7, <1>9, <2>1
  <2>3. e = [k \in S |-> IF k = c THEN CutBar(kept[c], n) ELSE kept[k]]
    <3>1. ASSUME NEW k \in S PROVE EndOf(d[k]) >= n <=> k = c
      BY <1>6, <2>1, <2>2
    <3>2. QED
      BY <1>4, <1>5, <2>1, <3>1
  <2>4. r = UpdateIndicators(e, c)
    <3>1. kept[c] = [final |-> kept[c].final, ticks |-> kept[c].ticks, ind |-> kept[c].ind]
      BY <1>5, <1>7, <2>1 DEF IsBarOf
    <3>2. kept = [k \in DOMAIN kept |-> kept[k]] /\ c \in DOMAIN kept
      BY <1>5, <2>1
    <3>3. CutOff(kept, c, n) = e
      <4>1. CutOff(kept, c, n) = [k \in DOMAIN kept |-> IF k = c THEN CutBar(kept[c], n) ELSE kept[k]]
        BY ONLY <3>1, <3>2, CutBarIs
      <4>2. DOMAIN kept = S
        BY <1>5
      <4>3. QED
        BY <2>3, <4>1, <4>2
    <3>4. r = CutAt(kept, c, n)
      BY <1>2, <1>14 DEF c
    <3>5. QED
      BY <3>3, <3>4 DEF CutAt, CutOff
  <2>5. \A j \in S : j # c => e[j] = d[j]
    BY <1>5, <2>3
  <2>6. \A j \in DOMAIN e : DOMAIN e[j].ticks # {}
    BY <1>3 DEF WasCut
  <2>7. c - 1 \in DOMAIN e => e[c - 1].ind.ema # <<>>
    <3>1. c - 1 # c
      BY <2>1, <2>2
    <3>2. c - 1 \in S => d[c - 1].ind.ema # <<>>
      BY <1>1, <1>5 DEF FreshAt
    <3>3. QED
      BY <1>8, <2>5, <3>1, <3>2
  <2>8. Updated(e, c, r, T, B)
    BY <1>8, <2>1, <2>4, <2>6, <2>7, UpdateFacts
  <2>9. /\ IsData(r, T, B) /\ SameTicks(e, r) /\ DOMAIN r = S /\ r[c].final = e[c].final /\ FreshAt(r, c)
        /\ \A j \in S : j # c => r[j] = d[j]
    BY <1>8, <2>5, <2>8 DEF Updated, SameTicks
  <2>10. \A k \in S : FreshAt(r, k)
    <3>1. ASSUME NEW k \in S, k # c PROVE FreshAt(r, k)
      <4>1. \A j \in S : j <= k => j # c
        BY <2>1, <2>2, <3>1
      <4>2. QED
        BY <1>12, <2>9, <4>1
    <3>2. QED
      BY <2>9, <3>1
  <2>11. \A k \in S : EndOf(d[k]) < n => r[k] = d[k]
    <3>1. ~ (EndOf(d[c]) < n)
      BY <1>5, <1>6, <1>7, <2>1
    <3>2. QED
      BY <2>9, <3>1
  <2>12. \A k \in S : r[k].final = d[k].final
    BY <1>3, <1>8, <2>1, <2>9 DEF WasCut
  <2>13. \A k \in S : r[k].ticks = e[k].ticks
    BY <1>8, <2>9 DEF SameTicks
  <2>14. \A k \in S : \A m \in DOMAIN r[k].ticks : m < n /\ m \in DOMAIN d[k].ticks /\ r[k].ticks[m] = d[k].ticks[m]
    BY <1>3, <1>8, <2>13 DEF WasCut
  <2>15. Whole(r) /\ PadFrom(r) = IF PadFrom(d) < n THEN PadFrom(d) ELSE n - 1
    <3>1. Whole(e) /\ PadFrom(e) = IF PadFrom(d) < n THEN PadFrom(d) ELSE n - 1
      BY <1>3, <1>8, <2>1 DEF WasCut
    <3>2. QED
      BY <1>8, <2>9, <3>1, SameTicksFacts
  <2>16. Pruned(d, n, r, T, B)
    BY <1>5, <1>11, <2>9, <2>10, <2>11, <2>12, <2>14, <2>15 DEF Pruned
  <2>17. QED
    BY <1>2, <2>16 DEF d, r
<1>15. QED
  BY <1>13, <1>14

(* The two bars an insertion changes get new indicators. *)
Refreshed(d, padded, own, r, T, B) ==
  /\ IsData(r, T, B) /\ SameTicks(d, r)
  /\ \A k \in DOMAIN d : /\ r[k].final = d[k].final /\ FreshAt(r, k)
                         /\ k # padded /\ k # own => r[k] = d[k]

LEMMA RefreshFacts ==
  ASSUME NEW T, NEW B \in Nat, NEW d, IsData(d, T, B), \A j \in DOMAIN d : DOMAIN d[j].ticks # {},
         NEW padded \in DOMAIN d, NEW own \in DOMAIN d, padded <= own,
         \A k \in DOMAIN d : k # padded /\ k # own => k < padded /\ FreshAt(d, k)
  PROVE  Refreshed(d, padded, own, Refresh(d, padded, own), T, B)
<1> DEFINE x == UpdateIndicators(d, padded)
           r == UpdateIndicators(x, own)
<1>1. DOMAIN d \subseteq 0..B + 1 /\ \A k \in DOMAIN d : k \in Nat
  BY DEF IsData
<1>2. \A k \in DOMAIN d : k # padded /\ k # own => d[k].ind.ema # <<>>
  BY DEF FreshAt
<1>3. Updated(d, padded, x, T, B)
  <2>1. padded - 1 \in DOMAIN d => d[padded - 1].ind.ema # <<>>
    <3>1. padded - 1 # padded /\ padded - 1 # own
      BY <1>1
    <3>2. QED
      BY <1>2, <3>1
  <2>2. QED
    BY <2>1, UpdateFacts
<1> HIDE DEF x
<1>4. /\ IsData(x, T, B) /\ SameTicks(d, x) /\ DOMAIN x = DOMAIN d /\ \A j \in DOMAIN d : x[j].ticks = d[j].ticks
      /\ x[padded].final = d[padded].final /\ FreshAt(x, padded)
      /\ \A j \in DOMAIN d : j # padded => x[j] = d[j]
  BY <1>3 DEF Updated, SameTicks
<1>5. x[padded].ind.ema # <<>>
  BY <1>4 DEF FreshAt
<1>6. Updated(x, own, r, T, B)
  <2>1. own - 1 \in DOMAIN x => x[own - 1].ind.ema # <<>>
    <3>1. own - 1 # own
      BY <1>1
    <3>2. QED
      BY <1>2, <1>4, <1>5, <3>1
  <2>2. \A j \in DOMAIN x : DOMAIN x[j].ticks # {}
    BY <1>4
  <2>3. QED
    BY <1>4, <2>1, <2>2, UpdateFacts
<1> HIDE DEF r
<1>7. /\ IsData(r, T, B) /\ DOMAIN r = DOMAIN d /\ \A j \in DOMAIN d : r[j].ticks = x[j].ticks
      /\ r[own].final = x[own].final /\ FreshAt(r, own)
      /\ \A j \in DOMAIN d : j # own => r[j] = x[j]
  BY <1>4, <1>6 DEF Updated, SameTicks
<1>8. SameTicks(d, r)
  BY <1>4, <1>7 DEF SameTicks
<1>9. \A k \in DOMAIN d : r[k].final = d[k].final /\ (k # padded /\ k # own => r[k] = d[k])
  BY <1>4, <1>7
<1>10. ASSUME NEW k \in DOMAIN d PROVE FreshAt(r, k)
  <2>1. CASE k = own
    BY <1>7, <2>1
  <2>2. CASE k # own /\ k = padded
    <3>1. Agree(x, r, k)
      <4>1. \A j \in DOMAIN d : j <= k => j # own
        BY <1>1, <2>2
      <4>2. QED
        BY <1>4, <1>7, <4>1 DEF Agree
    <3>2. QED
      BY <1>1, <1>4, <1>7, <2>2, <3>1, AgreeFresh
  <2>3. CASE k # own /\ k # padded
    <3>1. k < padded /\ FreshAt(d, k)
      BY <2>3
    <3>2. Agree(d, r, k)
      <4>1. \A j \in DOMAIN d : j <= k => j # own /\ j # padded
        BY <1>1, <3>1
      <4>2. QED
        BY <1>7, <1>9, <4>1 DEF Agree
    <3>3. QED
      BY <1>1, <1>7, <3>1, <3>2, AgreeFresh
  <2>4. QED
    BY <2>1, <2>2, <2>3
<1>11. QED
  BY <1>7, <1>8, <1>9, <1>10 DEF Refreshed, Refresh, x, r

(* Bars a block n can be added to: none, or bars that end before it *)

Extendable(b, n, T, B) ==
  /\ IsBars(b, T, B) /\ FinalUpTo(b) /\ b.lastFinalized < BarOf(n)
  /\ \A k \in DOMAIN b.data : FreshAt(b.data, k)
  /\ DOMAIN b.data # {} =>
       Whole(b.data) /\ b.lastFinalized < BarOf(PadFrom(b.data)) /\ PadFrom(b.data) < n

(* The bar whose indicators are computed again before those of block n's bar *)
PaddedBar(d, n) == IF Padding(d, n) THEN PadBar(d) ELSE BarOf(n)

(* After the padding they end just before the block. *)
PaddedTo(b, n, p, T, B) ==
  LET d == b.data
      own == BarOf(n)
      padded == PaddedBar(d, n) IN
  /\ IsData(p, T, B)
  /\ DOMAIN d = {} <=> DOMAIN p = {}
  /\ DOMAIN p # {} => Whole(p) /\ PadFrom(p) = n - 1
  /\ \A j \in DOMAIN d : j \in DOMAIN p /\ DOMAIN d[j].ticks \subseteq DOMAIN p[j].ticks
  /\ \A j \in DOMAIN p : /\ j <= own /\ (p[j].final <=> j <= b.lastFinalized)
                         /\ j # padded => j \in DOMAIN d /\ p[j] = d[j]
                         /\ \A m \in DOMAIN p[j].ticks :
                              \/ j \in DOMAIN d /\ m \in DOMAIN d[j].ticks /\ p[j].ticks[m] = d[j].ticks[m]
                              \/ PadFrom(d) < m /\ m < n /\ p[j].ticks[m] = Close(d[Max(DOMAIN d)])
  /\ \A j \in DOMAIN d : j <= padded
  /\ padded \in Nat /\ padded <= own /\ b.lastFinalized < padded
  /\ padded \in DOMAIN p \/ padded = own

LEMMA PadFacts ==
  ASSUME NEW T, NEW B \in Nat, NEW n \in 1..B, NEW b, Extendable(b, n, T, B)
  PROVE  PaddedTo(b, n, Pad(b.data, n), T, B)
<1> DEFINE d == b.data
           p == Pad(d, n)
           own == BarOf(n)
           padded == PaddedBar(d, n)
           l == b.lastFinalized
<1>1. IsData(d, T, B) /\ l \in Int /\ FinalUpTo(b) /\ n \in Nat /\ n \in 1..B
  BY DEF Extendable, IsBars, NoBar
<1>2. own \in Nat /\ own \in 0..B + 1 /\ l < own
  <2>1. own \in Nat /\ own <= n + 1
    BY <1>1, BarOfFacts
  <2>2. QED
    BY <1>1, <2>1 DEF Extendable
<1>3. d = <<>> <=> DOMAIN d = {}
  <2>1. DOMAIN d = {} => d = <<>>
    BY <1>1 DEF IsData
  <2>2. QED
    BY <2>1
<1>4. CASE DOMAIN d = {}
  <2>1. Missing(d, n) = {}
    BY <1>3, <1>4 DEF Missing
  <2>2. p = d /\ padded = own
    BY <2>1 DEF Pad, Padding, PaddedBar
  <2>3. QED
    BY <1>1, <1>2, <1>4, <2>2 DEF PaddedTo
<1>5. CASE DOMAIN d # {}
  <2> DEFINE e == PadFrom(d)
             top == Max(DOMAIN d)
             pb == PadBar(d)
             close == Close(d[top])
  <2>1. Whole(d) /\ l < BarOf(e) /\ e < n
    BY <1>5 DEF Extendable
  <2>2. /\ top \in DOMAIN d /\ top \in Nat /\ \A j \in DOMAIN d : j \in Nat /\ j <= top
        /\ e \in 1..B /\ top <= BarOf(e) /\ close \in T
    BY <1>1, <2>1, LastFacts
  <2>3. pb = BarOf(e) /\ pb \in Nat /\ pb \in 0..B + 1 /\ pb <= own
    <3>1. BarOf(e) \in Nat /\ BarOf(e) <= e + 1 /\ BarOf(e) <= own
      BY <1>1, <2>1, <2>2, BarOfFacts, BarOfGrows
    <3>2. QED
      BY <2>2, <3>1 DEF PadBar
  <2>4. /\ IsBarOf(EntryAt(d, pb), T, B)
        /\ pb \in DOMAIN d => EntryAt(d, pb) = d[pb]
        /\ pb \notin DOMAIN d => EntryAt(d, pb) = NewBar /\ DOMAIN EntryAt(d, pb).ticks = {}
    BY <1>1, EntryFacts
  <2>5. ~ EntryAt(d, pb).final
    <3>1. CASE pb \in DOMAIN d
      <4>1. ~ (pb <= l)
        BY <1>1, <2>1, <2>3
      <4>2. QED
        BY <1>1, <2>4, <3>1, <4>1 DEF FinalUpTo
    <3>2. CASE pb \notin DOMAIN d
      BY <2>4, <3>2 DEF NewBar
    <3>3. QED
      BY <3>1, <3>2
  <2>6. Missing(d, n) = e + 1..n - 1
    BY <1>3, <1>5 DEF Missing
  <2>7. \A j \in DOMAIN d : j \in Nat /\ j <= pb /\ (d[j].final <=> j <= l)
    <3>1. \A j \in DOMAIN d : d[j].final <=> j <= l
      BY <1>1 DEF FinalUpTo
    <3>2. QED
      BY <2>2, <2>3, <3>1
  <2>8. CASE e + 1 > n - 1
    <3>1. Missing(d, n) = {} /\ e = n - 1
      BY <1>1, <2>1, <2>2, <2>6, <2>8
    <3>2. p = d /\ padded = own
      BY <3>1 DEF Pad, Padding, PaddedBar
    <3>3. \A j \in DOMAIN d : j <= own
      BY <1>2, <2>3, <2>7
    <3> HIDE DEF p, d, own, padded, l, e
    <3>4. QED
      BY <1>1, <1>2, <1>5, <2>1, <2>7, <3>1, <3>2, <3>3 DEF PaddedTo, d, p, own, padded, l, e
  <2>9. CASE ~ (e + 1 > n - 1)
    <3> DEFINE ticks == [m \in Missing(d, n) |-> close]
    <3>1. Missing(d, n) # {} /\ n - 1 \in 1..B /\ e + 1 \in 1..B /\ n - 1 \in e + 1..B
      BY <1>1, <2>1, <2>2, <2>6, <2>9
    <3>2. Padding(d, n) /\ padded = pb /\ p = WithTicks(d, pb, ticks)
      BY <2>5, <3>1 DEF Padding, PaddedBar, Pad
    <3>3. DOMAIN ticks = e + 1..n - 1 /\ IsTicks(ticks, T, B) /\ \A m \in DOMAIN ticks : ticks[m] = close
      <4>1. DOMAIN ticks = e + 1..n - 1 /\ \A m \in DOMAIN ticks : ticks[m] = close
        BY <2>6
      <4>2. ticks \in [DOMAIN ticks -> T]
        BY <2>2
      <4>3. e + 1..n - 1 \subseteq 1..B
        BY <3>1
      <4> HIDE DEF ticks
      <4>4. QED
        BY <4>1, <4>2, <4>3 DEF IsTicks
    <3> HIDE DEF ticks, p, d, own, padded, l, e, top, pb, close
    <3>4. TicksAdded(d, pb, ticks, p, T, B)
      BY <1>1, <2>3, <3>2, <3>3, WithTicksFacts
    <3>5. Whole(p) /\ PadFrom(p) = n - 1
      <4>1. pb <= BarOf(e + 1)
        <5>1. e \in Nat /\ e + 1 \in Nat /\ e <= e + 1
          BY <2>2
        <5>2. QED
          BY <2>3, <5>1, BarOfGrows
      <4>2. PICK f \in 1..B : f = e + 1
        BY <3>1
      <4>3. PICK g \in f..B : g = n - 1
        BY <3>1, <4>2
      <4>4. DOMAIN ticks = f..g /\ pb <= BarOf(f) /\ f = PadFrom(d) + 1
        BY <3>3, <4>1, <4>2, <4>3 DEF e
      <4>5. Extended(d, pb, f, g, WithTicks(d, pb, ticks))
        BY <1>1, <2>1, <2>3, <2>7, <3>3, <4>4, ExtendWhole
      <4>6. QED
        BY <3>2, <4>3, <4>5 DEF Extended
    <3>6. /\ IsData(p, T, B) /\ DOMAIN p = DOMAIN d \cup {pb}
          /\ \A j \in DOMAIN d : j # pb => p[j] = d[j]
          /\ p[pb].final = FALSE /\ p[pb].ticks = Over(ticks, EntryAt(d, pb).ticks)
          /\ DOMAIN p[pb].ticks = DOMAIN ticks \cup DOMAIN EntryAt(d, pb).ticks
      BY <3>4 DEF TicksAdded
    <3>7. \A m \in DOMAIN p[pb].ticks :
             p[pb].ticks[m] = IF m \in DOMAIN ticks THEN ticks[m] ELSE EntryAt(d, pb).ticks[m]
      <4> DEFINE g == EntryAt(d, pb).ticks
      <4> HIDE DEF g
      <4>1. \A m \in DOMAIN ticks \cup DOMAIN g : Over(ticks, g)[m] = IF m \in DOMAIN ticks THEN ticks[m] ELSE g[m]
        BY DEF Over
      <4>2. QED
        BY <3>6, <4>1 DEF g
    <3>8. ASSUME NEW j \in DOMAIN p, NEW m \in DOMAIN p[j].ticks
          PROVE  \/ j \in DOMAIN d /\ m \in DOMAIN d[j].ticks /\ p[j].ticks[m] = d[j].ticks[m]
                 \/ e < m /\ m < n /\ p[j].ticks[m] = close
      <4>1. CASE j # pb
        BY <3>6, <4>1
      <4>2. CASE j = pb /\ m \in DOMAIN ticks
        <5>1. e < m /\ m < n
          BY <1>1, <2>2, <3>3, <4>2
        <5>2. QED
          BY <3>3, <3>7, <4>2, <5>1
      <4>3. CASE j = pb /\ m \notin DOMAIN ticks
        <5>1. m \in DOMAIN EntryAt(d, pb).ticks
          BY <3>6, <3>8, <4>3
        <5>2. pb \in DOMAIN d /\ EntryAt(d, pb) = d[pb]
          BY <2>4, <5>1
        <5>3. QED
          BY <3>7, <3>8, <4>3, <5>1, <5>2
      <4>4. QED
        BY <4>1, <4>2, <4>3
    <3>9. \A j \in DOMAIN d : j \in DOMAIN p /\ DOMAIN d[j].ticks \subseteq DOMAIN p[j].ticks
      BY <2>4, <3>6
    <3>10. \A j \in DOMAIN p : j <= own /\ (p[j].final <=> j <= l) /\ (j # pb => j \in DOMAIN d /\ p[j] = d[j])
      <4>1. pb <= own /\ ~ (pb <= l) /\ p[pb].final = FALSE
        BY <1>1, <2>1, <2>3, <3>6
      <4>2. ASSUME NEW j \in DOMAIN d PROVE j <= own
        BY <1>2, <2>3, <2>7
      <4>3. QED
        BY <2>7, <3>6, <4>1, <4>2
    <3>11. padded = pb /\ pb \in Nat /\ pb <= own /\ l < pb /\ pb \in DOMAIN p /\ DOMAIN p # {}
      BY <2>1, <2>3, <3>2, <3>6
    <3>12. QED
      BY <1>5, <2>7, <3>5, <3>6, <3>8, <3>9, <3>10, <3>11 DEF PaddedTo, d, p, own, padded, l, e, close, top
  <2>10. QED
    BY <2>8, <2>9
<1>6. QED
  BY <1>4, <1>5

(* The bars once block n is added: they end with it, in its own bar. *)
AddedTo(b, n, tick, r, T, B) ==
  LET d == b.data IN
  /\ IsBars(r, T, B) /\ FinalUpTo(r) /\ r.lastFinalized = b.lastFinalized
  /\ \A k \in DOMAIN r.data : FreshAt(r.data, k)
  /\ Whole(r.data) /\ PadFrom(r.data) = n /\ Max(DOMAIN r.data) = BarOf(n)
  /\ Cardinality(DOMAIN r.data) <= Retention
  /\ BarOf(n) \in DOMAIN r.data /\ n \in DOMAIN r.data[BarOf(n)].ticks
  /\ \A k \in DOMAIN r.data : \A m \in DOMAIN r.data[k].ticks :
       \/ m = n /\ r.data[k].ticks[m] = tick
       \/ k \in DOMAIN d /\ m \in DOMAIN d[k].ticks /\ r.data[k].ticks[m] = d[k].ticks[m]
       \/ DOMAIN d # {} /\ PadFrom(d) < m /\ m < n /\ r.data[k].ticks[m] = Close(d[Max(DOMAIN d)])
  /\ \A k \in DOMAIN d : k \in DOMAIN r.data /\ d[k].final => r.data[k] = d[k]
  /\ \A k \in DOMAIN d : k > BarOf(n) - Retention =>
       k \in DOMAIN r.data /\ DOMAIN d[k].ticks \subseteq DOMAIN r.data[k].ticks

LEMMA AddedFacts ==
  ASSUME NEW T, NEW B \in Nat, NEW n \in 1..B, NEW b, Extendable(b, n, T, B), NEW tick \in T
  PROVE  AddedTo(b, n, tick, Added(b, n, tick), T, B) /\ CanAdd(Pad(b.data, n), n)
<1> DEFINE d == b.data
           p == Pad(d, n)
           own == BarOf(n)
           padded == PaddedBar(d, n)
           l == b.lastFinalized
           ticks == [m \in {n} |-> tick]
           w == WithTicks(p, own, ticks)
           kept == Retained(w)
           r == Refresh(kept, padded, own)
           s == Added(b, n, tick)
           old == EntryAt(p, own)
<1>1. PaddedTo(b, n, p, T, B)
  BY PadFacts
<1>2. s = [data |-> r, lastFinalized |-> l]
  <2>1. s = [b EXCEPT !.data = r]
    BY DEF Added, PaddedBar
  <2>2. b = [data |-> d, lastFinalized |-> l]
    BY DEF Extendable, IsBars
  <2> HIDE DEF r, d, l, s
  <2>3. QED
    BY <2>1, <2>2
<1>3. /\ IsData(d, T, B) /\ l \in NoBar..B + 1 /\ l \in Int /\ n \in Nat /\ (\A k \in DOMAIN d : FreshAt(d, k))
      /\ own \in Nat /\ own \in 0..B + 1 /\ l < own
  <2>1. own \in Nat /\ own <= n + 1
    BY BarOfFacts
  <2>2. IsData(d, T, B) /\ l \in NoBar..B + 1 /\ (\A k \in DOMAIN d : FreshAt(d, k)) /\ l < own
    BY DEF Extendable, IsBars
  <2>3. QED
    BY <2>1, <2>2 DEF NoBar
<1> HIDE DEF d, p, own, padded, l, w, kept, r, s, old
<1>4. /\ IsData(p, T, B)
      /\ DOMAIN d = {} <=> DOMAIN p = {}
      /\ DOMAIN p # {} => Whole(p) /\ PadFrom(p) = n - 1
      /\ \A j \in DOMAIN d : j \in DOMAIN p /\ DOMAIN d[j].ticks \subseteq DOMAIN p[j].ticks
      /\ \A j \in DOMAIN p : j <= own /\ (p[j].final <=> j <= l) /\ (j # padded => j \in DOMAIN d /\ p[j] = d[j])
      /\ \A j \in DOMAIN d : j <= padded
      /\ padded \in Nat /\ padded <= own /\ l < padded
      /\ padded \in DOMAIN p \/ padded = own
  BY <1>1 DEF PaddedTo, d, own, padded, l
<1>5. \A j \in DOMAIN p : \A m \in DOMAIN p[j].ticks :
         \/ j \in DOMAIN d /\ m \in DOMAIN d[j].ticks /\ p[j].ticks[m] = d[j].ticks[m]
         \/ PadFrom(d) < m /\ m < n /\ p[j].ticks[m] = Close(d[Max(DOMAIN d)])
  BY <1>1 DEF PaddedTo, d
<1>6. \A j \in DOMAIN p : j \in Nat
  BY <1>4 DEF IsData
<1>7. /\ IsBarOf(old, T, B)
      /\ own \in DOMAIN p => old = p[own]
      /\ own \notin DOMAIN p => old = NewBar /\ DOMAIN old.ticks = {}
  BY <1>4, EntryFacts DEF old
<1>8. ~ old.final /\ (DOMAIN old.ticks # {} => EndOf(old) = n - 1)
  <2>1. CASE own \in DOMAIN p
    <3>1. ~ (own <= l)
      BY <1>3
    <3>2. \A j \in DOMAIN p : j <= own
      BY <1>4
    <3>3. DOMAIN p \in SUBSET Nat
      BY <1>6
    <3>4. Max(DOMAIN p) = own
      BY <2>1, <3>2, <3>3, MaxIs
    <3>5. PadFrom(p) = EndOf(p[own])
      BY <3>4 DEF PadFrom
    <3>6. PadFrom(p) = n - 1
      BY <1>4, <2>1
    <3>7. QED
      BY <1>4, <1>7, <2>1, <3>1, <3>5, <3>6
  <2>2. CASE own \notin DOMAIN p
    BY <1>7, <2>2 DEF NewBar
  <2>3. QED
    BY <2>1, <2>2
<1>9. CanAdd(p, n)
  <2>1. old.ticks # <<>> => DOMAIN old.ticks # {}
    <3> DEFINE g == old.ticks
    <3>1. IsTicks(g, T, B)
      BY <1>7 DEF IsBarOf
    <3> HIDE DEF g
    <3>2. g = [m \in DOMAIN g |-> g[m]]
      BY <3>1 DEF IsTicks
    <3>3. DOMAIN g = {} => g = <<>>
      BY <3>2
    <3>4. QED
      BY <3>3 DEF g
  <2>2. old.ticks # <<>> => EndOf(old) + 1 = n
    BY <1>3, <1>8, <2>1
  <2>3. QED
    BY <1>8, <2>2 DEF CanAdd, old, own
<1>10. DOMAIN ticks = n..n /\ DOMAIN ticks = {n} /\ IsTicks(ticks, T, B) /\ ticks[n] = tick
  <2>1. DOMAIN ticks = {n} /\ ticks[n] = tick /\ ticks \in [{n} -> T] /\ n..n = {n} /\ {n} \subseteq 1..B
    BY <1>3
  <2> HIDE DEF ticks
  <2>2. QED
    BY <2>1 DEF IsTicks
<1> HIDE DEF ticks
<1>11. /\ IsData(w, T, B) /\ DOMAIN w = DOMAIN p \cup {own}
       /\ \A j \in DOMAIN p : j # own => w[j] = p[j]
       /\ w[own].final = FALSE /\ w[own].ticks = Over(ticks, old.ticks)
       /\ DOMAIN w[own].ticks = {n} \cup DOMAIN old.ticks
  <2>1. TicksAdded(p, own, ticks, w, T, B)
    BY <1>3, <1>4, <1>10, WithTicksFacts DEF w
  <2>2. QED
    BY <1>10, <2>1 DEF TicksAdded, old
<1>12. Whole(w) /\ PadFrom(w) = n /\ Max(DOMAIN w) = own
  <2>1. PICK f \in 1..B : f = n
    OBVIOUS
  <2>2. PICK g \in f..B : g = n
    BY <1>3, <2>1
  <2>3. DOMAIN ticks = f..g
    BY <1>10, <2>1, <2>2
  <2>4. DOMAIN p = {} \/ (Whole(p) /\ f = PadFrom(p) + 1)
    <3>1. DOMAIN p # {} => Whole(p) /\ PadFrom(p) = n - 1
      BY <1>4
    <3>2. (n - 1) + 1 = n
      BY <1>3
    <3>3. QED
      BY <2>1, <3>1, <3>2
  <2>5. own <= BarOf(f) /\ \A j \in DOMAIN p : j <= own
    BY <1>3, <1>4, <2>1 DEF own
  <2>6. Extended(p, own, f, g, w)
    BY <1>3, <1>4, <1>10, <2>3, <2>4, <2>5, ExtendWhole DEF w
  <2>7. QED
    BY <2>2, <2>6 DEF Extended
<1>13. \A m \in DOMAIN w[own].ticks : w[own].ticks[m] = IF m = n THEN tick ELSE old.ticks[m]
  <2> DEFINE g == old.ticks
  <2> HIDE DEF g
  <2>1. \A m \in DOMAIN ticks \cup DOMAIN g : Over(ticks, g)[m] = IF m \in DOMAIN ticks THEN ticks[m] ELSE g[m]
    BY DEF Over
  <2>2. QED
    BY <1>10, <1>11, <2>1 DEF g
<1>14. ASSUME NEW j \in DOMAIN w, NEW m \in DOMAIN w[j].ticks
       PROVE  \/ m = n /\ w[j].ticks[m] = tick
              \/ j \in DOMAIN d /\ m \in DOMAIN d[j].ticks /\ w[j].ticks[m] = d[j].ticks[m]
              \/ DOMAIN d # {} /\ PadFrom(d) < m /\ m < n /\ w[j].ticks[m] = Close(d[Max(DOMAIN d)])
  <2>1. CASE j = own /\ m = n
    BY <1>13, <1>14, <2>1
  <2>2. CASE ~ (j = own /\ m = n)
    <3>1. j \in DOMAIN p /\ m \in DOMAIN p[j].ticks /\ w[j].ticks[m] = p[j].ticks[m]
      <4>1. CASE j = own
        <5>1. m \in DOMAIN old.ticks /\ w[j].ticks[m] = old.ticks[m]
          BY <1>11, <1>13, <1>14, <2>2, <4>1
        <5>2. QED
          BY <1>7, <4>1, <5>1
      <4>2. CASE j # own
        BY <1>11, <1>14, <4>2
      <4>3. QED
        BY <4>1, <4>2
    <3>2. DOMAIN d # {}
      BY <1>4, <3>1
    <3>3. QED
      BY <1>5, <3>1, <3>2
  <2>3. QED
    BY <2>1, <2>2
<1>15. Kept(w, kept, T, B)
  BY <1>11, <1>12, RetainedFacts DEF kept
<1>16. /\ IsData(kept, T, B) /\ DOMAIN kept \subseteq DOMAIN w /\ \A j \in DOMAIN kept : kept[j] = w[j]
       /\ \A i \in DOMAIN kept, j \in DOMAIN w : i <= j => j \in DOMAIN kept
       /\ \A k \in DOMAIN w : k > own - Retention => k \in DOMAIN kept
       /\ \A k \in DOMAIN w : (\A j \in DOMAIN w : j > k => j = own) => k \in DOMAIN kept
       /\ Cardinality(DOMAIN kept) <= Retention
       /\ Whole(kept) /\ PadFrom(kept) = n
  BY <1>12, <1>15 DEF Kept
<1>17. \A j \in DOMAIN w : j \in Nat /\ (j # own /\ j # padded => j < padded /\ j \in DOMAIN d /\ w[j] = d[j])
  <2>1. ASSUME NEW j \in DOMAIN w, j # own, j # padded PROVE j < padded /\ j \in DOMAIN d /\ w[j] = d[j]
    <3>1. j \in DOMAIN p /\ j \in Nat /\ j \in DOMAIN d /\ p[j] = d[j] /\ w[j] = p[j] /\ j <= padded
      BY <1>4, <1>6, <1>11, <2>1
    <3>2. QED
      BY <1>4, <2>1, <3>1
  <2>2. QED
    BY <1>3, <1>6, <1>11, <2>1
<1>18. own \in DOMAIN kept /\ padded \in DOMAIN kept
  <2>1. own \in DOMAIN w /\ padded \in DOMAIN w
    BY <1>4, <1>11
  <2>2. \A j \in DOMAIN w : j > own => j = own
    BY <1>3, <1>4, <1>17
  <2>3. \A j \in DOMAIN w : j > padded => j = own
    BY <1>4, <1>17
  <2>4. QED
    BY <1>16, <2>1, <2>2, <2>3
<1>19. ASSUME NEW k \in DOMAIN kept, k # own, k # padded PROVE k < padded /\ FreshAt(kept, k)
  <2>1. k \in DOMAIN w /\ k \in DOMAIN d /\ k \in Nat /\ k < padded
    BY <1>16, <1>17, <1>19
  <2>2. DOMAIN d \subseteq 0..B + 1 /\ DOMAIN w \subseteq 0..B + 1
    BY <1>3, <1>11 DEF IsData
  <2>3. Agree(d, w, k)
    <3>1. ASSUME NEW j \in Int, j <= k
          PROVE  (j \in DOMAIN d <=> j \in DOMAIN w) /\ (j \in DOMAIN d => w[j] = d[j])
      <4>1. j # own /\ j # padded
        BY <1>3, <1>4, <2>1, <3>1
      <4>2. j \in DOMAIN d => j \in DOMAIN w
        BY <1>4, <1>11
      <4>3. QED
        BY <1>17, <4>1, <4>2
    <3>2. QED
      BY <3>1 DEF Agree
  <2>4. FreshAt(w, k)
    BY <1>3, <2>1, <2>2, <2>3, AgreeFresh
  <2>5. QED
    BY <1>16, <1>19, <2>1, <2>2, <2>4, DropFresh
<1>20. Refreshed(kept, padded, own, r, T, B)
  <2>1. \A j \in DOMAIN kept : DOMAIN kept[j].ticks # {}
    BY <1>16 DEF Whole
  <2>2. QED
    BY <1>4, <1>16, <1>18, <1>19, <2>1, RefreshFacts DEF r
<1>21. /\ IsData(r, T, B) /\ SameTicks(kept, r) /\ DOMAIN r = DOMAIN kept
       /\ \A k \in DOMAIN kept : /\ r[k].ticks = kept[k].ticks /\ r[k].final = kept[k].final /\ FreshAt(r, k)
                                 /\ k # padded /\ k # own => r[k] = kept[k]
  BY <1>20 DEF Refreshed, SameTicks
<1>22. Whole(r) /\ PadFrom(r) = n
  BY <1>16, <1>21, SameTicksFacts
<1>23. Max(DOMAIN r) = own
  <2>1. DOMAIN r \in SUBSET Nat /\ own \in DOMAIN r /\ \A y \in DOMAIN r : y <= own
    BY <1>3, <1>4, <1>11, <1>16, <1>17, <1>18, <1>21
  <2>2. QED
    BY <2>1, MaxIs
<1>24. \A k \in DOMAIN r : r[k].final <=> k <= l
  <2>1. ASSUME NEW k \in DOMAIN w PROVE w[k].final <=> k <= l
    <3>1. CASE k = own
      <4>1. ~ (own <= l)
        BY <1>3
      <4>2. QED
        BY <1>11, <3>1, <4>1
    <3>2. CASE k # own
      BY <1>4, <1>11, <3>2
    <3>3. QED
      BY <3>1, <3>2
  <2>2. QED
    BY <1>16, <1>21, <2>1
<1>25. \A k \in DOMAIN d : k \in DOMAIN r /\ d[k].final => r[k] = d[k]
  <2>1. ASSUME NEW k \in DOMAIN d, k \in DOMAIN r, d[k].final PROVE r[k] = d[k]
    <3>1. k <= l
      BY <2>1 DEF Extendable, FinalUpTo, d, l
    <3>2. k # padded /\ k # own
      BY <1>3, <1>4, <3>1
    <3>3. QED
      BY <1>16, <1>17, <1>21, <2>1, <3>2
  <2>2. QED
    BY <2>1
<1>26. \A k \in DOMAIN d : k > own - Retention => k \in DOMAIN r /\ DOMAIN d[k].ticks \subseteq DOMAIN r[k].ticks
  <2>1. ASSUME NEW k \in DOMAIN d, k > own - Retention
        PROVE  k \in DOMAIN r /\ DOMAIN d[k].ticks \subseteq DOMAIN r[k].ticks
    <3>1. k \in DOMAIN p /\ DOMAIN d[k].ticks \subseteq DOMAIN p[k].ticks /\ k \in DOMAIN w
      BY <1>4, <1>11
    <3>2. DOMAIN p[k].ticks \subseteq DOMAIN w[k].ticks
      BY <1>7, <1>11, <3>1
    <3>3. QED
      BY <1>16, <1>21, <2>1, <3>1, <3>2
  <2>2. QED
    BY <2>1
<1>27. own \in DOMAIN r /\ n \in DOMAIN r[own].ticks
  BY <1>11, <1>16, <1>18, <1>21
<1>28. \A k \in DOMAIN r : \A m \in DOMAIN r[k].ticks :
         \/ m = n /\ r[k].ticks[m] = tick
         \/ k \in DOMAIN d /\ m \in DOMAIN d[k].ticks /\ r[k].ticks[m] = d[k].ticks[m]
         \/ DOMAIN d # {} /\ PadFrom(d) < m /\ m < n /\ r[k].ticks[m] = Close(d[Max(DOMAIN d)])
  <2>1. \A k \in DOMAIN r : k \in DOMAIN w /\ r[k].ticks = w[k].ticks
    BY <1>16, <1>21
  <2>2. QED
    BY <1>14, <2>1
<1>29. IsBars(s, T, B) /\ FinalUpTo(s) /\ s.data = r /\ s.lastFinalized = l
  BY <1>2, <1>3, <1>21, <1>24 DEF IsBars, FinalUpTo
<1>30. AddedTo(b, n, tick, s, T, B)
  BY <1>16, <1>21, <1>22, <1>23, <1>25, <1>26, <1>27, <1>28, <1>29 DEF AddedTo, d, own, l
<1>31. QED
  BY <1>9, <1>30 DEF s, p, d

(* insert_data *)

InsertedTo(b, n, tick, fin, r, T, B) ==
  LET d == b.data IN
  /\ IsBars(r, T, B) /\ BarsInv(r) /\ Cardinality(DOMAIN r.data) <= Retention
  /\ PadFrom(r.data) = n /\ Max(DOMAIN r.data) = BarOf(n)
  /\ r.lastFinalized = IF fin <= b.lastFinalized THEN b.lastFinalized ELSE fin
  /\ BarOf(n) \in DOMAIN r.data /\ n \in DOMAIN r.data[BarOf(n)].ticks
  /\ \A k \in DOMAIN r.data : \A m \in DOMAIN r.data[k].ticks :
       \/ m = n /\ r.data[k].ticks[m] = tick
       \/ k \in DOMAIN d /\ m \in DOMAIN d[k].ticks /\ r.data[k].ticks[m] = d[k].ticks[m]
       \/ DOMAIN d # {} /\ PadFrom(d) < m /\ m < n /\ r.data[k].ticks[m] = Close(d[Max(DOMAIN d)])
  /\ \A k \in DOMAIN d : k \in DOMAIN r.data /\ d[k].final => r.data[k] = d[k]
  /\ \A k \in DOMAIN d : k > BarOf(n) - Retention =>
       k \in DOMAIN r.data /\ DOMAIN d[k].ticks \subseteq DOMAIN r.data[k].ticks

LEMMA InsertFacts ==
  ASSUME NEW T, NEW B \in Nat, NEW n \in 1..B, NEW b, Extendable(b, n, T, B), NEW tick \in T,
         NEW fin \in NoBar..B + 1, fin < BarOf(n)
  PROVE  InsertedTo(b, n, tick, fin, InsertData(b, n, tick, fin), T, B) /\ CanInsert(b, n, tick, fin)
<1> DEFINE a == Added(b, n, tick)
           r == Finalized(a, fin)
           d == b.data
<1>1. AddedTo(b, n, tick, a, T, B) /\ CanAdd(Pad(b.data, n), n)
  BY AddedFacts
<1> HIDE DEF a
<1>2. IsBars(a, T, B) /\ FinalUpTo(a) /\ IsData(a.data, T, B) /\ a.lastFinalized = b.lastFinalized
  BY <1>1 DEF AddedTo, IsBars
<1>3. FinalizedTo(a, fin, r, T, B) /\ CanFinalize(a, fin)
  BY <1>2, FinalizedFacts
<1> HIDE DEF r
<1>4. CanInsert(b, n, tick, fin)
  BY <1>1, <1>3 DEF CanInsert, a
<1>5. /\ Whole(a.data) /\ PadFrom(a.data) = n /\ Max(DOMAIN a.data) = BarOf(n)
      /\ Cardinality(DOMAIN a.data) <= Retention /\ \A k \in DOMAIN a.data : FreshAt(a.data, k)
      /\ BarOf(n) \in DOMAIN a.data /\ n \in DOMAIN a.data[BarOf(n)].ticks
  BY <1>1 DEF AddedTo
<1>6. /\ \A k \in DOMAIN a.data : \A m \in DOMAIN a.data[k].ticks :
           \/ m = n /\ a.data[k].ticks[m] = tick
           \/ k \in DOMAIN d /\ m \in DOMAIN d[k].ticks /\ a.data[k].ticks[m] = d[k].ticks[m]
           \/ DOMAIN d # {} /\ PadFrom(d) < m /\ m < n /\ a.data[k].ticks[m] = Close(d[Max(DOMAIN d)])
      /\ \A k \in DOMAIN d : k \in DOMAIN a.data /\ d[k].final => a.data[k] = d[k]
      /\ \A k \in DOMAIN d : k > BarOf(n) - Retention =>
           k \in DOMAIN a.data /\ DOMAIN d[k].ticks \subseteq DOMAIN a.data[k].ticks
  BY <1>1 DEF AddedTo
<1> HIDE DEF d
<1>7. /\ IsBars(r, T, B) /\ FinalUpTo(r) /\ SameTicks(a.data, r.data)
      /\ DOMAIN r.data = DOMAIN a.data
      /\ \A k \in DOMAIN a.data : /\ r.data[k].ticks = a.data[k].ticks /\ r.data[k].ind = a.data[k].ind
                                  /\ a.data[k].final => r.data[k] = a.data[k]
      /\ r.lastFinalized = IF fin <= b.lastFinalized THEN b.lastFinalized ELSE fin
  BY <1>2, <1>3 DEF FinalizedTo, SameTicks
<1>8. Whole(r.data) /\ PadFrom(r.data) = n
  BY <1>2, <1>5, <1>7, SameTicksFacts
<1>9. \A k \in DOMAIN r.data : FreshAt(r.data, k)
  <2>1. ASSUME NEW k \in DOMAIN r.data PROVE FreshAt(r.data, k)
    <3>1. Agree(a.data, r.data, k)
      BY <1>7 DEF Agree
    <3>2. DOMAIN a.data \subseteq 0..B + 1
      BY <1>2 DEF IsData
    <3>3. QED
      BY <1>5, <1>7, <3>1, <3>2, AgreeFresh
  <2>2. QED
    BY <2>1
<1>10. r.lastFinalized < BarOf(n)
  <2>1. b.lastFinalized < BarOf(n)
    BY DEF Extendable
  <2>2. QED
    BY <1>7, <2>1
<1>11. BarsInv(r)
  BY <1>7, <1>8, <1>9, <1>10 DEF BarsInv, FinalUpTo
<1>12. /\ \A k \in DOMAIN r.data : \A m \in DOMAIN r.data[k].ticks :
           \/ m = n /\ r.data[k].ticks[m] = tick
           \/ k \in DOMAIN d /\ m \in DOMAIN d[k].ticks /\ r.data[k].ticks[m] = d[k].ticks[m]
           \/ DOMAIN d # {} /\ PadFrom(d) < m /\ m < n /\ r.data[k].ticks[m] = Close(d[Max(DOMAIN d)])
       /\ \A k \in DOMAIN d : k \in DOMAIN r.data /\ d[k].final => r.data[k] = d[k]
       /\ \A k \in DOMAIN d : k > BarOf(n) - Retention =>
            k \in DOMAIN r.data /\ DOMAIN d[k].ticks \subseteq DOMAIN r.data[k].ticks
  BY <1>6, <1>7
<1>13. InsertedTo(b, n, tick, fin, r, T, B)
  BY <1>5, <1>7, <1>8, <1>11, <1>12 DEF InsertedTo, d
<1>14. QED
  BY <1>4, <1>13 DEF InsertData, r, a

(* Blocks can be added to bars that end before them, and to none. *)
LEMMA NewBarsExtendable ==
  ASSUME NEW T, NEW B \in Nat, NEW n \in 1..B
  PROVE  Extendable(NewBars, n, T, B)
<1>1. NewBars.data = <<>> /\ NewBars.lastFinalized = NoBar /\ NoBar = -1
      /\ NewBars = [data |-> NewBars.data, lastFinalized |-> NewBars.lastFinalized]
  BY DEF NewBars, NoBar
<1>2. IsData(<<>>, T, B) /\ DOMAIN <<>> = {}
  BY DEF IsData
<1>3. BarOf(n) \in Nat
  BY BarOfFacts
<1>4. QED
  BY <1>1, <1>2, <1>3 DEF Extendable, IsBars, FinalUpTo

LEMMA BarsExtendable ==
  ASSUME NEW T, NEW B \in Nat, NEW n \in 1..B, NEW b, IsBars(b, T, B), BarsInv(b), PadFrom(b.data) < n
  PROVE  Extendable(b, n, T, B)
<1>1. IsData(b.data, T, B) /\ Whole(b.data) /\ b.lastFinalized < BarOf(PadFrom(b.data)) /\ b.lastFinalized \in Int
  BY DEF IsBars, BarsInv, NoBar
<1>2. PadFrom(b.data) \in 1..B
  BY <1>1, LastFacts
<1>3. BarOf(PadFrom(b.data)) <= BarOf(n) /\ BarOf(n) \in Nat /\ BarOf(PadFrom(b.data)) \in Nat
  BY <1>2, BarOfGrows, BarOfFacts
<1>4. b.lastFinalized < BarOf(n)
  BY <1>1, <1>3
<1>5. QED
  BY <1>1, <1>4 DEF Extendable, BarsInv, FinalUpTo

(* What bars show of the ticks that were inserted into them.  st has the     *)
(* ticks by block; a bar exists for the time ranges with a tick, and a block *)
(* without one shows the last tick before it, in that tick's bar.            *)

In(D, k)     == {m \in D : BarOf(m) = k}
LastTo(D, m) == Max({x \in D : x <= m})

ShownTo(st, k, e) ==
  [m \in {x \in Min(DOMAIN st)..e : BarOf(LastTo(DOMAIN st, x)) = k} |-> st[LastTo(DOMAIN st, m)]]
Shown(st, k) == ShownTo(st, k, Max(DOMAIN st))

LEMMA LastToFacts ==
  ASSUME NEW B \in Nat, NEW D \in SUBSET (1..B), NEW m \in Nat, NEW x \in D, x <= m
  PROVE  /\ LastTo(D, m) \in D /\ LastTo(D, m) <= m /\ x <= LastTo(D, m)
         /\ \A y \in D : y <= m => y <= LastTo(D, m)
<1> DEFINE S == {y \in D : y <= m}
<1>1. S \in SUBSET (0..B) /\ S # {}
  <2>1. \A y \in D : y \in 0..B
    OBVIOUS
  <2>2. x \in S
    OBVIOUS
  <2>3. QED
    BY <2>1, <2>2
<1>2. Max(S) \in S /\ \A y \in S : y <= Max(S)
  BY <1>1, MaxFacts
<1>3. LastTo(D, m) = Max(S)
  BY DEF LastTo
<1>4. QED
  BY <1>2, <1>3

(* The last block up to m is the one after which there is none up to m. *)
LEMMA LastToIs ==
  ASSUME NEW B \in Nat, NEW D \in SUBSET (1..B), NEW m \in Nat, NEW x \in D, x <= m,
         \A y \in D : y <= m => y <= x
  PROVE  LastTo(D, m) = x
<1>1. LastTo(D, m) \in D /\ LastTo(D, m) <= m /\ x <= LastTo(D, m)
  BY LastToFacts
<1>2. LastTo(D, m) <= x
  BY <1>1
<1>3. \A y \in D : y \in Int
  OBVIOUS
<1>4. \A y, z \in D : y <= z /\ z <= y => y = z
  BY <1>3
<1>5. QED
  BY <1>1, <1>2, <1>4

LEMMA InFacts ==
  ASSUME NEW B \in Nat, NEW D \in SUBSET (1..B), NEW k, In(D, k) # {}
  PROVE  /\ Max(In(D, k)) \in D /\ BarOf(Max(In(D, k))) = k /\ \A m \in In(D, k) : m <= Max(In(D, k))
         /\ Min(In(D, k)) \in D /\ BarOf(Min(In(D, k))) = k /\ \A m \in In(D, k) : Min(In(D, k)) <= m
         /\ Max(In(D, k)) \in 1..B /\ Min(In(D, k)) \in 1..B /\ k \in Nat /\ 1 <= k /\ k <= B + 1
<1>1. In(D, k) \in SUBSET (0..B) /\ In(D, k) \in SUBSET Nat /\ In(D, k) \in SUBSET D
  <2>1. \A y \in D : y \in 0..B /\ y \in Nat
    OBVIOUS
  <2>2. QED
    BY <2>1 DEF In
<1>2. Max(In(D, k)) \in In(D, k) /\ \A m \in In(D, k) : m <= Max(In(D, k))
  BY <1>1, MaxFacts
<1>3. Min(In(D, k)) \in In(D, k) /\ \A m \in In(D, k) : Min(In(D, k)) <= m
  BY <1>1, MinFacts
<1>4. /\ Max(In(D, k)) \in D /\ BarOf(Max(In(D, k))) = k
      /\ Min(In(D, k)) \in D /\ BarOf(Min(In(D, k))) = k
  BY <1>2, <1>3 DEF In
<1>5. Max(In(D, k)) \in 1..B /\ Min(In(D, k)) \in 1..B
  BY <1>4
<1>6. PICK x \in 1..B : BarOf(x) = k
  BY <1>4, <1>5
<1>7. k \in Nat /\ 1 <= k /\ k <= B + 1
  <2>1. x \in Nat /\ x <= B
    OBVIOUS
  <2>2. QED
    BY <1>6, <2>1, BarOfFacts
<1>8. QED
  BY <1>2, <1>3, <1>4, <1>5, <1>7

(* What a bar shows starts with its first tick and ends with its last one. *)
LEMMA ShownFacts ==
  ASSUME NEW B \in Nat, NEW st, DOMAIN st \subseteq 1..B, NEW k, In(DOMAIN st, k) # {},
         NEW e \in Nat, \A m \in DOMAIN st : m <= e
  PROVE  LET t == ShownTo(st, k, e)
             first == Min(In(DOMAIN st, k))
             last  == Max(In(DOMAIN st, k)) IN
         /\ DOMAIN t \in SUBSET Nat
         /\ first \in DOMAIN t /\ t[first] = st[first] /\ \A m \in DOMAIN t : first <= m
         /\ last \in DOMAIN t /\ t[last] = st[last] /\ \A m \in DOMAIN t : last <= m => t[m] = st[last]
<1> DEFINE D == DOMAIN st
           t == ShownTo(st, k, e)
           first == Min(In(D, k))
           last == Max(In(D, k))
<1>1. /\ last \in D /\ BarOf(last) = k /\ last \in 1..B /\ first \in D /\ BarOf(first) = k /\ first \in 1..B
      /\ \A m \in In(D, k) : first <= m /\ m <= last
  BY InFacts
<1>2. D \in SUBSET (1..B) /\ D \in SUBSET Nat /\ D # {}
  BY <1>1
<1>3. Min(D) \in D /\ \A x \in D : Min(D) <= x
  BY <1>2, MinFacts
<1> HIDE DEF first, last, D
<1>4. ASSUME NEW x \in D PROVE x \in Min(D)..e /\ LastTo(D, x) = x
  <2>1. x \in Nat /\ x <= x /\ Min(D) \in Int /\ Min(D) <= x /\ x <= e
    BY <1>2, <1>3 DEF D
  <2>2. QED
    <3>1. LastTo(D, x) = x
      BY <1>2, <2>1, LastToIs
    <3>2. e \in Int /\ x \in Int
      BY <2>1
    <3>3. QED
      BY <2>1, <3>1, <3>2
<1>5. ASSUME NEW m \in Min(D)..e PROVE m \in Nat /\ LastTo(D, m) \in D /\ LastTo(D, m) <= m
                                       /\ \A y \in D : y <= m => y <= LastTo(D, m)
  <2>1. m \in Nat /\ Min(D) \in D /\ Min(D) <= m
    <3>1. Min(D) \in Nat
      BY <1>2, <1>3
    <3>2. QED
      BY <1>3, <3>1
  <2>2. QED
    BY <1>2, <2>1, LastToFacts
<1>6. /\ DOMAIN t = {x \in Min(D)..e : BarOf(LastTo(D, x)) = k}
      /\ \A m \in DOMAIN t : t[m] = st[LastTo(D, m)]
  BY DEF ShownTo, D
<1> HIDE DEF t
<1>7. first \in DOMAIN t /\ t[first] = st[first] /\ last \in DOMAIN t /\ t[last] = st[last]
  BY <1>1, <1>4, <1>6
<1>8. ASSUME NEW m \in DOMAIN t PROVE m \in Nat /\ first <= m /\ (last <= m => t[m] = st[last])
  <2>1. m \in Nat /\ LastTo(D, m) \in D /\ LastTo(D, m) <= m /\ LastTo(D, m) \in In(D, k)
        /\ \A y \in D : y <= m => y <= LastTo(D, m)
    BY <1>5, <1>6 DEF In
  <2>2. LastTo(D, m) \in Nat /\ first <= LastTo(D, m) /\ LastTo(D, m) <= last /\ first \in Nat /\ last \in Nat
    BY <1>1, <1>2, <2>1
  <2>3. first <= m
    BY <2>1, <2>2
  <2>4. ASSUME last <= m PROVE LastTo(D, m) = last
    <3>1. last <= LastTo(D, m)
      BY <1>1, <2>1, <2>4
    <3>2. QED
      BY <2>2, <3>1
  <2>5. QED
    BY <1>6, <2>1, <2>3, <2>4
<1>9. DOMAIN t \in SUBSET Nat
  BY <1>8
<1>10. QED
  BY <1>7, <1>8, <1>9 DEF first, last, D, t

(* The last tick of a bar, what its bands and its moving average are         *)
(* computed from: the closes of the period's bars, and those of the bars     *)
(* since the last gap before it.                                             *)
LastTick(st, k) == st[Max(In(DOMAIN st, k))]

ClosesTo(st, k) ==
  {<<j, LastTick(st, j)>> : j \in {i \in k - Period + 1..k : In(DOMAIN st, i) # {}}}

RunStart(D, k) ==
  Max({j \in 1..k : In(D, j) # {} /\ In(D, j - 1) = {} /\ \A i \in j..k : In(D, i) # {}})

Averaged(st, k) ==
  LET from == RunStart(DOMAIN st, k)
  IN  [i \in 1..k - from + 1 |-> LastTick(st, from + i - 1)]

Starts(D, j, k) == j \in 1..k /\ In(D, j - 1) = {} /\ \A i \in j..k : In(D, i) # {}

LEMMA NoBarZero ==
  ASSUME NEW B \in Nat, NEW D \in SUBSET (1..B)
  PROVE  \A j \in Int : j < 1 => In(D, j) = {}
<1>1. \A m \in D : m \in Nat
  OBVIOUS
<1>2. \A m \in D : BarOf(m) \in Nat /\ 1 <= BarOf(m)
  BY <1>1, BarOfFacts
<1>3. ASSUME NEW j \in Int, j < 1, NEW m \in In(D, j) PROVE FALSE
  <2>1. m \in D /\ BarOf(m) = j
    BY DEF In
  <2>2. QED
    BY <1>2, <1>3, <2>1
<1>4. QED
  BY <1>3

(* There is one bar where the bars up to bar k start without a gap. *)
LEMMA StartsOnce ==
  ASSUME NEW D, NEW k \in Nat, NEW i, NEW j, Starts(D, i, k), Starts(D, j, k)
  PROVE  i = j
<1>1. ASSUME NEW x, NEW y, Starts(D, x, k), Starts(D, y, k) PROVE ~ (x < y)
  <2>1. x \in 1..k /\ y \in 1..k /\ In(D, y - 1) = {} /\ \A z \in x..k : In(D, z) # {}
    BY <1>1 DEF Starts
  <2>2. x < y => y - 1 \in x..k
    BY <2>1
  <2>3. QED
    BY <2>1, <2>2
<1>2. i \in 1..k /\ j \in 1..k
  BY DEF Starts
<1>3. i \in Int /\ j \in Int
  BY <1>2
<1>4. QED
  BY <1>1, <1>3

LEMMA RunFacts ==
  ASSUME NEW B \in Nat, NEW D \in SUBSET (1..B), NEW k \in Nat, In(D, k) # {}
  PROVE  Starts(D, RunStart(D, k), k)
<1> DEFINE Gaps == {i \in 0..k : In(D, i) = {}}
           S == {j \in 1..k : In(D, j) # {} /\ In(D, j - 1) = {} /\ \A i \in j..k : In(D, i) # {}}
<1>1. In(D, 0) = {} /\ Gaps \in SUBSET (0..k) /\ 0 \in Gaps
  BY NoBarZero
<1>2. PICK g \in Gaps : \A i \in Gaps : i <= g
  BY <1>1, MaxFacts
<1>3. g \in Nat /\ g < k
  <2>1. g \in 0..k /\ g # k
    BY <1>1, <1>2
  <2>2. QED
    BY <2>1
<1>4. g + 1 \in 1..k /\ (g + 1) - 1 = g /\ In(D, g) = {} /\ \A i \in g + 1..k : i \in 0..k /\ ~ (i <= g)
  BY <1>2, <1>3
<1>5. \A i \in g + 1..k : In(D, i) # {}
  BY <1>2, <1>4
<1>6. g + 1 \in g + 1..k
  BY <1>3
<1>7. g + 1 \in S
  BY <1>4, <1>5, <1>6
<1>8. S \in SUBSET (0..k) /\ S # {}
  <2>1. \A x \in S : x \in 0..k
    OBVIOUS
  <2> HIDE DEF S
  <2>2. QED
    BY <1>7, <2>1
<1>9. Max(S) \in S
  BY <1>8, MaxFacts
<1>10. RunStart(D, k) = Max(S)
  BY DEF RunStart
<1>11. RunStart(D, k) \in S
  BY <1>9, <1>10
<1>12. QED
  BY <1>11 DEF Starts

(* The average goes on from the previous bar's. *)
LEMMA RunStep ==
  ASSUME NEW B \in Nat, NEW D \in SUBSET (1..B), NEW k \in Nat, In(D, k) # {}
  PROVE  RunStart(D, k) = IF In(D, k - 1) = {} THEN k ELSE RunStart(D, k - 1)
<1>1. Starts(D, RunStart(D, k), k)
  BY RunFacts
<1>2. 1 <= k
  BY NoBarZero
<1>3. CASE In(D, k - 1) = {}
  <2>1. Starts(D, k, k)
    <3>1. k \in 1..k /\ \A i \in k..k : i = k
      BY <1>2
    <3>2. QED
      BY <1>3, <3>1 DEF Starts
  <2>2. QED
    BY <1>1, <1>3, <2>1, StartsOnce
<1>4. CASE In(D, k - 1) # {}
  <2>1. k - 1 \in Nat
    BY <1>2
  <2> DEFINE f == RunStart(D, k - 1)
  <2>2. f \in 1..k - 1 /\ In(D, f - 1) = {} /\ \A i \in f..k - 1 : In(D, i) # {}
    BY <1>4, <2>1, RunFacts DEF Starts
  <2> HIDE DEF f
  <2>3. f \in 1..k /\ \A i \in f..k : i \in f..k - 1 \/ i = k
    BY <1>2, <2>2
  <2>4. Starts(D, f, k)
    BY <2>2, <2>3 DEF Starts
  <2>5. QED
    BY <1>1, <1>4, <2>4, StartsOnce DEF f
<1>5. QED
  BY <1>3, <1>4

LEMMA SameSeq ==
  ASSUME NEW S, NEW s \in Seq(S), NEW t \in Seq(S), Len(s) = Len(t), \A i \in 1..Len(s) : s[i] = t[i]
  PROVE  s = t
OBVIOUS

Continued(st, k) ==
  Append(IF In(DOMAIN st, k - 1) = {} THEN <<>> ELSE Averaged(st, k - 1), LastTick(st, k))

AverageFrom(a, from, st, k, T) ==
  /\ a \in Seq(T) /\ Len(a) = k - from + 1
  /\ \A i \in 1..k - from + 1 : a[i] = LastTick(st, from + i - 1)

LEMMA AveragedTyped ==
  ASSUME NEW T, NEW B \in Nat, NEW st, IsTicks(st, T, B), NEW k \in Nat, In(DOMAIN st, k) # {}
  PROVE  AverageFrom(Averaged(st, k), RunStart(DOMAIN st, k), st, k, T)
<1> DEFINE f == RunStart(DOMAIN st, k)
           n == k - f + 1
<1>1. DOMAIN st \in SUBSET (1..B) /\ \A m \in DOMAIN st : st[m] \in T
  BY DEF IsTicks
<1>2. f \in 1..k /\ \A i \in f..k : In(DOMAIN st, i) # {}
  BY <1>1, RunFacts DEF Starts
<1> HIDE DEF f
<1>3. n \in Nat /\ \A i \in 1..n : f + i - 1 \in f..k
  BY <1>2
<1>4. \A j \in f..k : LastTick(st, j) \in T
  BY <1>2, <1>1, InFacts DEF LastTick
<1>5. Averaged(st, k) = [i \in 1..n |-> LastTick(st, f + i - 1)]
  BY DEF Averaged, f
<1>6. \A i \in 1..n : LastTick(st, f + i - 1) \in T
  BY <1>3, <1>4
<1> HIDE DEF n
<1>7. Averaged(st, k) \in [1..n -> T]
  BY <1>5, <1>6
<1>8. Averaged(st, k) \in Seq(T) /\ Len(Averaged(st, k)) = n
  BY <1>3, <1>7
<1>9. QED
  BY <1>5, <1>8 DEF n, f, AverageFrom

LEMMA AveragedStep ==
  ASSUME NEW T, NEW B \in Nat, NEW st, IsTicks(st, T, B), NEW k \in Nat, In(DOMAIN st, k) # {}
  PROVE  Averaged(st, k) = Continued(st, k)
<1> DEFINE D == DOMAIN st
           f == RunStart(D, k)
           a == Averaged(st, k)
           e == LastTick(st, k)
           p == IF In(D, k - 1) = {} THEN <<>> ELSE Averaged(st, k - 1)
           c == Append(p, e)
<1>1. D \in SUBSET (1..B) /\ 1 <= k
  <2>1. D \in SUBSET (1..B)
    BY DEF IsTicks
  <2>2. 1 <= k
    BY <2>1, InFacts
  <2>3. QED
    BY <2>1, <2>2
<1>2. a \in Seq(T) /\ Len(a) = k - f + 1 /\ \A i \in 1..k - f + 1 : a[i] = LastTick(st, f + i - 1)
  <2>1. AverageFrom(a, f, st, k, T)
    BY AveragedTyped
  <2>2. QED
    BY <2>1 DEF AverageFrom
<1>3. f \in 1..k
  BY <1>1, RunFacts DEF Starts
<1>4. e \in T
  BY <1>1, InFacts DEF LastTick, IsTicks
<1>5. p \in Seq(T) /\ Len(p) = k - f /\ \A i \in 1..k - f : p[i] = LastTick(st, f + i - 1)
  <2>1. CASE In(D, k - 1) = {}
    <3>1. f = k
      BY <1>1, <2>1, RunStep
    <3>2. p = <<>> /\ k - f = 0
      BY <1>1, <2>1, <3>1
    <3> HIDE DEF p, f
    <3>3. QED
      BY <3>2
  <2>2. CASE In(D, k - 1) # {}
    <3>1. f = RunStart(D, k - 1) /\ k - 1 \in Nat
      <4>1. f = RunStart(D, k - 1)
        BY <1>1, <2>2, RunStep
      <4>2. QED
        BY <1>1, <4>1
    <3>2. p = Averaged(st, k - 1)
      BY <2>2
    <3>3. AverageFrom(Averaged(st, k - 1), f, st, k - 1, T)
      BY <2>2, <3>1, AveragedTyped
    <3> HIDE DEF p, f
    <3>4. (k - 1) - f + 1 = k - f
      BY <1>3
    <3>5. QED
      BY <3>2, <3>3, <3>4 DEF AverageFrom
  <2>3. QED
    BY <2>1, <2>2
<1> HIDE DEF f, a, p
<1>6. /\ c \in Seq(T) /\ Len(c) = Len(p) + 1 /\ c[Len(p) + 1] = e
      /\ \A i \in 1..Len(p) : c[i] = p[i]
  BY <1>4, <1>5, AppendProperties
<1> HIDE DEF c
<1>7. Len(c) = k - f + 1 /\ Len(c) = Len(a)
  BY <1>2, <1>3, <1>5, <1>6
<1>8. ASSUME NEW i \in 1..Len(a) PROVE a[i] = c[i]
  <2>1. i \in 1..k - f + 1 /\ (i \in 1..k - f \/ i = k - f + 1)
    BY <1>2, <1>3
  <2>2. CASE i \in 1..k - f
    BY <1>2, <1>5, <1>6, <2>1, <2>2
  <2>3. CASE i = k - f + 1
    <3>1. f + i - 1 = k
      BY <1>3, <2>3
    <3>2. a[i] = e
      BY <1>2, <2>1, <3>1 DEF e
    <3>3. c[i] = e
      BY <1>5, <1>6, <2>3
    <3>4. QED
      BY <3>2, <3>3
  <2>4. QED
    BY <2>1, <2>2, <2>3
<1>9. a = c
  BY <1>2, <1>6, <1>7, <1>8, SameSeq
<1>10. QED
  BY <1>9 DEF Continued, a, c, p, e, D

(* What the indicators are computed from is the same as long as the bars'    *)
(* last ticks are.                                                           *)
SameLast(st, st2, k) ==
  \A j \in Int : j <= k =>
    /\ In(DOMAIN st2, j) = In(DOMAIN st, j)
    /\ In(DOMAIN st, j) # {} => LastTick(st2, j) = LastTick(st, j)

LEMMA SameIndicators ==
  ASSUME NEW B \in Nat, NEW st, DOMAIN st \subseteq 1..B, NEW st2, DOMAIN st2 \subseteq 1..B,
         NEW k \in Nat, In(DOMAIN st, k) # {}, SameLast(st, st2, k)
  PROVE  ClosesTo(st2, k) = ClosesTo(st, k) /\ Averaged(st2, k) = Averaged(st, k)
<1> DEFINE D == DOMAIN st
           D2 == DOMAIN st2
           S == {i \in k - Period + 1..k : In(D, i) # {}}
           S2 == {i \in k - Period + 1..k : In(D2, i) # {}}
<1>1. \A j \in Int : j <= k => In(D2, j) = In(D, j) /\ (In(D, j) # {} => LastTick(st2, j) = LastTick(st, j))
  BY DEF SameLast
<1>2. Period \in Int
  BY PeriodAssumption, RetentionAssumption
<1> HIDE DEF D, D2
<1>3. S2 = S /\ \A j \in S : LastTick(st2, j) = LastTick(st, j)
  <2>1. \A i \in k - Period + 1..k : i \in Int /\ i <= k
    BY <1>2
  <2>2. QED
    BY <1>1, <2>1
<1>4. ClosesTo(st2, k) = ClosesTo(st, k)
  <2>1. ClosesTo(st, k) = {<<j, LastTick(st, j)>> : j \in S}
    BY DEF ClosesTo, D
  <2>2. ClosesTo(st2, k) = {<<j, LastTick(st2, j)>> : j \in S2}
    BY DEF ClosesTo, D2
  <2> HIDE DEF S, S2
  <2>3. QED
    BY <1>3, <2>1, <2>2
<1>5. RunStart(D2, k) = RunStart(D, k)
  <2> DEFINE R == {j \in 1..k : In(D, j) # {} /\ In(D, j - 1) = {} /\ \A i \in j..k : In(D, i) # {}}
             R2 == {j \in 1..k : In(D2, j) # {} /\ In(D2, j - 1) = {} /\ \A i \in j..k : In(D2, i) # {}}
  <2>1. ASSUME NEW j \in 1..k
        PROVE In(D2, j) = In(D, j) /\ In(D2, j - 1) = In(D, j - 1) /\ \A i \in j..k : In(D2, i) = In(D, i)
    <3>1. j \in Int /\ j <= k /\ j - 1 \in Int /\ j - 1 <= k /\ \A i \in j..k : i \in Int /\ i <= k
      OBVIOUS
    <3>2. QED
      BY <1>1, <3>1
  <2>2. R2 = R
    BY <2>1
  <2>3. QED
    BY <2>2 DEF RunStart
<1> DEFINE f == RunStart(D, k)
<1>6. f \in 1..k /\ \A i \in f..k : In(D, i) # {}
  BY RunFacts DEF Starts, D
<1> HIDE DEF f
<1>7. \A i \in 1..k - f + 1 : LastTick(st2, f + i - 1) = LastTick(st, f + i - 1)
  <2>1. \A i \in 1..k - f + 1 : f + i - 1 \in f..k /\ f + i - 1 \in Int /\ f + i - 1 <= k
    BY <1>6
  <2>2. QED
    BY <1>1, <1>6, <2>1
<1>8. Averaged(st, k) = [i \in 1..k - f + 1 |-> LastTick(st, f + i - 1)]
  BY DEF Averaged, f, D
<1>9. Averaged(st2, k) = [i \in 1..k - f + 1 |-> LastTick(st2, f + i - 1)]
  BY <1>5 DEF Averaged, f, D2
<1>10. Averaged(st2, k) = Averaged(st, k)
  BY <1>7, <1>8, <1>9
<1>11. QED
  BY <1>4, <1>10

(* st2 is st with one more tick, at block n after all the others. *)
Grown(st, n, tick, st2, B) ==
  /\ DOMAIN st \subseteq 1..B /\ n \in 1..B /\ \A m \in DOMAIN st : m < n
  /\ DOMAIN st2 = DOMAIN st \cup {n} /\ st2[n] = tick /\ \A m \in DOMAIN st : st2[m] = st[m]

LEMMA GrownFacts ==
  ASSUME NEW B \in Nat, NEW st, NEW n, NEW tick, NEW st2, Grown(st, n, tick, st2, B)
  PROVE  /\ DOMAIN st2 \subseteq 1..B /\ n \in Nat /\ Max(DOMAIN st2) = n
         /\ \A j : j # BarOf(n) => /\ In(DOMAIN st2, j) = In(DOMAIN st, j)
                                   /\ In(DOMAIN st, j) # {} => LastTick(st2, j) = LastTick(st, j)
         /\ In(DOMAIN st2, BarOf(n)) # {} /\ LastTick(st2, BarOf(n)) = tick
         /\ \A j \in Int : j > BarOf(n) => In(DOMAIN st2, j) = {}
<1> DEFINE D == DOMAIN st
           D2 == DOMAIN st2
           own == BarOf(n)
<1>1. D \subseteq 1..B /\ n \in 1..B /\ (\A m \in D : m < n) /\ D2 = D \cup {n} /\ st2[n] = tick
      /\ \A m \in D : st2[m] = st[m]
  BY DEF Grown
<1> HIDE DEF D, D2
<1>2. D2 \subseteq 1..B /\ n \in Nat /\ D2 \in SUBSET Nat /\ \A m \in D2 : m <= n
  <2>1. n \in Nat /\ n <= n /\ \A m \in 1..B : m \in Nat /\ (m < n => m <= n)
    BY <1>1
  <2>2. D2 \subseteq 1..B
    BY <1>1
  <2>3. \A m \in D2 : m \in Nat /\ m <= n
    BY <1>1, <2>1, <2>2
  <2>4. QED
    BY <2>1, <2>2, <2>3
<1>3. own \in Nat /\ \A m \in D2 : BarOf(m) <= own
  <2>1. \A m \in D2 : m \in Nat /\ m <= n
    BY <1>2
  <2>2. QED
    BY <1>2, <2>1, BarOfFacts, BarOfGrows
<1>4. Max(D2) = n
  BY <1>1, <1>2, MaxIs
<1> HIDE DEF own
<1>5. ASSUME NEW j, j # own
      PROVE In(D2, j) = In(D, j) /\ (In(D, j) # {} => LastTick(st2, j) = LastTick(st, j))
  <2>1. In(D2, j) = In(D, j)
    BY <1>1, <1>5 DEF In, own
  <2>2. ASSUME In(D, j) # {} PROVE LastTick(st2, j) = LastTick(st, j)
    <3>1. Max(In(D, j)) \in D
      BY <1>1, <2>2, InFacts
    <3>2. QED
      BY <1>1, <2>1, <3>1 DEF LastTick, D, D2
  <2>3. QED
    BY <2>1, <2>2
<1>6. In(D2, own) # {} /\ LastTick(st2, own) = tick
  <2>1. n \in In(D2, own)
    BY <1>1 DEF In, own
  <2>2. In(D2, own) \in SUBSET Nat /\ \A y \in In(D2, own) : y <= n
    BY <1>2 DEF In
  <2>3. Max(In(D2, own)) = n
    BY <2>1, <2>2, MaxIs
  <2>4. QED
    BY <1>1, <2>1, <2>3 DEF LastTick, D2
<1>7. ASSUME NEW j \in Int, j > own, NEW m \in In(D2, j) PROVE FALSE
  <2>1. m \in D2 /\ BarOf(m) = j
    BY DEF In
  <2>2. QED
    BY <1>3, <1>7, <2>1
<1>8. QED
  BY <1>2, <1>4, <1>5, <1>6, <1>7 DEF D, D2, own

(* The indicators of the bars before the new tick's stay the same. *)
LEMMA GrownIndicators ==
  ASSUME NEW B \in Nat, NEW st, NEW n, NEW tick, NEW st2, Grown(st, n, tick, st2, B),
         NEW k, In(DOMAIN st, k) # {}, k # BarOf(n)
  PROVE  ClosesTo(st2, k) = ClosesTo(st, k) /\ Averaged(st2, k) = Averaged(st, k)
<1>1. DOMAIN st \subseteq 1..B /\ n \in Nat /\ DOMAIN st2 \subseteq 1..B
  BY GrownFacts DEF Grown
<1>2. k \in Nat /\ BarOf(n) \in Nat
  BY <1>1, InFacts, BarOfFacts
<1>3. In(DOMAIN st2, k) # {}
  BY GrownFacts
<1>4. ~ (k > BarOf(n))
  BY <1>2, <1>3, GrownFacts
<1>5. \A j \in Int : j <= k => j # BarOf(n)
  BY <1>2, <1>4
<1>6. SameLast(st, st2, k)
  BY <1>5, GrownFacts DEF SameLast
<1>7. QED
  BY <1>1, <1>2, <1>6, SameIndicators

(* Padding extends what the last bar shows up to the new block. *)
LEMMA ShownPadded ==
  ASSUME NEW B \in Nat, NEW st, DOMAIN st \subseteq 1..B, DOMAIN st # {}, NEW k, NEW e \in Nat,
         Max(DOMAIN st) <= e
  PROVE  LET z == Max(DOMAIN st) IN
         ShownTo(st, k, e) = IF k = BarOf(z) THEN Over([m \in z + 1..e |-> st[z]], Shown(st, k))
                                             ELSE Shown(st, k)
<1> DEFINE D == DOMAIN st
           z == Max(D)
           t == Shown(st, k)
           u == ShownTo(st, k, e)
           ext == [m \in z + 1..e |-> st[z]]
           Into(m) == BarOf(LastTo(D, m)) = k
<1>1. D \subseteq 1..B /\ D \in SUBSET (0..B) /\ D \in SUBSET Nat /\ D # {}
  <2>1. D \subseteq 1..B /\ D # {} /\ \A m \in 1..B : m \in 0..B /\ m \in Nat
    OBVIOUS
  <2>2. QED
    BY <2>1
<1>2. z \in D /\ (\A m \in D : m <= z) /\ z \in Nat /\ z <= e
  BY <1>1, MaxFacts
<1>3. Min(D) \in D /\ Min(D) \in Nat /\ Min(D) <= z
  BY <1>1, <1>2, MinFacts
<1>4. /\ DOMAIN t = {m \in Min(D)..z : Into(m)} /\ \A m \in DOMAIN t : t[m] = st[LastTo(D, m)]
      /\ t = [m \in DOMAIN t |-> t[m]]
  BY DEF Shown, ShownTo
<1>5. /\ DOMAIN u = {m \in Min(D)..e : Into(m)} /\ \A m \in DOMAIN u : u[m] = st[LastTo(D, m)]
      /\ u = [m \in DOMAIN u |-> u[m]]
  BY DEF ShownTo
<1> HIDE DEF z, t, u, D
<1>6. ASSUME NEW m \in z + 1..e PROVE LastTo(D, m) = z
  <2>1. m \in Nat /\ z <= m /\ \A y \in D : y <= m => y <= z
    BY <1>2
  <2>2. D \in SUBSET (1..B)
    BY <1>1
  <2>3. QED
    BY <1>2, <2>1, <2>2, LastToIs
<1>7. Min(D)..e = (Min(D)..z) \cup (z + 1..e) /\ \A m \in z + 1..e : m \notin Min(D)..z
  BY <1>2, <1>3
<1>8. CASE k # BarOf(z)
  <2>1. \A m \in z + 1..e : ~ Into(m)
    BY <1>6, <1>8
  <2> HIDE DEF Into
  <2>2. DOMAIN u = DOMAIN t
    BY <1>4, <1>5, <1>7, <2>1
  <2>3. u = t
    BY <1>4, <1>5, <2>2
  <2>4. QED
    BY <1>8, <2>3 DEF u, t, z, D
<1>9. CASE k = BarOf(z)
  <2>1. \A m \in z + 1..e : Into(m)
    BY <1>6, <1>9
  <2> HIDE DEF Into
  <2>2. DOMAIN u = DOMAIN t \cup (z + 1..e) /\ \A m \in DOMAIN t : m \notin z + 1..e
    BY <1>4, <1>5, <1>7, <2>1
  <2> DEFINE v == Over(ext, t)
  <2>3. DOMAIN ext = z + 1..e /\ \A m \in z + 1..e : ext[m] = st[z]
    OBVIOUS
  <2> HIDE DEF ext
  <2>4. /\ v = [m \in DOMAIN v |-> v[m]] /\ DOMAIN v = (z + 1..e) \cup DOMAIN t
        /\ \A m \in DOMAIN v : v[m] = IF m \in z + 1..e THEN ext[m] ELSE t[m]
    BY <2>3 DEF Over
  <2> HIDE DEF v
  <2>5. ASSUME NEW m \in DOMAIN u PROVE u[m] = v[m]
    <3>1. CASE m \in z + 1..e
      BY <1>5, <1>6, <2>2, <2>3, <2>4, <3>1
    <3>2. CASE m \notin z + 1..e
      BY <1>4, <1>5, <2>2, <2>4, <3>2
    <3>3. QED
      BY <3>1, <3>2
  <2>6. DOMAIN u = DOMAIN v
    BY <2>2, <2>4
  <2>7. u = v
    BY <1>5, <2>4, <2>5, <2>6
  <2>8. QED
    BY <1>9, <2>7 DEF u, v, t, ext, z, D
<1>10. QED
  BY <1>8, <1>9

(* The new tick is shown in its own bar, and all else as before. *)
Single(n, tick) == [m \in {n} |-> tick]

LEMMA ShownGrown ==
  ASSUME NEW B \in Nat, NEW st, NEW n, NEW tick, NEW st2, Grown(st, n, tick, st2, B), DOMAIN st # {},
         NEW k
  PROVE  /\ k = BarOf(n) => Shown(st2, k) = Over(Single(n, tick), ShownTo(st, k, n - 1))
         /\ k # BarOf(n) => Shown(st2, k) = ShownTo(st, k, n - 1)
<1> DEFINE D == DOMAIN st
           D2 == DOMAIN st2
           t == ShownTo(st, k, n - 1)
           u == Shown(st2, k)
           ext == Single(n, tick)
           Into(m) == BarOf(LastTo(D, m)) = k
           Into2(m) == BarOf(LastTo(D2, m)) = k
<1>1. /\ D \subseteq 1..B /\ n \in 1..B /\ (\A m \in D : m < n) /\ D2 = D \cup {n} /\ st2[n] = tick
      /\ (\A m \in D : st2[m] = st[m]) /\ D # {} /\ D2 \subseteq 1..B /\ n \in Nat /\ Max(D2) = n
  <2>1. D2 \subseteq 1..B /\ n \in Nat /\ Max(D2) = n
    BY GrownFacts
  <2>2. QED
    BY <2>1 DEF Grown
<1>2. D \in SUBSET Nat /\ D2 \in SUBSET Nat
  <2>1. \A m \in 1..B : m \in Nat
    OBVIOUS
  <2>2. QED
    BY <1>1, <2>1
<1>3. Min(D) \in D /\ Min(D) \in Nat /\ Min(D) < n /\ \A m \in D : Min(D) <= m
  BY <1>1, <1>2, MinFacts
<1>4. Min(D2) = Min(D)
  <2>1. Min(D2) \in D2 /\ \A m \in D2 : Min(D2) <= m
    BY <1>1, <1>2, MinFacts
  <2>2. Min(D2) # n /\ Min(D2) <= Min(D) /\ Min(D2) \in Nat
    BY <1>1, <1>2, <1>3, <2>1
  <2>3. Min(D) <= Min(D2)
    BY <1>1, <1>3, <2>1, <2>2
  <2>4. QED
    BY <1>3, <2>2, <2>3
<1>5. /\ DOMAIN t = {m \in Min(D)..n - 1 : Into(m)} /\ \A m \in DOMAIN t : t[m] = st[LastTo(D, m)]
      /\ t = [m \in DOMAIN t |-> t[m]]
  BY DEF ShownTo
<1>6. /\ DOMAIN u = {m \in Min(D)..n : Into2(m)} /\ \A m \in DOMAIN u : u[m] = st2[LastTo(D2, m)]
      /\ u = [m \in DOMAIN u |-> u[m]]
  BY <1>1, <1>4 DEF Shown, ShownTo
<1> HIDE DEF D, D2, t, u
<1>7. ASSUME NEW m \in Min(D)..n - 1 PROVE LastTo(D2, m) = LastTo(D, m) /\ LastTo(D, m) \in D
  <2>1. m \in Nat /\ Min(D) <= m /\ m < n /\ D \in SUBSET (1..B) /\ D2 \in SUBSET (1..B)
    BY <1>1, <1>3
  <2>2. LastTo(D, m) \in D /\ LastTo(D, m) <= m /\ \A y \in D : y <= m => y <= LastTo(D, m)
    BY <1>3, <2>1, LastToFacts
  <2>3. \A y \in D2 : y <= m => y \in D
    BY <1>1, <2>1
  <2>4. LastTo(D2, m) = LastTo(D, m)
    BY <1>1, <2>1, <2>2, <2>3, LastToIs
  <2>5. QED
    BY <2>2, <2>4
<1>8. LastTo(D2, n) = n
  <2>1. D2 \in SUBSET (1..B) /\ n \in D2 /\ n <= n /\ \A y \in D2 : y <= n
    BY <1>1, <1>2
  <2>2. QED
    BY <1>1, <2>1, LastToIs
<1>9. Min(D)..n = (Min(D)..n - 1) \cup {n} /\ n \notin Min(D)..n - 1
  BY <1>1, <1>3
<1>10. \A m \in Min(D)..n - 1 : Into2(m) <=> Into(m)
  BY <1>7
<1>11. Into2(n) <=> k = BarOf(n)
  BY <1>8
<1> HIDE DEF Into, Into2
<1>12. \A m \in DOMAIN t : m \in DOMAIN u /\ u[m] = t[m] /\ m # n
  BY <1>1, <1>5, <1>6, <1>7, <1>9, <1>10
<1>13. CASE k # BarOf(n)
  <2>1. DOMAIN u = DOMAIN t
    BY <1>5, <1>6, <1>9, <1>10, <1>11, <1>13
  <2>2. u = t
    BY <1>5, <1>6, <1>12, <2>1
  <2>3. QED
    BY <1>13, <2>2 DEF u, t
<1>14. CASE k = BarOf(n)
  <2> DEFINE v == Over(ext, t)
  <2>1. DOMAIN u = {n} \cup DOMAIN t
    BY <1>5, <1>6, <1>9, <1>10, <1>11, <1>14
  <2>2. /\ v = [m \in DOMAIN v |-> v[m]] /\ DOMAIN v = {n} \cup DOMAIN t
        /\ \A m \in DOMAIN v : v[m] = IF m \in {n} THEN tick ELSE t[m]
    BY DEF Over, Single
  <2>3. n \in DOMAIN u /\ u[n] = tick
    BY <1>1, <1>6, <1>8, <2>1
  <2> HIDE DEF v
  <2>4. \A m \in DOMAIN u : u[m] = v[m]
    BY <1>12, <2>1, <2>2, <2>3
  <2>5. u = v
    BY <1>6, <2>1, <2>2, <2>4
  <2>6. QED
    BY <1>14, <2>5 DEF u, v, t
<1>15. QED
  BY <1>13, <1>14

(* The first tick is all that its bar shows. *)
LEMMA ShownFirst ==
  ASSUME NEW B \in Nat, NEW st, NEW n, NEW tick, NEW st2, Grown(st, n, tick, st2, B), DOMAIN st = {}
  PROVE  Shown(st2, BarOf(n)) = Single(n, tick)
<1>1. DOMAIN st2 = {n} /\ st2[n] = tick /\ n \in Nat /\ n \in 1..B /\ Max(DOMAIN st2) = n
  <2>1. n \in Nat /\ Max(DOMAIN st2) = n
    BY GrownFacts
  <2>2. QED
    BY <2>1 DEF Grown
<1>2. Min({n}) = n
  <2>1. {n} \in SUBSET Nat /\ {n} # {}
    BY <1>1
  <2>2. Min({n}) \in {n}
    BY <2>1, MinFacts
  <2>3. QED
    BY <2>2
<1>3. LastTo({n}, n) = n
  <2>1. {n} \in SUBSET (1..B) /\ n \in {n} /\ n <= n /\ \A y \in {n} : y <= n
    BY <1>1
  <2>2. QED
    BY <1>1, <2>1, LastToIs
<1>4. n..n = {n}
  BY <1>1
<1>5. {x \in n..n : BarOf(LastTo({n}, x)) = BarOf(n)} = {n}
  BY <1>3, <1>4
<1>6. Shown(st2, BarOf(n)) = [m \in {n} |-> st2[LastTo({n}, m)]]
  BY <1>1, <1>2, <1>5 DEF Shown, ShownTo
<1>7. \A m \in {n} : st2[LastTo({n}, m)] = tick
  BY <1>1, <1>3
<1>8. QED
  BY <1>6, <1>7 DEF Single

(* A bar that shows the ticks of st starts with the first of them in its     *)
(* time range and closes with the last.                                      *)
LEMMA ShownEnds ==
  ASSUME NEW B \in Nat, NEW st, DOMAIN st \subseteq 1..B, NEW k, In(DOMAIN st, k) # {},
         NEW e \in Nat, \A m \in DOMAIN st : m <= e, NEW bar, bar.ticks = ShownTo(st, k, e)
  PROVE  /\ DOMAIN bar.ticks # {} /\ Close(bar) = LastTick(st, k)
         /\ StartOf(bar) \in DOMAIN bar.ticks /\ bar.ticks[StartOf(bar)] = st[Min(In(DOMAIN st, k))]
<1> DEFINE t == ShownTo(st, k, e)
           first == Min(In(DOMAIN st, k))
           last == Max(In(DOMAIN st, k))
<1>1. /\ DOMAIN t \in SUBSET Nat
      /\ first \in DOMAIN t /\ t[first] = st[first] /\ \A m \in DOMAIN t : first <= m
      /\ last \in DOMAIN t /\ t[last] = st[last] /\ \A m \in DOMAIN t : last <= m => t[m] = st[last]
  BY ShownFacts
<1>2. \A m \in DOMAIN t : m \in 0..e
  <2>1. \A m \in DOMAIN t : m \in Nat /\ m <= e
    <3>1. \A m \in DOMAIN t : m \in Min(DOMAIN st)..e
      BY DEF ShownTo
    <3>2. \A m \in Min(DOMAIN st)..e : m <= e
      OBVIOUS
    <3> HIDE DEF t
    <3>3. QED
      BY <1>1, <3>1, <3>2
  <2> HIDE DEF t
  <2>2. QED
    BY <2>1
<1> HIDE DEF t, first, last
<1>3. Max(DOMAIN t) \in DOMAIN t /\ last <= Max(DOMAIN t)
  <2>1. DOMAIN t \in SUBSET (0..e) /\ DOMAIN t # {}
    BY <1>1, <1>2
  <2>2. QED
    BY <1>1, <2>1, MaxFacts
<1>4. Min(DOMAIN t) = first
  <2>1. Min(DOMAIN t) \in DOMAIN t /\ Min(DOMAIN t) <= first
    BY <1>1, MinFacts
  <2>2. QED
    BY <1>1, <2>1
<1>5. bar.ticks = t
  BY DEF t
<1>6. Close(bar) = t[Max(DOMAIN t)] /\ StartOf(bar) = Min(DOMAIN t)
  BY <1>5 DEF Close, EndOf, StartOf
<1>7. QED
  BY <1>1, <1>3, <1>4, <1>5, <1>6 DEF LastTick, last, first

(* Bars d mirror the ticks st: what every bar shows is in its ticks and its  *)
(* indicators, and the bars of the last time ranges with a tick are there.   *)
ShowsAt(bar, st, k) ==
  /\ In(DOMAIN st, k) # {} /\ bar.ticks = Shown(st, k)
  /\ bar.ind.closes = ClosesTo(st, k) /\ bar.ind.ema = Averaged(st, k)

Recent(d, st) ==
  \A j \in Int : /\ In(DOMAIN st, j) # {}
                 /\ j > BarOf(Max(DOMAIN st)) - Retention \/ \E k \in DOMAIN d : k < j
                 => j \in DOMAIN d

Mirror(d, st) == Recent(d, st) /\ \A k \in DOMAIN d : ShowsAt(d[k], st, k)

(* They end with the last tick, in its bar. *)
MirrorEnds(d, st, z, B) ==
  /\ DOMAIN d = {} <=> DOMAIN st = {}
  /\ \A k \in DOMAIN d : Close(d[k]) = LastTick(st, k)
  /\ DOMAIN st # {} =>
       /\ z \in DOMAIN st /\ z \in 1..B /\ \A m \in DOMAIN st : m <= z
       /\ Max(DOMAIN d) = BarOf(z) /\ BarOf(z) \in DOMAIN d /\ PadFrom(d) = z
       /\ \A k \in Int : In(DOMAIN st, k) # {} => k <= BarOf(z)

LEMMA MirrorFacts ==
  ASSUME NEW T, NEW B \in Nat, NEW st, IsTicks(st, T, B), NEW d, IsData(d, T, B), Mirror(d, st)
  PROVE  MirrorEnds(d, st, Max(DOMAIN st), B)
<1> DEFINE D == DOMAIN st
           z == Max(D)
<1>1. D \subseteq 1..B /\ D \in SUBSET (0..B) /\ D \in SUBSET (1..B)
  <2>1. D \subseteq 1..B /\ \A m \in 1..B : m \in 0..B
    BY DEF IsTicks
  <2>2. QED
    BY <2>1
<1>2. ASSUME D # {} PROVE z \in D /\ z \in 1..B /\ z \in Nat /\ \A m \in D : m <= z
  <2>1. z \in D /\ \A m \in D : m <= z
    BY <1>1, <1>2, MaxFacts
  <2> HIDE DEF z
  <2>2. z \in 1..B
    BY <1>1, <2>1
  <2>3. QED
    BY <2>1, <2>2
<1>3. \A k \in DOMAIN d : In(D, k) # {} /\ d[k].ticks = Shown(st, k)
  BY DEF Mirror, ShowsAt
<1>4. ASSUME NEW k \in DOMAIN d PROVE D # {} /\ Close(d[k]) = LastTick(st, k)
  <2>1. In(D, k) # {} /\ D # {} /\ d[k].ticks = ShownTo(st, k, z)
    BY <1>3 DEF In, Shown
  <2>2. QED
    BY <1>1, <1>2, <2>1, ShownEnds
<1>5. ASSUME D # {}, NEW k, In(D, k) # {} PROVE k \in Nat /\ k <= BarOf(z)
  <2>1. PICK m \in D : BarOf(m) = k
    BY <1>5 DEF In
  <2>2. m \in Nat /\ m <= z /\ z \in Nat
    BY <1>1, <1>2, <1>5
  <2>3. QED
    BY <2>1, <2>2, BarOfFacts, BarOfGrows
<1>6. ASSUME D # {}
      PROVE  BarOf(z) \in DOMAIN d /\ BarOf(z) \in Nat /\ In(D, BarOf(z)) # {}
  <2>1. BarOf(z) \in Nat
    BY <1>2, <1>6, BarOfFacts
  <2>2. BarOf(z) \in Int /\ BarOf(z) > BarOf(z) - Retention
    BY <2>1, RetentionAssumption
  <2>3. In(D, BarOf(z)) # {}
    BY <1>2, <1>6 DEF In
  <2>4. QED
    BY <2>1, <2>2, <2>3 DEF Mirror, Recent
<1>7. ASSUME D # {} PROVE Max(DOMAIN d) = BarOf(z)
  <2>1. DOMAIN d \in SUBSET Nat /\ \A k \in DOMAIN d : k <= BarOf(z)
    BY <1>3, <1>5, <1>7
  <2>2. QED
    BY <1>6, <1>7, <2>1, MaxIs
<1>8. ASSUME D # {} PROVE PadFrom(d) = z
  <2> DEFINE t == Shown(st, BarOf(z))
  <2>1. PadFrom(d) = Max(DOMAIN t)
    BY <1>3, <1>6, <1>7, <1>8 DEF PadFrom, EndOf
  <2>2. LastTo(D, z) = z
    BY <1>1, <1>2, <1>8, LastToIs
  <2>3. Min(D) \in D /\ Min(D) \in Nat /\ Min(D) <= z
    <3>1. D \in SUBSET Nat
      <4>1. \A m \in 1..B : m \in Nat
        OBVIOUS
      <4>2. QED
        BY <1>1, <4>1
    <3>2. QED
      BY <1>2, <1>8, <3>1, MinFacts
  <2>4. DOMAIN t = {m \in Min(D)..z : BarOf(LastTo(D, m)) = BarOf(z)}
    BY DEF Shown, ShownTo
  <2>5. z \in DOMAIN t /\ DOMAIN t \in SUBSET Nat /\ \A m \in DOMAIN t : m <= z
    <3>1. z \in Min(D)..z /\ \A m \in Min(D)..z : m \in Nat /\ m <= z
      BY <1>2, <1>8, <2>3
    <3> HIDE DEF t, z
    <3>2. QED
      BY <2>2, <2>4, <3>1
  <2> HIDE DEF t
  <2>6. QED
    BY <2>1, <2>5, MaxIs
<1>9. QED
  <2> HIDE DEF D, z
  <2>1. DOMAIN d = {} <=> D = {}
    BY <1>4, <1>6
  <2>2. \A k \in DOMAIN d : Close(d[k]) = LastTick(st, k)
    BY <1>4
  <2>3. ASSUME D # {}
        PROVE  /\ z \in D /\ z \in 1..B /\ \A m \in D : m <= z
               /\ Max(DOMAIN d) = BarOf(z) /\ BarOf(z) \in DOMAIN d /\ PadFrom(d) = z
               /\ \A k \in Int : In(D, k) # {} => k <= BarOf(z)
    BY <1>2, <1>5, <1>6, <1>7, <1>8, <2>3
  <2>4. QED
    BY <2>1, <2>2, <2>3 DEF MirrorEnds, D, z

(* Indicators that are computed again are those of the ticks, if the period's *)
(* bars are there and the previous bar has its own.                          *)
Current(d, r, k, st, T, B) ==
  /\ IsData(r, T, B) /\ SameTicks(d, r) /\ \A j \in DOMAIN d : j # k => r[j] = d[j]
  /\ ShowsAt(r[k], st, k)

LEMMA UpdateShows ==
  ASSUME NEW T, NEW B \in Nat, NEW st, IsTicks(st, T, B), NEW d, IsData(d, T, B), NEW k \in DOMAIN d,
         \A j \in DOMAIN d : In(DOMAIN st, j) # {} /\ d[j].ticks = Shown(st, j),
         \A j \in Int : k - Period < j /\ j <= k /\ In(DOMAIN st, j) # {} => j \in DOMAIN d,
         In(DOMAIN st, k - 1) # {} => k - 1 \in DOMAIN d,
         k - 1 \in DOMAIN d => d[k - 1].ind.closes = ClosesTo(st, k - 1) /\ d[k - 1].ind.ema = Averaged(st, k - 1)
  PROVE  Current(d, UpdateIndicators(d, k), k, st, T, B)
<1> DEFINE D == DOMAIN st
           r == UpdateIndicators(d, k)
           ind == Compute(d, k)
           before == IF k - 1 \notin DOMAIN d THEN <<>>
                     ELSE IF d[k - 1].ind = NoIndicators THEN <<Close(d[k - 1])>>
                     ELSE d[k - 1].ind.ema
<1>1. /\ D \subseteq 1..B /\ D \in SUBSET (1..B) /\ (\A m \in D : st[m] \in T)
      /\ k \in Nat /\ Period \in Int /\ Period \in Nat /\ 1 <= Period /\ DOMAIN d \subseteq 0..B + 1
  BY PeriodAssumption, RetentionAssumption DEF IsTicks, IsData
<1>2. ASSUME NEW j \in DOMAIN d PROVE DOMAIN d[j].ticks # {} /\ Close(d[j]) = LastTick(st, j)
  <2>1. In(D, j) # {} /\ d[j].ticks = ShownTo(st, j, Max(D)) /\ D # {}
    BY DEF Shown, In
  <2>2. Max(D) \in Nat /\ \A m \in D : m <= Max(D)
    <3>1. D \in SUBSET (0..B)
      <4>1. \A m \in 1..B : m \in 0..B
        OBVIOUS
      <4>2. QED
        BY <1>1, <4>1
    <3>2. Max(D) \in 0..B /\ \A m \in D : m <= Max(D)
      BY <2>1, <3>1, MaxFacts
    <3> HIDE DEF D
    <3>3. QED
      BY <3>2
  <2>3. QED
    BY <1>1, <2>1, <2>2, ShownEnds
<1>3. k - 1 \in DOMAIN d => d[k - 1].ind.ema # <<>> /\ d[k - 1].ind # NoIndicators
  <2>1. ASSUME k - 1 \in DOMAIN d PROVE d[k - 1].ind.closes # {} /\ d[k - 1].ind.ema # <<>>
    <3>1. In(D, k - 1) # {} /\ k - 1 \in Nat
      BY <1>1, <2>1
    <3>2. k - 1 \in (k - 1) - Period + 1..k - 1
      BY <1>1
    <3>3. <<k - 1, LastTick(st, k - 1)>> \in ClosesTo(st, k - 1)
      BY <3>1, <3>2 DEF ClosesTo
    <3>4. Averaged(st, k - 1) # <<>>
      <4>1. RunStart(D, k - 1) \in 1..k - 1
        BY <1>1, <3>1, RunFacts DEF Starts
      <4>2. Len(Averaged(st, k - 1)) = (k - 1) - RunStart(D, k - 1) + 1
        <5>1. AverageFrom(Averaged(st, k - 1), RunStart(D, k - 1), st, k - 1, T)
          BY <3>1, AveragedTyped
        <5>2. QED
          BY <5>1 DEF AverageFrom
      <4>3. Len(Averaged(st, k - 1)) # 0
        BY <1>1, <4>1, <4>2
      <4>4. QED
        BY <4>3
    <3>5. QED
      BY <2>1, <3>3, <3>4
  <2>2. NoIndicators.closes = {}
    BY DEF NoIndicators
  <2>3. QED
    BY <2>1, <2>2
<1>4. Updated(d, k, r, T, B)
  BY <1>2, <1>3, UpdateFacts
<1>5. /\ IsData(r, T, B) /\ SameTicks(d, r) /\ \A j \in DOMAIN d : j # k => r[j] = d[j]
      /\ r[k].ind = ind
  <2>1. r[k].ind = ind
    <3>1. r = [d EXCEPT ![k].ind = ind]
      BY DEF UpdateIndicators
    <3>2. d[k] = [final |-> d[k].final, ticks |-> d[k].ticks, ind |-> d[k].ind]
      BY DEF IsData, IsBarOf
    <3> HIDE DEF r, ind
    <3>3. r[k] = [d[k] EXCEPT !.ind = ind]
      BY <3>1
    <3>4. [d[k] EXCEPT !.ind = ind].ind = ind
      BY <3>2
    <3>5. QED
      BY <3>3, <3>4
  <2>2. QED
    BY <1>4, <2>1 DEF Updated
<1>6. /\ ind.closes = {<<j, Close(d[j])>> : j \in WindowOf(d, k)}
      /\ ind.ema = Append(before, Close(d[k]))
  BY DEF Compute
<1>7. before = IF In(D, k - 1) = {} THEN <<>> ELSE Averaged(st, k - 1)
  <2>1. k - 1 \in DOMAIN d <=> In(D, k - 1) # {}
    OBVIOUS
  <2>2. QED
    BY <1>3, <2>1
<1> HIDE DEF r, ind, before
<1>8. ind.ema = Averaged(st, k)
  <2>1. In(D, k) # {} /\ Close(d[k]) = LastTick(st, k)
    BY <1>2
  <2>2. Averaged(st, k) = Continued(st, k)
    BY <1>1, <2>1, AveragedStep
  <2>3. QED
    BY <1>6, <1>7, <2>1, <2>2 DEF Continued
<1>9. ind.closes = ClosesTo(st, k)
  <2> DEFINE S == {i \in k - Period + 1..k : In(D, i) # {}}
  <2>1. \A j \in Int : j \in k - Period + 1..k <=> k - Period < j /\ j <= k
    BY <1>1
  <2>2. \A j \in S : j \in WindowOf(d, k)
    BY <2>1 DEF WindowOf
  <2>3. \A j \in WindowOf(d, k) : j \in S
    <3>1. \A j \in DOMAIN d : j \in Int
      BY <1>1
    <3>2. QED
      BY <2>1, <3>1 DEF WindowOf
  <2>4. WindowOf(d, k) = S /\ \A j \in S : j \in DOMAIN d
    <3>1. WindowOf(d, k) = S
      BY <2>2, <2>3
    <3>2. QED
      BY <3>1 DEF WindowOf
  <2>5. ClosesTo(st, k) = {<<j, LastTick(st, j)>> : j \in S}
    BY DEF ClosesTo
  <2> HIDE DEF S
  <2>6. QED
    BY <1>2, <1>6, <2>4, <2>5
<1>10. ShowsAt(r[k], st, k)
  BY <1>5, <1>8, <1>9 DEF ShowsAt, SameTicks
<1>11. QED
  BY <1>5, <1>10 DEF Current, r

(* The two bars that an insertion changes show what they should again. *)
MirrorsAll(d, r, st, T, B) ==
  /\ IsData(r, T, B) /\ SameTicks(d, r) /\ \A k \in DOMAIN d : ShowsAt(r[k], st, k)

LEMMA RefreshShows ==
  ASSUME NEW T, NEW B \in Nat, NEW st, IsTicks(st, T, B), NEW d, IsData(d, T, B),
         NEW padded \in DOMAIN d, NEW own \in DOMAIN d, padded <= own,
         \A j \in DOMAIN d : In(DOMAIN st, j) # {} /\ d[j].ticks = Shown(st, j),
         \A j \in DOMAIN d : j # padded /\ j # own => j < padded /\ ShowsAt(d[j], st, j),
         \A j \in Int : (padded - Period < j \/ j = padded - 1) /\ In(DOMAIN st, j) # {} => j \in DOMAIN d
  PROVE  MirrorsAll(d, Refresh(d, padded, own), st, T, B)
<1> DEFINE x == UpdateIndicators(d, padded)
           y == UpdateIndicators(x, own)
<1>1. /\ \A j \in DOMAIN d : j \in Nat
      /\ padded \in Nat /\ own \in Nat /\ Period \in Nat /\ 1 <= Period
  BY PeriodAssumption, RetentionAssumption DEF IsData
<1>2. ASSUME padded - 1 \in DOMAIN d PROVE ShowsAt(d[padded - 1], st, padded - 1)
  <2>1. padded - 1 # padded /\ padded - 1 # own
    BY <1>1
  <2>2. QED
    BY <1>2, <2>1
<1>3. \A j \in Int : padded - Period < j /\ j <= padded /\ In(DOMAIN st, j) # {} => j \in DOMAIN d
  OBVIOUS
<1>4. In(DOMAIN st, padded - 1) # {} => padded - 1 \in DOMAIN d
  BY <1>1
<1>5. Current(d, x, padded, st, T, B)
  <2>1. padded - 1 \in DOMAIN d => /\ d[padded - 1].ind.closes = ClosesTo(st, padded - 1)
                                   /\ d[padded - 1].ind.ema = Averaged(st, padded - 1)
    BY <1>2 DEF ShowsAt
  <2> HIDE DEF x
  <2>2. QED
    BY <1>3, <1>4, <2>1, UpdateShows DEF x
<1> HIDE DEF x
<1>6. /\ IsData(x, T, B) /\ DOMAIN x = DOMAIN d /\ (\A j \in DOMAIN d : x[j].ticks = d[j].ticks)
      /\ (\A j \in DOMAIN d : j # padded => x[j] = d[j]) /\ ShowsAt(x[padded], st, padded)
  BY <1>5 DEF Current, SameTicks
<1>7. \A j \in DOMAIN x : j # own => ShowsAt(x[j], st, j)
  BY <1>6
<1>8. own - 1 \in DOMAIN x => ShowsAt(x[own - 1], st, own - 1)
  <2>1. own - 1 # own
    BY <1>1
  <2>2. QED
    BY <1>7, <2>1
<1>9. \A j \in Int : own - Period < j /\ j <= own /\ In(DOMAIN st, j) # {} => j \in DOMAIN x
  <2>1. \A j \in Int : own - Period < j => padded - Period < j
    BY <1>1
  <2>2. QED
    BY <1>6, <2>1
<1>10. In(DOMAIN st, own - 1) # {} => own - 1 \in DOMAIN x
  <2>1. own - 1 \in Int /\ (padded - Period < own - 1 \/ own - 1 = padded - 1)
    BY <1>1
  <2>2. QED
    BY <1>6, <2>1
<1>11. Current(x, y, own, st, T, B)
  <2>1. own - 1 \in DOMAIN x => /\ x[own - 1].ind.closes = ClosesTo(st, own - 1)
                                /\ x[own - 1].ind.ema = Averaged(st, own - 1)
    BY <1>8 DEF ShowsAt
  <2>2. \A j \in DOMAIN x : In(DOMAIN st, j) # {} /\ x[j].ticks = Shown(st, j)
    BY <1>6
  <2>3. own \in DOMAIN x
    BY <1>6
  <2> HIDE DEF y
  <2>4. QED
    BY <1>6, <1>9, <1>10, <2>1, <2>2, <2>3, UpdateShows DEF y
<1> HIDE DEF y
<1>12. /\ IsData(y, T, B) /\ DOMAIN y = DOMAIN x /\ (\A j \in DOMAIN x : y[j].ticks = x[j].ticks)
       /\ (\A j \in DOMAIN x : j # own => y[j] = x[j]) /\ ShowsAt(y[own], st, own)
  BY <1>11 DEF Current, SameTicks
<1>13. SameTicks(d, y) /\ \A k \in DOMAIN d : ShowsAt(y[k], st, k)
  BY <1>6, <1>7, <1>12 DEF SameTicks
<1>14. Refresh(d, padded, own) = y
  BY DEF Refresh, x, y
<1>15. QED
  BY <1>12, <1>13, <1>14 DEF MirrorsAll

(* Padding and the new tick give the bars the ticks they should show. *)
TicksShown(p, d, st, n, padded, T, B) ==
  /\ IsData(p, T, B) /\ DOMAIN p = DOMAIN d
  /\ \A k \in DOMAIN d : p[k].ticks = ShownTo(st, k, n - 1) /\ (k # padded => p[k] = d[k])

LEMMA PadShows ==
  ASSUME NEW T, NEW B \in Nat, NEW n \in 1..B, NEW b, Extendable(b, n, T, B),
         NEW st, IsTicks(st, T, B), Mirror(b.data, st), DOMAIN st # {}
  PROVE  TicksShown(Pad(b.data, n), b.data, st, n, PaddedBar(b.data, n), T, B)
<1> DEFINE d == b.data
           z == Max(DOMAIN st)
           p == Pad(d, n)
           q == BarOf(z)
           padded == PaddedBar(d, n)
           ticks == [m \in Missing(d, n) |-> Close(d[Max(DOMAIN d)])]
<1>1. /\ IsData(d, T, B) /\ IsData(p, T, B) /\ n \in Nat /\ n \in 1..B /\ FinalUpTo(b)
      /\ \A j \in DOMAIN p : j # padded => p[j] = d[j]
  <2>1. IsData(d, T, B) /\ FinalUpTo(b)
    BY DEF Extendable, IsBars
  <2>2. IsData(p, T, B) /\ \A j \in DOMAIN p : j # padded => p[j] = d[j]
    BY PadFacts DEF PaddedTo
  <2>3. QED
    BY <2>1, <2>2
<1>2. /\ z \in DOMAIN st /\ z \in 1..B /\ z \in Nat /\ (\A m \in DOMAIN st : m <= z)
      /\ Max(DOMAIN d) = q /\ q \in DOMAIN d /\ PadFrom(d) = z /\ Close(d[q]) = LastTick(st, q)
  <2>1. MirrorEnds(d, st, z, B)
    BY <1>1, MirrorFacts
  <2>2. \A m \in 1..B : m \in Nat
    OBVIOUS
  <2> HIDE DEF d, z
  <2>3. QED
    BY <2>1, <2>2 DEF MirrorEnds
<1>3. \A k \in DOMAIN d : d[k].ticks = Shown(st, k)
  BY DEF Mirror, ShowsAt
<1>4. z <= n - 1 /\ ~ d[q].final /\ d # <<>>
  <2>1. PadFrom(d) < n /\ b.lastFinalized < q /\ b.lastFinalized \in Int
    BY <1>2 DEF Extendable, IsBars, NoBar
  <2>2. q \in Nat
    BY <1>2, BarOfFacts
  <2>3. d[q].final <=> q <= b.lastFinalized
    BY <1>1, <1>2 DEF FinalUpTo
  <2>4. z <= n - 1
    BY <1>1, <1>2, <2>1
  <2>5. ~ d[q].final
    BY <2>1, <2>2, <2>3
  <2>6. d # <<>>
    BY <1>2
  <2>7. QED
    BY <2>4, <2>5, <2>6
<1>5. Missing(d, n) = z + 1..n - 1 /\ PadBar(d) = q /\ EntryAt(d, q) = d[q]
  BY <1>2, <1>4 DEF Missing, PadBar, EntryAt
<1>6. DOMAIN st \subseteq 1..B /\ n - 1 \in Nat
  BY <1>1 DEF IsTicks
<1>7. LastTick(st, q) = st[z]
  <2>1. z \in In(DOMAIN st, q) /\ In(DOMAIN st, q) \in SUBSET Nat /\ \A m \in In(DOMAIN st, q) : m <= z
    <3>1. \A m \in 1..B : m \in Nat
      OBVIOUS
    <3>2. QED
      BY <1>2, <1>6, <3>1 DEF In
  <2>2. Max(In(DOMAIN st, q)) = z
    BY <2>1, MaxIs
  <2>3. QED
    BY <2>2 DEF LastTick
<1>8. \A k : ShownTo(st, k, n - 1) = IF k = q THEN Over([m \in z + 1..n - 1 |-> st[z]], Shown(st, k))
                                              ELSE Shown(st, k)
  BY <1>4, <1>6, ShownPadded
<1>9. CASE z + 1..n - 1 = {}
  <2>1. p = d
    BY <1>5, <1>9 DEF Pad, Padding
  <2>2. z = n - 1
    <3>1. z < n - 1 => n - 1 \in z + 1..n - 1
      BY <1>2, <1>6
    <3>2. QED
      BY <1>2, <1>4, <1>6, <1>9, <3>1
  <2>3. \A k : ShownTo(st, k, n - 1) = Shown(st, k)
    BY <2>2 DEF Shown
  <2> HIDE DEF p, d
  <2>4. QED
    BY <1>1, <1>3, <2>1, <2>3 DEF TicksShown, p, d
<1>10. CASE z + 1..n - 1 # {}
  <2>1. p = WithTicks(d, q, ticks) /\ padded = q
    BY <1>4, <1>5, <1>10 DEF Pad, Padding, PaddedBar
  <2>2. ticks = [m \in z + 1..n - 1 |-> st[z]]
    BY <1>2, <1>5, <1>7
  <2>3. DOMAIN p = DOMAIN d /\ p[q].ticks = Over(ticks, d[q].ticks)
    BY <1>2, <1>5, <2>1 DEF WithTicks
  <2> HIDE DEF p, d, ticks
  <2>4. \A k \in DOMAIN d : p[k].ticks = ShownTo(st, k, n - 1)
    BY <1>1, <1>3, <1>8, <2>1, <2>2, <2>3
  <2>5. QED
    BY <1>1, <2>3, <2>4 DEF TicksShown, p, d
<1>11. QED
  BY <1>9, <1>10

LEMMA OverNothing ==
  ASSUME NEW f, f = [x \in DOMAIN f |-> f[x]], NEW g, DOMAIN g = {}
  PROVE  Over(f, g) = f
<1>1. DOMAIN f \cup DOMAIN g = DOMAIN f
  OBVIOUS
<1>2. QED
  BY <1>1 DEF Over

LEMMA NothingShown ==
  ASSUME NEW B \in Nat, NEW st, DOMAIN st \subseteq 1..B, DOMAIN st # {}, NEW k, In(DOMAIN st, k) = {},
         NEW e \in Nat
  PROVE  DOMAIN ShownTo(st, k, e) = {}
<1> DEFINE D == DOMAIN st
<1>1. D \in SUBSET (1..B) /\ D \in SUBSET Nat
  <2>1. \A m \in 1..B : m \in Nat
    OBVIOUS
  <2>2. QED
    BY <2>1
<1>2. Min(D) \in D /\ Min(D) \in Nat
  BY <1>1, MinFacts
<1>3. ASSUME NEW m \in Min(D)..e PROVE BarOf(LastTo(D, m)) # k
  <2>1. m \in Nat /\ Min(D) <= m
    BY <1>2
  <2>2. LastTo(D, m) \in D
    BY <1>1, <1>2, <2>1, LastToFacts
  <2>3. QED
    BY <2>2 DEF In
<1>4. QED
  BY <1>3 DEF ShownTo

(* The bars with the new tick show what they should; the indicators of the   *)
(* padded bar and of the tick's own are still to be computed.                *)
TickAdded(w, d, st2, padded, own, T, B) ==
  /\ IsData(w, T, B) /\ DOMAIN w = DOMAIN d \cup {own}
  /\ \A k \in DOMAIN w : In(DOMAIN st2, k) # {} /\ w[k].ticks = Shown(st2, k)
  /\ \A k \in DOMAIN w : k # padded /\ k # own => k < padded /\ ShowsAt(w[k], st2, k)
  /\ padded \in DOMAIN w /\ padded \in Nat /\ own \in Nat /\ padded <= own
  /\ \A k \in DOMAIN w : k <= padded \/ k = own
  /\ \A j \in Int : /\ In(DOMAIN st2, j) # {}
                    /\ j > padded - Retention \/ \E k \in DOMAIN w : k < j
                    => j \in DOMAIN w

LEMMA AddShows ==
  ASSUME NEW T, NEW B \in Nat, NEW n \in 1..B, NEW b, Extendable(b, n, T, B), NEW tick \in T,
         NEW st, IsTicks(st, T, B), Mirror(b.data, st), NEW st2, Grown(st, n, tick, st2, B)
  PROVE  TickAdded(WithTicks(Pad(b.data, n), BarOf(n), [m \in {n} |-> tick]), b.data, st2,
                   PaddedBar(b.data, n), BarOf(n), T, B)
<1> DEFINE d == b.data
           D == DOMAIN st
           D2 == DOMAIN st2
           z == Max(D)
           p == Pad(d, n)
           own == BarOf(n)
           padded == PaddedBar(d, n)
           ext == [m \in {n} |-> tick]
           w == WithTicks(p, own, ext)
           old == EntryAt(p, own)
<1>1. /\ IsData(d, T, B) /\ IsData(p, T, B)
      /\ (DOMAIN d = {} <=> DOMAIN p = {})
      /\ (\A j \in DOMAIN d : j \in Nat /\ j <= padded) /\ padded \in Nat /\ padded <= own
      /\ padded \in DOMAIN p \/ padded = own
  <2>1. IsData(d, T, B)
    BY DEF Extendable, IsBars
  <2>2. \A j \in DOMAIN d : j \in Nat
    BY <2>1 DEF IsData
  <2>3. PaddedTo(b, n, p, T, B)
    BY PadFacts
  <2> HIDE DEF d, p, padded, own
  <2>4. QED
    BY <2>1, <2>2, <2>3 DEF PaddedTo, d, padded, own
<1>2. n \in Nat /\ n - 1 \in Nat /\ own \in Nat /\ own \in 0..B + 1 /\ D \subseteq 1..B /\ Retention \in Nat /\ 2 <= Retention
  <2>1. n \in Nat /\ n <= B /\ 1 <= n
    OBVIOUS
  <2>2. own \in Nat /\ own <= n + 1
    BY <2>1, BarOfFacts
  <2>3. D \subseteq 1..B
    BY DEF IsTicks
  <2>4. Retention \in Nat /\ 2 <= Retention
    BY RetentionAssumption
  <2> HIDE DEF own, D
  <2>5. QED
    BY <2>1, <2>2, <2>3, <2>4
<1>3. MirrorEnds(d, st, z, B) /\ (\A k \in DOMAIN d : ShowsAt(d[k], st, k)) /\ Recent(d, st)
  BY <1>1, MirrorFacts DEF Mirror
<1>4. /\ \A j : j # own => In(D2, j) = In(D, j)
      /\ In(D2, own) # {} /\ \A j \in Int : j > own => In(D2, j) = {}
  BY GrownFacts
<1>5. IsTicks(ext, T, B) /\ ext = [x \in DOMAIN ext |-> ext[x]]
  BY DEF IsTicks
<1>6. TicksAdded(p, own, ext, w, T, B)
  BY <1>1, <1>2, <1>5, WithTicksFacts
<1>7. /\ IsData(w, T, B) /\ DOMAIN w = DOMAIN p \cup {own} /\ (\A j \in DOMAIN p : j # own => w[j] = p[j])
      /\ w[own].ticks = Over(ext, old.ticks)
  BY <1>6 DEF TicksAdded
<1>8. /\ own \in DOMAIN p => old = p[own]
      /\ own \notin DOMAIN p => DOMAIN old.ticks = {}
  <2> HIDE DEF p, own
  <2>1. QED
    BY DEF EntryAt, NewBar
<1>9. D = {} => Shown(st2, own) = Single(n, tick)
  BY ShownFirst
<1>10. ASSUME D # {}, NEW k
       PROVE  /\ k = own => Shown(st2, k) = Over(Single(n, tick), ShownTo(st, k, n - 1))
              /\ k # own => Shown(st2, k) = ShownTo(st, k, n - 1)
  BY <1>10, ShownGrown
<1>11. ext = Single(n, tick)
  BY DEF Single
<1>12. ASSUME D # {}
      PROVE  /\ z \in D /\ z \in 1..B /\ BarOf(z) \in DOMAIN d /\ z < n
             /\ TicksShown(p, d, st, n, padded, T, B)
  <2>1. z \in D /\ z \in 1..B /\ BarOf(z) \in DOMAIN d
    BY <1>3, <1>12 DEF MirrorEnds
  <2>2. z < n
    BY <2>1 DEF Grown
  <2>3. TicksShown(p, d, st, n, padded, T, B)
    BY <1>12, PadShows
  <2>4. QED
    BY <2>1, <2>2, <2>3
<1>13. DOMAIN p = DOMAIN d
  <2>1. CASE D = {}
    BY <1>1, <1>3, <2>1 DEF MirrorEnds
  <2>2. CASE D # {}
    BY <1>12, <2>2 DEF TicksShown
  <2>3. QED
    BY <2>1, <2>2
<1> HIDE DEF d, D, D2, z, p, own, padded, ext, w, old
<1>14. ASSUME D # {}, own \notin DOMAIN d PROVE In(D, own) = {}
  <2>1. BarOf(z) \in Nat /\ BarOf(z) <= own
    BY <1>2, <1>12, <1>14, BarOfFacts, BarOfGrows DEF own
  <2>2. own \in Int /\ own > BarOf(z) - Retention
    BY <1>2, <2>1
  <2>3. QED
    BY <1>3, <1>14, <2>2 DEF Recent, z, D
<1>15. w[own].ticks = Shown(st2, own)
  <2>1. CASE D = {}
    <3>1. DOMAIN old.ticks = {}
      BY <1>1, <1>3, <1>8, <2>1 DEF MirrorEnds, D
    <3>2. w[own].ticks = ext
      BY <1>5, <1>7, <3>1, OverNothing
    <3>3. Shown(st2, own) = ext
      BY <1>9, <1>11, <2>1
    <3>4. QED
      BY <3>2, <3>3
  <2>2. CASE D # {} /\ own \in DOMAIN d
    <3>1. old.ticks = ShownTo(st, own, n - 1)
      BY <1>8, <1>12, <1>13, <2>2 DEF TicksShown
    <3>2. Shown(st2, own) = Over(ext, ShownTo(st, own, n - 1))
      BY <1>10, <1>11, <2>2
    <3>3. QED
      BY <1>7, <3>1, <3>2
  <2>3. CASE D # {} /\ own \notin DOMAIN d
    <3>1. DOMAIN old.ticks = {}
      BY <1>8, <1>13, <2>3
    <3>2. DOMAIN ShownTo(st, own, n - 1) = {}
      BY <1>2, <1>14, <2>3, NothingShown DEF D
    <3>3. Shown(st2, own) = Over(ext, ShownTo(st, own, n - 1))
      BY <1>10, <1>11, <2>3
    <3>4. Over(ext, old.ticks) = ext /\ Over(ext, ShownTo(st, own, n - 1)) = ext
      BY <1>5, <3>1, <3>2, OverNothing
    <3>5. QED
      BY <1>7, <3>3, <3>4
  <2>4. QED
    BY <2>1, <2>2, <2>3
<1>16. ASSUME NEW k \in DOMAIN d, k # own PROVE w[k].ticks = Shown(st2, k) /\ In(D, k) # {} /\ In(D2, k) # {} /\ D # {}
  <2>1. In(D, k) # {} /\ D # {}
    BY <1>3 DEF ShowsAt, In, D
  <2>2. p[k].ticks = ShownTo(st, k, n - 1)
    BY <1>12, <2>1 DEF TicksShown
  <2>3. Shown(st2, k) = ShownTo(st, k, n - 1)
    BY <1>16, <1>10, <2>1
  <2>4. QED
    BY <1>4, <1>7, <1>13, <1>16, <2>1, <2>2, <2>3
<1>17. ASSUME NEW k \in DOMAIN w, k # padded, k # own PROVE k < padded /\ ShowsAt(w[k], st2, k)
  <2>1. k \in DOMAIN d /\ k < padded
    <3>1. k \in DOMAIN d
      BY <1>7, <1>13, <1>17
    <3>2. QED
      BY <1>1, <1>17, <3>1
  <2>2. w[k].ticks = Shown(st2, k) /\ In(D, k) # {} /\ In(D2, k) # {} /\ D # {}
    BY <1>16, <1>17, <2>1
  <2>3. w[k] = d[k]
    BY <1>7, <1>12, <1>13, <1>17, <2>1, <2>2 DEF TicksShown
  <2>4. ClosesTo(st2, k) = ClosesTo(st, k) /\ Averaged(st2, k) = Averaged(st, k)
    BY <1>17, <2>2, GrownIndicators DEF own, D
  <2>5. ShowsAt(d[k], st, k)
    BY <1>3, <2>1
  <2>6. QED
    BY <2>1, <2>2, <2>3, <2>4, <2>5 DEF ShowsAt, D2
<1>18. ASSUME NEW j \in Int, In(D2, j) # {}, j > padded - Retention \/ \E k \in DOMAIN w : k < j
       PROVE  j \in DOMAIN w
  <2>1. CASE j = own
    BY <1>7, <2>1
  <2>2. CASE j # own
    <3>1. In(D, j) # {} /\ D # {} /\ ~ (j > own)
      BY <1>4, <1>18, <2>2 DEF In
    <3>2. BarOf(z) \in DOMAIN d /\ BarOf(z) \in Nat /\ BarOf(z) <= padded
      BY <1>1, <1>12, <3>1
    <3>3. j > padded - Retention => j > BarOf(z) - Retention
      BY <1>1, <1>2, <3>2
    <3>4. ASSUME NEW k \in DOMAIN w, k < j PROVE k \in DOMAIN d
      BY <1>2, <1>7, <1>13, <3>1, <3>4
    <3>5. j \in DOMAIN d
      BY <1>3, <1>18, <3>1, <3>3, <3>4 DEF Recent, z, D
    <3>6. QED
      BY <1>7, <1>13, <3>5
  <2>3. QED
    BY <2>1, <2>2
<1>19. \A k \in DOMAIN w : In(D2, k) # {} /\ w[k].ticks = Shown(st2, k)
  BY <1>4, <1>7, <1>13, <1>15, <1>16
<1>20. padded \in DOMAIN w /\ \A k \in DOMAIN w : k <= padded \/ k = own
  BY <1>1, <1>7, <1>13
<1>21. TickAdded(w, d, st2, padded, own, T, B)
  BY <1>1, <1>2, <1>7, <1>13, <1>17, <1>18, <1>19, <1>20 DEF TickAdded, D2
<1>22. QED
  BY <1>21 DEF w, d, padded, own, p, ext

(* A bar is retained if there are fewer than the retention after it. *)
LEMMA RetainedIf ==
  ASSUME NEW d, NEW k \in DOMAIN d, NEW S, IsFiniteSet(S), \A j \in DOMAIN d : j > k => j \in S,
         Cardinality(S) < Retention
  PROVE  k \in DOMAIN Retained(d)
<1> DEFINE A == {j \in DOMAIN d : j > k}
<1>1. A \in SUBSET S
  OBVIOUS
<1> HIDE DEF A
<1>2. IsFiniteSet(A) /\ Cardinality(A) <= Cardinality(S)
  BY <1>1, FS_Subset
<1>3. Cardinality(A) \in Nat /\ Cardinality(S) \in Nat
  BY <1>2, FS_CardinalityType
<1>4. Cardinality(A) < Retention
  BY <1>2, <1>3, RetentionAssumption
<1>5. k \in {i \in DOMAIN d : Cardinality({j \in DOMAIN d : j > i}) < Retention}
  BY <1>4 DEF A
<1>6. QED
  BY <1>5 DEF Retained, Restrict

LEMMA CountUpTo ==
  ASSUME NEW i \in Int, NEW j \in Int, i <= j
  PROVE  IsFiniteSet(i + 1..j) /\ Cardinality(i + 1..j) = j - i
<1>1. PICK low \in Int : low = i + 1
  OBVIOUS
<1>2. IsFiniteSet(low..j) /\ Cardinality(low..j) = IF low > j THEN 0 ELSE j - low + 1
  BY FS_Interval
<1>3. (IF low > j THEN 0 ELSE j - low + 1) = j - i
  BY <1>1
<1>4. QED
  BY <1>1, <1>2, <1>3

(* What retention must leave of the bars for the indicators to be right. *)
KeepsEnough(kept, w, padded, own) ==
  /\ DOMAIN kept \subseteq DOMAIN w /\ \A j \in DOMAIN kept : kept[j] = w[j]
  /\ \A i \in DOMAIN kept, j \in DOMAIN w : i <= j => j \in DOMAIN kept
  /\ \A j \in DOMAIN w : j > own - Retention => j \in DOMAIN kept
  /\ \A j \in DOMAIN w : padded - Period < j \/ j = padded - 1 => j \in DOMAIN kept

(* A retention of three bars that is longer than the bands' period does. *)
LEMMA RetainedKeeps ==
  ASSUME NEW T, NEW B \in Nat, NEW w, IsData(w, T, B), NEW padded \in DOMAIN w, NEW own \in DOMAIN w,
         padded <= own, \A k \in DOMAIN w : k <= padded \/ k = own, 3 <= Retention, Period < Retention
  PROVE  KeepsEnough(Retained(w), w, padded, own)
<1> DEFINE r == Retained(w)
           After(k) == {j \in DOMAIN w : j > k}
<1>1. /\ \A j \in DOMAIN w : j \in Nat
      /\ padded \in Nat /\ own \in Nat /\ Retention \in Nat /\ Period \in Nat /\ 1 <= Period
  BY PeriodAssumption, RetentionAssumption DEF IsData
<1>2. DOMAIN w \subseteq 0..B + 1 /\ IsFiniteSet(DOMAIN w)
  <2>1. DOMAIN w \subseteq 0..B + 1 /\ IsFiniteSet(0..B + 1)
    <3>1. B + 1 \in Int /\ 0 \in Int
      OBVIOUS
    <3>2. QED
      BY <3>1, FS_Interval DEF IsData
  <2>2. QED
    BY <2>1, FS_Subset
<1>3. /\ DOMAIN r \subseteq DOMAIN w /\ \A j \in DOMAIN r : r[j] = w[j]
      /\ DOMAIN r = {k \in DOMAIN w : Cardinality(After(k)) < Retention}
  BY DEF Retained, Restrict
<1>4. ASSUME NEW i \in DOMAIN r, NEW j \in DOMAIN w, i <= j PROVE j \in DOMAIN r
  <2>1. i \in DOMAIN w /\ Cardinality(After(i)) < Retention
    BY <1>3
  <2>2. \A k \in DOMAIN w : k > j => k \in After(i)
    BY <1>1, <1>4, <2>1
  <2>3. IsFiniteSet(After(i))
    <3>1. After(i) \in SUBSET DOMAIN w
      OBVIOUS
    <3>2. QED
      BY <1>2, <3>1, FS_Subset
  <2> HIDE DEF After, r
  <2>4. QED
    BY <2>1, <2>2, <2>3, RetainedIf DEF r
<1> HIDE DEF r, After
<1>5. ASSUME NEW j \in DOMAIN w, j > own - Retention PROVE j \in DOMAIN r
  <2>1. j \in Int /\ j <= own /\ own \in Int
    BY <1>1
  <2>2. IsFiniteSet(j + 1..own) /\ Cardinality(j + 1..own) = own - j
    BY <2>1, CountUpTo
  <2>3. \A k \in DOMAIN w : k > j => k \in j + 1..own
    BY <1>1
  <2>4. Cardinality(j + 1..own) < Retention
    BY <1>1, <1>5, <2>1, <2>2
  <2>5. QED
    BY <2>2, <2>3, <2>4, RetainedIf DEF r
<1>6. ASSUME NEW j \in DOMAIN w, j <= padded, NEW c \in Nat, padded - j <= c, c + 1 < Retention
      PROVE  j \in DOMAIN r
  <2> DEFINE S == j + 1..padded
  <2>1. j \in Int /\ padded \in Int
    BY <1>1
  <2>2. IsFiniteSet(S) /\ Cardinality(S) = padded - j
    BY <1>6, <2>1, CountUpTo
  <2>3. \A k \in DOMAIN w : k > j => k \in S \cup {own}
    BY <1>1
  <2> HIDE DEF S
  <2>4. /\ IsFiniteSet(S \cup {own})
        /\ Cardinality(S \cup {own}) = IF own \in S THEN Cardinality(S) ELSE Cardinality(S) + 1
    BY <2>2, FS_AddElement
  <2>5. Cardinality(S \cup {own}) < Retention
    <3>1. Cardinality(S \cup {own}) = Cardinality(S) \/ Cardinality(S \cup {own}) = Cardinality(S) + 1
      BY <2>4
    <3>2. padded - j < Retention /\ padded - j + 1 < Retention
      BY <1>1, <1>6, <2>1
    <3>3. QED
      BY <2>2, <3>1, <3>2
  <2>6. QED
    BY <2>3, <2>4, <2>5, RetainedIf DEF r
<1>7. ASSUME NEW j \in DOMAIN w, padded - Period < j \/ j = padded - 1 PROVE j \in DOMAIN r
  <2>1. CASE j <= padded /\ padded - Period < j
    <3>1. Period - 1 \in Nat /\ padded - j <= Period - 1 /\ (Period - 1) + 1 < Retention
      BY <1>1, <2>1
    <3>2. QED
      BY <1>6, <2>1, <3>1
  <2>2. CASE j = padded - 1
    <3>1. j <= padded /\ padded - j <= 1 /\ 1 + 1 < Retention
      BY <1>1, <2>2
    <3>2. QED
      BY <1>6, <3>1
  <2>3. CASE j = own
    <3>1. j > own - Retention
      BY <1>1, <2>3
    <3>2. QED
      BY <1>5, <3>1
  <2>4. QED
    BY <1>7, <2>1, <2>2, <2>3
<1>8. QED
  BY <1>3, <1>4, <1>5, <1>7 DEF KeepsEnough, r

(* Then all bars show what they should once the indicators are computed. *)
LEMMA KeptShows ==
  ASSUME NEW T, NEW B \in Nat, NEW w, NEW d, NEW st2, IsTicks(st2, T, B), NEW padded, NEW own,
         TickAdded(w, d, st2, padded, own, T, B), BarOf(Max(DOMAIN st2)) = own,
         NEW kept, kept = [j \in DOMAIN kept |-> kept[j]], KeepsEnough(kept, w, padded, own)
  PROVE  IsData(Refresh(kept, padded, own), T, B) /\ Mirror(Refresh(kept, padded, own), st2)
<1> DEFINE r == Refresh(kept, padded, own)
           D2 == DOMAIN st2
<1>1. /\ IsData(w, T, B) /\ own \in DOMAIN w /\ padded \in DOMAIN w /\ padded \in Nat /\ own \in Nat /\ padded <= own
      /\ \A k \in DOMAIN w : In(D2, k) # {} /\ w[k].ticks = Shown(st2, k)
      /\ \A k \in DOMAIN w : k # padded /\ k # own => k < padded /\ ShowsAt(w[k], st2, k)
      /\ \A j \in Int : In(D2, j) # {} /\ (j > padded - Retention \/ \E k \in DOMAIN w : k < j) => j \in DOMAIN w
  BY DEF TickAdded
<1>2. /\ DOMAIN kept \subseteq DOMAIN w /\ \A j \in DOMAIN kept : kept[j] = w[j]
      /\ \A i \in DOMAIN kept, j \in DOMAIN w : i <= j => j \in DOMAIN kept
      /\ \A j \in DOMAIN w : j > own - Retention => j \in DOMAIN kept
      /\ \A j \in DOMAIN w : padded - Period < j \/ j = padded - 1 => j \in DOMAIN kept
  BY DEF KeepsEnough
<1>3. Retention \in Nat /\ 2 <= Retention /\ Period \in Nat /\ 1 <= Period /\ Period <= Retention
  BY PeriodAssumption, RetentionAssumption
<1> HIDE DEF D2
<1>4. padded \in DOMAIN kept /\ own \in DOMAIN kept
  <2>1. padded - Period < padded /\ padded - Period < own
    BY <1>1, <1>3
  <2>2. QED
    BY <1>1, <1>2, <2>1
<1>5. IsData(kept, T, B)
  BY <1>1, <1>2 DEF IsData
<1>6. \A j \in Int : (padded - Period < j \/ j = padded - 1) /\ In(D2, j) # {} => j \in DOMAIN kept
  <2>1. \A j \in Int : padded - Period < j \/ j = padded - 1 => j > padded - Retention
    BY <1>1, <1>3
  <2>2. QED
    BY <1>1, <1>2, <2>1
<1>7. \A j \in DOMAIN kept : In(D2, j) # {} /\ kept[j].ticks = Shown(st2, j)
  BY <1>1, <1>2
<1>8. \A j \in DOMAIN kept : j # padded /\ j # own => j < padded /\ ShowsAt(kept[j], st2, j)
  BY <1>1, <1>2
<1>9. MirrorsAll(kept, r, st2, T, B)
  BY <1>1, <1>4, <1>5, <1>6, <1>7, <1>8, RefreshShows DEF D2
<1> HIDE DEF r
<1>10. IsData(r, T, B) /\ DOMAIN r = DOMAIN kept /\ \A k \in DOMAIN r : ShowsAt(r[k], st2, k)
  BY <1>9 DEF MirrorsAll, SameTicks
<1>11. ASSUME NEW j \in Int, In(D2, j) # {}, j > own - Retention \/ \E k \in DOMAIN r : k < j
       PROVE  j \in DOMAIN r
  <2>1. CASE j > own - Retention
    <3>1. j > padded - Retention
      BY <1>1, <1>3, <2>1
    <3>2. QED
      BY <1>1, <1>2, <1>10, <1>11, <2>1, <3>1
  <2>2. ASSUME NEW k \in DOMAIN r, k < j PROVE j \in DOMAIN r
    <3>1. k \in DOMAIN w /\ k \in Nat
      BY <1>1, <1>2, <1>10 DEF IsData
    <3>2. j \in DOMAIN w /\ k <= j
      BY <1>1, <1>11, <2>2, <3>1
    <3>3. QED
      BY <1>2, <1>10, <3>2
  <2>3. QED
    BY <1>11, <2>1, <2>2
<1>12. Mirror(r, st2)
  BY <1>10, <1>11 DEF Mirror, Recent, D2
<1>13. QED
  BY <1>10, <1>12 DEF r

(* Inserting a tick into bars that mirror the ticks so far makes them mirror *)
(* the ticks with the new one.                                               *)
LEMMA InsertShows ==
  ASSUME NEW T, NEW B \in Nat, NEW n \in 1..B, NEW b, Extendable(b, n, T, B), NEW tick \in T,
         NEW fin \in NoBar..B + 1, NEW st, IsTicks(st, T, B), Mirror(b.data, st),
         NEW st2, IsTicks(st2, T, B), Grown(st, n, tick, st2, B), 3 <= Retention, Period < Retention
  PROVE  Mirror(InsertData(b, n, tick, fin).data, st2)
<1> DEFINE d == b.data
           own == BarOf(n)
           padded == PaddedBar(d, n)
           w == WithTicks(Pad(d, n), own, [m \in {n} |-> tick])
           kept == Retained(w)
           r == Refresh(kept, padded, own)
           a == Added(b, n, tick)
           f == Finalized(a, fin)
<1>1. TickAdded(w, d, st2, padded, own, T, B)
  BY AddShows
<1>2. AddedTo(b, n, tick, a, T, B)
  BY AddedFacts
<1>3. a.data = r
  <2>1. a = [b EXCEPT !.data = r]
    BY DEF Added, PaddedBar
  <2>2. b = [data |-> b.data, lastFinalized |-> b.lastFinalized]
    BY DEF Extendable, IsBars
  <2> HIDE DEF a, r
  <2>3. QED
    BY <2>1, <2>2
<1>4. kept = [j \in DOMAIN kept |-> kept[j]]
  BY DEF Retained, Restrict
<1>5. BarOf(Max(DOMAIN st2)) = own
  BY GrownFacts
<1> HIDE DEF d, own, padded, w, r, a, f
<1>6. KeepsEnough(kept, w, padded, own)
  <2>1. /\ IsData(w, T, B) /\ padded \in DOMAIN w /\ own \in DOMAIN w /\ padded <= own
        /\ \A k \in DOMAIN w : k <= padded \/ k = own
    BY <1>1 DEF TickAdded
  <2>2. QED
    BY <2>1, RetainedKeeps
<1> HIDE DEF kept
<1>7. Mirror(r, st2)
  BY <1>1, <1>4, <1>5, <1>6, KeptShows DEF r
<1>8. FinalizedTo(a, fin, f, T, B)
  <2>1. IsBars(a, T, B) /\ FinalUpTo(a)
    BY <1>2 DEF AddedTo
  <2>2. QED
    BY <2>1, FinalizedFacts DEF f
<1>9. DOMAIN f.data = DOMAIN r /\ \A k \in DOMAIN r : f.data[k].ticks = r[k].ticks /\ f.data[k].ind = r[k].ind
  BY <1>3, <1>8 DEF FinalizedTo, SameTicks
<1>10. Mirror(f.data, st2)
  BY <1>7, <1>9 DEF Mirror, Recent, ShowsAt
<1>11. QED
  BY <1>10 DEF InsertData, f, a

=============================================================================
