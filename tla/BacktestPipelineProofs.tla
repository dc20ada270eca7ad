----------------------- MODULE BacktestPipelineProofs -----------------------
(***************************************************************************)
(* Proofs about BacktestPipeline for every set of contracts, any pools,     *)
(* any number of events and blocks, any bar length and retention.           *)
(***************************************************************************)
EXTENDS BacktestPipeline, TimePriceBarsProofs

(* The loop over a block's logs *)

IsTrades(logsOf, trades) ==
  trades = [i \in 0..Len(logsOf) |-> IF i = 0 THEN <<>> ELSE trades[i - 1] \o TradeAt(logsOf, i)]

LEMMA TradesLoop ==
  ASSUME NEW s, Len(s) \in Nat
  PROVE  \E trades : IsTrades(s, trades) /\ FromLogs(s) = trades[Len(s)]
<1> DEFINE n == Len(s)
           Is(m, f) == f = [i \in 0..m |-> IF i = 0 THEN <<>> ELSE f[i - 1] \o TradeAt(s, i)]
           T == {m \in 0..n : \E f : Is(m, f)}
           loop == CHOOSE f : Is(n, f)
<1>1. 0 \in T
  <2>1. Is(0, [i \in 0..0 |-> <<>>])
    OBVIOUS
  <2> HIDE DEF Is
  <2>2. QED
    BY <2>1
<1>2. ASSUME NEW m \in 1..n, m - 1 \in T PROVE m \in T
  <2>1. PICK f : Is(m - 1, f)
    BY <1>2
  <2> DEFINE g == [i \in 0..m |-> IF i = m THEN f[m - 1] \o TradeAt(s, m) ELSE f[i]]
  <2>2. Is(m, g)
    <3>1. \A i \in 0..m : i # m => i \in 0..m - 1 /\ (i # 0 => i - 1 \in 0..m - 1 /\ i - 1 # m)
      OBVIOUS
    <3>2. m - 1 \in 0..m /\ m - 1 # m /\ m # 0
      OBVIOUS
    <3>3. \A i \in 0..m - 1 : f[i] = IF i = 0 THEN <<>> ELSE f[i - 1] \o TradeAt(s, i)
      BY <2>1
    <3>4. \A i \in 0..m : g[i] = IF i = 0 THEN <<>> ELSE g[i - 1] \o TradeAt(s, i)
      BY <3>1, <3>2, <3>3
    <3>5. QED
      BY <3>4
  <2> HIDE DEF Is
  <2>3. QED
    BY <2>2
<1>3. n \in T
  <2> HIDE DEF T
  <2>1. 0..n \subseteq T
    BY <1>1, <1>2, InductionUpTo
  <2>2. QED
    BY <2>1
<1>4. Is(n, loop)
  BY <1>3
<1>5. FromLogs(s) = loop[n]
  BY DEF FromLogs
<1>6. QED
  <2> HIDE DEF loop
  <2>1. IsTrades(s, loop)
    BY <1>4 DEF IsTrades
  <2>2. QED
    BY <1>5, <2>1

(* Logs and trades, with amounts that are whole numbers *)
Amounts == [Side -> Int]

LogOf(event, data) == [event : {event}, address : DOMAIN Contracts, data : data, index : Nat, block : Nat]

Log == LogOf("Sync", [reserves : Amounts]) \cup LogOf("SwapV2", [in : Amounts, out : Amounts])
         \cup LogOf("SwapV3", [amount : Amounts, sqrt : Int, liquidity : Int]) \cup LogOf("Other", {NoData})

Trade == [dex : {"v2"}, address : DOMAIN Contracts, in : Amounts, out : Amounts, reserves : Amounts]
           \cup [dex : {"v3"}, address : DOMAIN Contracts, amount : Amounts, sqrt : Int, liquidity : Int]

LEMMA LogFacts ==
  ASSUME NEW log \in Log
  PROVE  /\ log.event \in Event /\ log.address \in DOMAIN Contracts /\ log.index \in Nat
         /\ log.event = "Sync" => log.data.reserves \in Amounts
         /\ log.event = "SwapV2" => log.data.in \in Amounts /\ log.data.out \in Amounts
         /\ log.event = "SwapV3" => /\ log.data.amount \in Amounts
                                    /\ log.data.sqrt \in Int /\ log.data.liquidity \in Int
BY DEF Log, LogOf, Event

LEMMA TradeAtFacts ==
  ASSUME NEW s \in Seq(Log), NEW i \in 1..Len(s)
  PROVE  /\ TradeAt(s, i) \in Seq(Trade)
         /\ V2TradeAt(s, i) \in Seq(Trade) /\ V3TradeAt(s, i) \in Seq(Trade)
         /\ TradeAt(s, i) = <<>> \/ \E t \in Trade : TradeAt(s, i) = <<t>>
<1>1. s[i] \in Log /\ (i > 1 => s[i - 1] \in Log)
  OBVIOUS
<1>2. V2TradeAt(s, i) = <<>> \/ \E t \in Trade : V2TradeAt(s, i) = <<t>>
  <2>1. ASSUME i > 1, IsV2Swap(s[i - 1], s[i])
        PROVE  [dex |-> "v2", address |-> s[i].address, in |-> s[i].data.in, out |-> s[i].data.out,
                reserves |-> s[i - 1].data.reserves] \in Trade
    BY <1>1, <2>1, LogFacts DEF IsV2Swap, Trade
  <2>2. QED
    BY <2>1 DEF V2TradeAt
<1>3. V3TradeAt(s, i) = <<>> \/ \E t \in Trade : V3TradeAt(s, i) = <<t>>
  <2>1. ASSUME s[i].event = "SwapV3"
        PROVE  [dex |-> "v3", address |-> s[i].address, amount |-> s[i].data.amount,
                sqrt |-> s[i].data.sqrt, liquidity |-> s[i].data.liquidity] \in Trade
    BY <1>1, <2>1, LogFacts DEF Trade
  <2>2. QED
    BY <2>1 DEF V3TradeAt
<1>4. \A t \in Trade : <<t>> \in Seq(Trade)
  OBVIOUS
<1>5. <<>> \in Seq(Trade)
  OBVIOUS
<1>6. QED
  <2> HIDE DEF Trade
  <2>1. V2TradeAt(s, i) \in Seq(Trade) /\ V3TradeAt(s, i) \in Seq(Trade)
    BY <1>2, <1>3, <1>4, <1>5
  <2>2. QED
    BY <1>2, <1>3, <2>1 DEF TradeAt

(* After each log the loop has the trades so far. *)
LEMMA TradesTyped ==
  ASSUME NEW s \in Seq(Log), NEW trades, IsTrades(s, trades)
  PROVE  /\ \A i \in 0..Len(s) : trades[i] \in Seq(Trade)
         /\ \A i \in 1..Len(s) : trades[i] = trades[i - 1] \o TradeAt(s, i)
         /\ trades[0] = <<>>
<1> DEFINE n == Len(s)
           T == {i \in 0..n : trades[i] \in Seq(Trade)}
<1>1. n \in Nat
  OBVIOUS
<1>2. trades[0] = <<>> /\ \A i \in 1..n : trades[i] = trades[i - 1] \o TradeAt(s, i)
  <2>1. 0 \in 0..n /\ \A i \in 1..n : i \in 0..n /\ i # 0
    BY <1>1
  <2>2. \A i \in 0..n : trades[i] = IF i = 0 THEN <<>> ELSE trades[i - 1] \o TradeAt(s, i)
    BY DEF IsTrades
  <2>3. QED
    BY <2>1, <2>2
<1>3. 0 \in T
  <2>1. <<>> \in Seq(Trade) /\ 0 \in 0..n
    BY <1>1
  <2> HIDE DEF n
  <2>2. QED
    BY <1>2, <2>1
<1>4. ASSUME NEW i \in 1..n, i - 1 \in T PROVE i \in T
  <2>1. trades[i - 1] \in Seq(Trade) /\ TradeAt(s, i) \in Seq(Trade)
    BY <1>4, TradeAtFacts
  <2>2. trades[i - 1] \o TradeAt(s, i) \in Seq(Trade)
    BY <2>1
  <2>3. trades[i] \in Seq(Trade)
    BY <1>2, <2>2
  <2>4. i \in 0..n
    BY <1>1
  <2>5. QED
    BY <2>3, <2>4
<1>5. 0..n \subseteq T
  <2> HIDE DEF T
  <2>1. QED
    BY <1>1, <1>3, <1>4, InductionUpTo
<1>6. QED
  BY <1>2, <1>5

(* Filtering logs does not make trades *)

(* What was picked stays picked. *)
PrefixesKept(s, picked) ==
  \A i \in 0..Len(s) : \A k \in 0..i :
    Len(picked[k]) <= Len(picked[i]) /\ \A j \in 1..Len(picked[k]) : picked[i][j] = picked[k][j]

LEMMA PicksPrefix ==
  ASSUME NEW S, NEW s \in Seq(S), NEW I, NEW picked \in [0..Len(s) -> Seq(S)], PicksAll(s, I, picked)
  PROVE  PrefixesKept(s, picked)
<1> DEFINE n == Len(s)
           Begins(p, q) == Len(p) <= Len(q) /\ \A j \in 1..Len(p) : q[j] = p[j]
           T == {i \in 0..n : \A k \in 0..i : Begins(picked[k], picked[i])}
<1>1. n \in Nat /\ \A i \in 0..n : picked[i] \in Seq(S)
  OBVIOUS
<1>2. \A i \in 0..n : Begins(picked[i], picked[i])
  BY <1>1
<1>3. ASSUME NEW i \in 1..n PROVE Begins(picked[i - 1], picked[i])
  <2>1. i \in 0..n /\ i - 1 \in 0..n /\ i # 0
    BY <1>1
  <2>2. picked[i] = IF i \in I THEN Append(picked[i - 1], s[i]) ELSE picked[i - 1]
    BY <2>1 DEF PicksAll
  <2>3. picked[i - 1] \in Seq(S) /\ s[i] \in S
    BY <1>1, <2>1
  <2>4. Begins(picked[i - 1], Append(picked[i - 1], s[i]))
    BY <2>3
  <2>5. QED
    BY <1>2, <2>1, <2>2, <2>4
<1>4. 0 \in T
  <2>1. 0 \in 0..n /\ \A k \in 0..0 : k = 0
    BY <1>1
  <2> HIDE DEF Begins
  <2>2. QED
    BY <1>2, <2>1
<1>5. ASSUME NEW i \in 1..n, i - 1 \in T PROVE i \in T
  <2>1. i \in 0..n /\ i - 1 \in 0..n
    BY <1>1
  <2>2. ASSUME NEW k \in 0..i PROVE Begins(picked[k], picked[i])
    <3>1. CASE k = i
      <4> HIDE DEF Begins
      <4>1. QED
        BY <1>2, <2>1, <3>1
    <3>2. CASE k # i
      <4>1. k \in 0..i - 1 /\ k \in 0..n
        BY <2>1, <3>2
      <4>2. Begins(picked[k], picked[i - 1])
        BY <1>5, <4>1
      <4>3. Len(picked[k]) \in Nat /\ Len(picked[i - 1]) \in Nat /\ Len(picked[i]) \in Nat
        BY <1>1, <2>1, <4>1
      <4>4. QED
        BY <1>3, <4>2, <4>3
    <3>3. QED
      BY <3>1, <3>2
  <2> HIDE DEF Begins
  <2>3. QED
    BY <2>1, <2>2
<1>6. 0..n \subseteq T
  <2> HIDE DEF T
  <2>1. QED
    BY <1>1, <1>4, <1>5, InductionUpTo
<1>7. QED
  BY <1>6 DEF PrefixesKept

(* What is picked is from before. *)
FromBefore(s, picked) ==
  \A i \in 0..Len(s) : \A j \in 1..Len(picked[i]) : \E x \in 1..i : picked[i][j] = s[x]

LEMMA PicksOrigin ==
  ASSUME NEW S, NEW s \in Seq(S), NEW I, NEW picked \in [0..Len(s) -> Seq(S)], PicksAll(s, I, picked)
  PROVE  FromBefore(s, picked)
<1> DEFINE n == Len(s)
           From(q, i) == \A j \in 1..Len(q) : \E x \in 1..i : q[j] = s[x]
           T == {i \in 0..n : From(picked[i], i)}
<1>1. n \in Nat /\ \A i \in 0..n : picked[i] \in Seq(S)
  OBVIOUS
<1>2. 0 \in T
  <2>1. picked[0] = <<>> /\ 0 \in 0..n
    BY <1>1 DEF PicksAll
  <2>2. QED
    BY <2>1
<1>3. ASSUME NEW i \in 1..n, i - 1 \in T PROVE i \in T
  <2>1. i \in 0..n /\ i - 1 \in 0..n /\ i # 0
    BY <1>1
  <2>2. picked[i] = IF i \in I THEN Append(picked[i - 1], s[i]) ELSE picked[i - 1]
    BY <2>1 DEF PicksAll
  <2>3. picked[i - 1] \in Seq(S) /\ s[i] \in S /\ Len(picked[i - 1]) \in Nat
    BY <1>1, <2>1
  <2>4. From(picked[i - 1], i - 1)
    BY <1>3
  <2>5. From(picked[i], i)
    <3>1. ASSUME NEW j \in 1..Len(picked[i]) PROVE \E x \in 1..i : picked[i][j] = s[x]
      <4>1. CASE j \in 1..Len(picked[i - 1])
        <5>1. picked[i][j] = picked[i - 1][j]
          BY <2>2, <2>3, <4>1
        <5>2. PICK x \in 1..i - 1 : picked[i - 1][j] = s[x]
          BY <2>4, <4>1
        <5>3. x \in 1..i
          BY <2>1
        <5>4. QED
          BY <5>1, <5>2, <5>3
      <4>2. CASE j \notin 1..Len(picked[i - 1])
        <5>1. picked[i] = Append(picked[i - 1], s[i])
          BY <2>2, <4>2
        <5>2. j = Len(picked[i - 1]) + 1
          BY <2>3, <4>2, <5>1
        <5>3. picked[i][j] = s[i]
          BY <2>3, <5>1, <5>2
        <5>4. i \in 1..i
          BY <2>1
        <5>5. QED
          BY <5>3, <5>4
      <4>3. QED
        BY <4>1, <4>2
    <3>2. QED
      BY <3>1
  <2> HIDE DEF From
  <2>6. QED
    BY <2>1, <2>5
<1>4. 0..n \subseteq T
  <2> HIDE DEF T
  <2>1. QED
    BY <1>1, <1>2, <1>3, InductionUpTo
<1>5. QED
  BY <1>4 DEF FromBefore

LEMMA SameTradeAt ==
  ASSUME NEW s, NEW i, NEW f, NEW j, f[j] = s[i],
         (i > 1 /\ IsV2Swap(s[i - 1], s[i])) \/ (j > 1 /\ IsV2Swap(f[j - 1], f[j]))
           => i > 1 /\ j > 1 /\ s[i - 1] = f[j - 1]
  PROVE  TradeAt(s, i) = TradeAt(f, j)
<1>1. V3TradeAt(s, i) = V3TradeAt(f, j)
  BY DEF V3TradeAt
<1>2. V2TradeAt(s, i) = V2TradeAt(f, j)
  BY DEF V2TradeAt
<1>3. QED
  BY <1>1, <1>2 DEF TradeAt

(* The filter keeps a sync beside its swap, and what it makes neighbours    *)
(* have not the log indexes of neighbours.                                  *)
LEMMA FilteredSame ==
  ASSUME NEW s \in Seq(Log), \A i \in 1..Len(s) : s[i].index = i
  PROVE  FromLogs(s) = FromLogs(Filtered(s))
<1> DEFINE n == Len(s)
           I == {i \in DOMAIN s : s[i].event \in Signatures}
<1>1. PICK picked \in [0..n -> Seq(Log)] : PicksAll(s, I, picked) /\ Picked(s, I) = picked[n]
  BY PickedLoop
<1>2. n \in Nat /\ DOMAIN s = 1..n /\ \A i \in 0..n : picked[i] \in Seq(Log)
  OBVIOUS
<1> DEFINE f == picked[n]
<1>3. Filtered(s) = f /\ f \in Seq(Log)
  BY <1>1, <1>2 DEF Filtered
<1>4. PICK t : IsTrades(s, t) /\ FromLogs(s) = t[n]
  BY <1>2, TradesLoop
<1>5. PICK u : IsTrades(f, u) /\ FromLogs(f) = u[Len(f)]
  BY <1>3, TradesLoop
<1>6. /\ \A i \in 0..n : t[i] \in Seq(Trade)
      /\ \A i \in 1..n : t[i] = t[i - 1] \o TradeAt(s, i)
      /\ t[0] = <<>>
  BY <1>4, TradesTyped
<1>7. /\ \A j \in 1..Len(f) : u[j] = u[j - 1] \o TradeAt(f, j)
      /\ u[0] = <<>>
  BY <1>3, <1>5, TradesTyped
<1>8. \A i \in 0..n : \A k \in 0..i :
        Len(picked[k]) <= Len(picked[i]) /\ \A j \in 1..Len(picked[k]) : picked[i][j] = picked[k][j]
  <2>1. PrefixesKept(s, picked)
    BY <1>1, PicksPrefix
  <2>2. QED
    BY <2>1 DEF PrefixesKept
<1>9. \A i \in 0..n : Len(picked[i]) <= Len(f) /\ \A j \in 1..Len(picked[i]) : f[j] = picked[i][j]
  <2>1. \A i \in 0..n : i \in 0..n /\ n \in 0..n
    BY <1>2
  <2>2. QED
    BY <1>8, <2>1
<1>10. \A i \in 0..n : \A j \in 1..Len(picked[i]) : \E x \in 1..i : picked[i][j] = s[x]
  <2>1. FromBefore(s, picked)
    BY <1>1, PicksOrigin
  <2>2. QED
    BY <2>1 DEF FromBefore
<1>11. \A i \in 1..n : picked[i] = IF i \in I THEN Append(picked[i - 1], s[i]) ELSE picked[i - 1]
  <2>1. \A i \in 1..n : i \in 0..n /\ i # 0
    BY <1>2
  <2>2. QED
    BY <1>1, <2>1 DEF PicksAll
<1> HIDE DEF f, I
<1> DEFINE T == {i \in 0..n : t[i] = u[Len(picked[i])]}
<1>12. 0 \in T
  <2>1. 0 \in 0..n /\ picked[0] = <<>>
    BY <1>1, <1>2 DEF PicksAll
  <2>2. Len(picked[0]) = 0
    BY <2>1
  <2>3. QED
    BY <1>6, <1>7, <2>1, <2>2
<1>13. ASSUME NEW i \in 1..n, i - 1 \in T PROVE i \in T
  <2>1. i \in 0..n /\ i - 1 \in 0..n /\ s[i] \in Log /\ picked[i - 1] \in Seq(Log)
    BY <1>2
  <2>2. t[i - 1] = u[Len(picked[i - 1])] /\ t[i - 1] \in Seq(Trade)
    BY <1>6, <1>13, <2>1
  <2>3. CASE i \notin I
    <3>1. s[i].event # "SwapV2" /\ s[i].event # "SwapV3"
      BY <1>2, <2>3 DEF I, Signatures
    <3>2. TradeAt(s, i) = <<>>
      BY <3>1 DEF TradeAt, V2TradeAt, V3TradeAt, IsV2Swap
    <3>3. t[i] = t[i - 1]
      <4>1. t[i] = t[i - 1] \o TradeAt(s, i)
        BY <1>6
      <4>2. t[i - 1] \o <<>> = t[i - 1]
        BY <2>2
      <4>3. QED
        BY <3>2, <4>1, <4>2
    <3>4. QED
      BY <1>11, <2>1, <2>2, <2>3, <3>3
  <2>4. CASE i \in I
    <3> DEFINE j == Len(picked[i - 1]) + 1
    <3>1. picked[i] = Append(picked[i - 1], s[i])
      BY <1>11, <2>4
    <3>2. Len(picked[i]) = j /\ picked[i][j] = s[i] /\ j \in Nat /\ j >= 1 /\ j - 1 = Len(picked[i - 1])
      BY <2>1, <3>1
    <3> HIDE DEF j
    <3>3. j \in 1..Len(f) /\ f[j] = s[i] /\ Len(f) \in Nat
      <4>1. Len(f) \in Nat
        BY <1>3
      <4>2. j \in 1..Len(picked[i])
        BY <3>2
      <4>3. Len(picked[i]) <= Len(f) /\ f[j] = picked[i][j]
        BY <1>9, <2>1, <4>2
      <4>4. QED
        BY <3>2, <4>1, <4>3
    <3>4. ASSUME i > 1, IsV2Swap(s[i - 1], s[i]) PROVE j > 1 /\ s[i - 1] = f[j - 1]
      <4>1. i - 1 \in 1..n /\ s[i - 1].event = "Sync"
        BY <2>1, <3>4 DEF IsV2Swap
      <4>2. i - 1 \in I
        BY <1>2, <4>1 DEF I, Signatures
      <4>3. picked[i - 1] = Append(picked[i - 2], s[i - 1])
        <5>1. picked[i - 1] = Append(picked[(i - 1) - 1], s[i - 1])
          BY <1>11, <4>1, <4>2
        <5>2. (i - 1) - 1 = i - 2
          BY <2>1
        <5>3. QED
          BY <5>1, <5>2
      <4>4. i - 2 \in 0..n /\ s[i - 1] \in Log
        BY <4>1
      <4>5. picked[i - 2] \in Seq(Log)
        BY <1>2, <4>4
      <4>6. j - 1 >= 1 /\ picked[i - 1][j - 1] = s[i - 1]
        BY <3>2, <4>3, <4>4, <4>5
      <4>7. j - 1 \in 1..Len(picked[i - 1])
        BY <3>2, <4>6
      <4>8. f[j - 1] = picked[i - 1][j - 1]
        BY <1>9, <2>1, <4>7
      <4>9. j > 1
        BY <3>2, <4>6
      <4>10. QED
        BY <4>6, <4>8, <4>9
    <3>5. ASSUME j > 1, IsV2Swap(f[j - 1], f[j]) PROVE i > 1 /\ s[i - 1] = f[j - 1]
      <4>1. j - 1 \in 1..Len(picked[i - 1])
        BY <3>2, <3>5
      <4>2. f[j - 1] = picked[i - 1][j - 1]
        BY <1>9, <2>1, <4>1
      <4>3. PICK x \in 1..i - 1 : picked[i - 1][j - 1] = s[x]
        BY <1>10, <2>1, <4>1
      <4>4. x \in 1..n /\ s[x].index = x /\ s[i].index = i
        BY <2>1, <4>3
      <4>5. x + 1 = i
        BY <3>3, <3>5, <4>2, <4>3, <4>4 DEF IsV2Swap
      <4>6. i > 1 /\ i - 1 = x
        BY <4>3, <4>5
      <4>7. QED
        BY <4>2, <4>3, <4>6
    <3>6. TradeAt(s, i) = TradeAt(f, j)
      BY <3>3, <3>4, <3>5, SameTradeAt
    <3>7. u[j] = u[j - 1] \o TradeAt(f, j)
      BY <1>7, <3>3
    <3>8. t[i] = u[j]
      BY <1>6, <2>2, <3>2, <3>6, <3>7
    <3>9. QED
      BY <2>1, <3>2, <3>8
  <2>5. QED
    BY <2>3, <2>4
<1>14. n \in T
  <2> HIDE DEF T
  <2>1. 0..n \subseteq T
    BY <1>2, <1>12, <1>13, InductionUpTo
  <2>2. QED
    BY <1>2, <2>1
<1>15. t[n] = u[Len(f)]
  BY <1>14 DEF f
<1>16. QED
  BY <1>3, <1>4, <1>5, <1>15

(* One more log *)

LEMMA FromLogsTyped ==
  ASSUME NEW s \in Seq(Log)
  PROVE  FromLogs(s) \in Seq(Trade)
<1>1. Len(s) \in Nat
  OBVIOUS
<1>2. PICK t : IsTrades(s, t) /\ FromLogs(s) = t[Len(s)]
  BY <1>1, TradesLoop
<1>3. Len(s) \in 0..Len(s)
  BY <1>1
<1>4. QED
  BY <1>2, <1>3, TradesTyped

LEMMA FromLogsEmpty == FromLogs(<<>>) = <<>>
<1>1. \A s \in Seq(Log) : Len(s) = 0 => FromLogs(s) = <<>>
  <2>1. TAKE s \in Seq(Log)
  <2>2. Len(s) \in Nat
    OBVIOUS
  <2>3. PICK t : IsTrades(s, t) /\ FromLogs(s) = t[Len(s)]
    BY <2>2, TradesLoop
  <2>4. QED
    BY <2>3, TradesTyped
<1>2. <<>> \in Seq(Log) /\ Len(<<>>) = 0
  OBVIOUS
<1>3. QED
  BY <1>1, <1>2

LEMMA FromLogsAppend ==
  ASSUME NEW s \in Seq(Log), NEW log \in Log
  PROVE  FromLogs(Append(s, log)) = FromLogs(s) \o TradeAt(Append(s, log), Len(s) + 1)
<1> DEFINE e == Append(s, log)
           n == Len(s)
<1>1. n \in Nat /\ e \in Seq(Log) /\ Len(e) = n + 1 /\ \A i \in 1..n : e[i] = s[i]
  OBVIOUS
<1>2. PICK t : IsTrades(s, t) /\ FromLogs(s) = t[n]
  BY <1>1, TradesLoop
<1>3. PICK u : IsTrades(e, u) /\ FromLogs(e) = u[Len(e)]
  <2> HIDE DEF e
  <2>1. Len(e) \in Nat
    BY <1>1
  <2>2. QED
    BY <2>1, TradesLoop
<1>4. t[0] = <<>> /\ \A i \in 1..n : t[i] = t[i - 1] \o TradeAt(s, i)
  BY <1>2, TradesTyped
<1>5. u[0] = <<>> /\ \A i \in 1..n + 1 : u[i] = u[i - 1] \o TradeAt(e, i)
  BY <1>1, <1>3, TradesTyped
<1> HIDE DEF e, n
<1> DEFINE T == {i \in 0..n : t[i] = u[i]}
<1>6. 0 \in T
  BY <1>1, <1>4, <1>5
<1>7. ASSUME NEW i \in 1..n, i - 1 \in T PROVE i \in T
  <2>1. i \in 0..n /\ i \in 1..n + 1 /\ (i > 1 => i - 1 \in 1..n)
    BY <1>1
  <2>2. e[i] = s[i] /\ (i > 1 => e[i - 1] = s[i - 1])
    BY <1>1, <2>1
  <2>3. TradeAt(s, i) = TradeAt(e, i)
    BY <2>2, SameTradeAt
  <2>4. t[i] = u[i]
    BY <1>4, <1>5, <1>7, <2>1, <2>3
  <2>5. QED
    BY <2>1, <2>4
<1>8. t[n] = u[n]
  <2> HIDE DEF T
  <2>1. 0..n \subseteq T
    BY <1>1, <1>6, <1>7, InductionUpTo
  <2>2. n \in 0..n
    BY <1>1
  <2>3. QED
    BY <2>1, <2>2 DEF T
<1>9. n + 1 \in 1..n + 1 /\ (n + 1) - 1 = n
  BY <1>1
<1>10. u[n + 1] = u[n] \o TradeAt(e, n + 1)
  BY <1>5, <1>9
<1>11. FromLogs(e) = FromLogs(s) \o TradeAt(e, n + 1)
  BY <1>1, <1>2, <1>3, <1>8, <1>10
<1>12. QED
  BY <1>11 DEF e, n

(* What is no swap makes no trade, *)
LEMMA QuietLog ==
  ASSUME NEW s \in Seq(Log), NEW log \in Log, log.event \in {"Sync", "Other"}
  PROVE  FromLogs(Append(s, log)) = FromLogs(s)
<1>1. Append(s, log)[Len(s) + 1] = log
  OBVIOUS
<1>2. TradeAt(Append(s, log), Len(s) + 1) = <<>>
  BY <1>1 DEF TradeAt, V2TradeAt, V3TradeAt, IsV2Swap
<1>3. FromLogs(s) \o <<>> = FromLogs(s)
  BY FromLogsTyped
<1>4. QED
  BY <1>2, <1>3, FromLogsAppend

(* nor does a swap that comes after something else than a sync. *)
LEMMA StraySwap ==
  ASSUME NEW s \in Seq(Log), NEW log \in Log, log.event = "SwapV2",
         s # <<>>, s[Len(s)].event # "Sync"
  PROVE  FromLogs(Append(s, log)) = FromLogs(s)
<1>1. /\ Append(s, log)[Len(s) + 1] = log
      /\ Append(s, log)[(Len(s) + 1) - 1] = s[Len(s)]
  OBVIOUS
<1>2. TradeAt(Append(s, log), Len(s) + 1) = <<>>
  BY <1>1 DEF TradeAt, V2TradeAt, V3TradeAt, IsV2Swap
<1>3. FromLogs(s) \o <<>> = FromLogs(s)
  BY FromLogsTyped
<1>4. QED
  BY <1>2, <1>3, FromLogsAppend

(* A swap right after its sync does, *)
V2TradeOf(sync, swap) ==
  [dex |-> "v2", address |-> swap.address, in |-> swap.data.in, out |-> swap.data.out,
   reserves |-> sync.data.reserves]

LEMMA SwapAfterSync ==
  ASSUME NEW s \in Seq(Log), NEW log \in Log, s # <<>>, IsV2Swap(s[Len(s)], log)
  PROVE  /\ FromLogs(Append(s, log)) = Append(FromLogs(s), V2TradeOf(s[Len(s)], log))
         /\ V2TradeOf(s[Len(s)], log) \in Trade
<1> DEFINE t == V2TradeOf(s[Len(s)], log)
<1>1. /\ Append(s, log)[Len(s) + 1] = log /\ Len(s) + 1 > 1
      /\ Append(s, log)[(Len(s) + 1) - 1] = s[Len(s)]
  OBVIOUS
<1>2. TradeAt(Append(s, log), Len(s) + 1) = <<t>>
  BY <1>1 DEF TradeAt, V2TradeAt, V2TradeOf
<1>3. s[Len(s)] \in Log
  OBVIOUS
<1>4. t \in Trade
  BY <1>3, LogFacts DEF Trade, V2TradeOf, IsV2Swap
<1> HIDE DEF t
<1>5. FromLogs(s) \o <<t>> = Append(FromLogs(s), t)
  BY <1>4, FromLogsTyped
<1>6. QED
  BY <1>2, <1>4, <1>5, FromLogsAppend DEF t

(* and each swap of a V3 pool. *)
V3TradeOf(log) ==
  [dex |-> "v3", address |-> log.address, amount |-> log.data.amount,
   sqrt |-> log.data.sqrt, liquidity |-> log.data.liquidity]

LEMMA V3Swap ==
  ASSUME NEW s \in Seq(Log), NEW log \in Log, log.event = "SwapV3"
  PROVE  FromLogs(Append(s, log)) = Append(FromLogs(s), V3TradeOf(log)) /\ V3TradeOf(log) \in Trade
<1> DEFINE t == V3TradeOf(log)
<1>1. Append(s, log)[Len(s) + 1] = log
  OBVIOUS
<1>2. TradeAt(Append(s, log), Len(s) + 1) = <<t>>
  BY <1>1 DEF TradeAt, V2TradeAt, V3TradeAt, IsV2Swap, V3TradeOf
<1>3. t \in Trade
  BY LogFacts DEF Trade, V3TradeOf
<1> HIDE DEF t
<1>4. FromLogs(s) \o <<t>> = Append(FromLogs(s), t)
  BY <1>3, FromLogsTyped
<1>5. QED
  BY <1>2, <1>3, <1>4, FromLogsAppend DEF t

(* The loop over a block's trades *)

IsTicksOf(trades, pairs, ticks) ==
  ticks = [i \in 0..Len(trades) |-> IF i = 0 THEN <<>> ELSE AddTrade(ticks[i - 1], trades[i], pairs)]

LEMMA TicksLoop ==
  ASSUME NEW s, NEW pairs, Len(s) \in Nat
  PROVE  \E ticks : IsTicksOf(s, pairs, ticks) /\ PairTicks(s, pairs) = ticks[Len(s)]
<1> DEFINE n == Len(s)
           Is(m, f) == f = [i \in 0..m |-> IF i = 0 THEN <<>> ELSE AddTrade(f[i - 1], s[i], pairs)]
           T == {m \in 0..n : \E f : Is(m, f)}
           loop == CHOOSE f : Is(n, f)
<1>1. 0 \in T
  <2>1. Is(0, [i \in 0..0 |-> <<>>])
    OBVIOUS
  <2> HIDE DEF Is
  <2>2. QED
    BY <2>1
<1>2. ASSUME NEW m \in 1..n, m - 1 \in T PROVE m \in T
  <2>1. PICK f : Is(m - 1, f)
    BY <1>2
  <2> DEFINE g == [i \in 0..m |-> IF i = m THEN AddTrade(f[m - 1], s[m], pairs) ELSE f[i]]
  <2>2. Is(m, g)
    <3>1. \A i \in 0..m : i # m => i \in 0..m - 1 /\ (i # 0 => i - 1 \in 0..m - 1 /\ i - 1 # m)
      OBVIOUS
    <3>2. m - 1 \in 0..m /\ m - 1 # m /\ m # 0
      OBVIOUS
    <3>3. \A i \in 0..m - 1 : f[i] = IF i = 0 THEN <<>> ELSE AddTrade(f[i - 1], s[i], pairs)
      BY <2>1
    <3>4. \A i \in 0..m : g[i] = IF i = 0 THEN <<>> ELSE AddTrade(g[i - 1], s[i], pairs)
      BY <3>1, <3>2, <3>3
    <3>5. QED
      BY <3>4
  <2> HIDE DEF Is
  <2>3. QED
    BY <2>2
<1>3. n \in T
  <2> HIDE DEF T
  <2>1. 0..n \subseteq T
    BY <1>1, <1>2, InductionUpTo
  <2>2. QED
    BY <2>1
<1>4. Is(n, loop)
  BY <1>3
<1>5. PairTicks(s, pairs) = loop[n]
  BY DEF PairTicks
<1>6. QED
  <2> HIDE DEF loop
  <2>1. IsTicksOf(s, pairs, loop)
    BY <1>4 DEF IsTicksOf
  <2>2. QED
    BY <1>5, <2>1

LEMMA TicksStep ==
  ASSUME NEW s, NEW pairs, NEW ticks, Len(s) \in Nat, IsTicksOf(s, pairs, ticks)
  PROVE  ticks[0] = <<>> /\ \A i \in 1..Len(s) : ticks[i] = AddTrade(ticks[i - 1], s[i], pairs)
<1>1. \A i \in 0..Len(s) : ticks[i] = IF i = 0 THEN <<>> ELSE AddTrade(ticks[i - 1], s[i], pairs)
  BY DEF IsTicksOf
<1>2. 0 \in 0..Len(s) /\ \A i \in 1..Len(s) : i \in 0..Len(s) /\ i # 0
  OBVIOUS
<1>3. QED
  BY <1>1, <1>2

LEMMA PairTicksEmpty == ASSUME NEW pairs PROVE PairTicks(<<>>, pairs) = <<>>
<1>1. \A s : Len(s) = 0 => PairTicks(s, pairs) = <<>>
  <2>1. TAKE s
  <2>2. HAVE Len(s) = 0
  <2>3. Len(s) \in Nat
    BY <2>2
  <2>4. PICK ticks : IsTicksOf(s, pairs, ticks) /\ PairTicks(s, pairs) = ticks[Len(s)]
    BY <2>3, TicksLoop
  <2>5. QED
    BY <2>2, <2>3, <2>4, TicksStep
<1>2. Len(<<>>) = 0
  OBVIOUS
<1>3. QED
  BY <1>1, <1>2

LEMMA PairTicksAppend ==
  ASSUME NEW S, NEW s \in Seq(S), NEW t \in S, NEW pairs
  PROVE  PairTicks(Append(s, t), pairs) = AddTrade(PairTicks(s, pairs), t, pairs)
<1> DEFINE e == Append(s, t)
           n == Len(s)
<1>1. n \in Nat /\ Len(e) = n + 1 /\ e[n + 1] = t /\ \A i \in 1..n : e[i] = s[i]
  OBVIOUS
<1>2. PICK f : IsTicksOf(s, pairs, f) /\ PairTicks(s, pairs) = f[n]
  BY <1>1, TicksLoop
<1>3. PICK g : IsTicksOf(e, pairs, g) /\ PairTicks(e, pairs) = g[Len(e)]
  <2> HIDE DEF e
  <2>1. Len(e) \in Nat
    BY <1>1
  <2>2. QED
    BY <2>1, TicksLoop
<1>4. f[0] = <<>> /\ \A i \in 1..n : f[i] = AddTrade(f[i - 1], s[i], pairs)
  BY <1>1, <1>2, TicksStep
<1> HIDE DEF e, n
<1>5. g[0] = <<>> /\ \A i \in 1..n + 1 : g[i] = AddTrade(g[i - 1], e[i], pairs)
  <2>1. Len(e) \in Nat
    BY <1>1
  <2>2. QED
    BY <1>1, <1>3, <2>1, TicksStep
<1> DEFINE T == {i \in 0..n : f[i] = g[i]}
<1>6. 0 \in T
  BY <1>1, <1>4, <1>5
<1>7. ASSUME NEW i \in 1..n, i - 1 \in T PROVE i \in T
  <2>1. i \in 0..n /\ i \in 1..n + 1
    BY <1>1
  <2>2. f[i] = g[i]
    BY <1>1, <1>4, <1>5, <1>7, <2>1
  <2>3. QED
    BY <2>1, <2>2
<1>8. f[n] = g[n]
  <2> HIDE DEF T
  <2>1. 0..n \subseteq T
    BY <1>1, <1>6, <1>7, InductionUpTo
  <2>2. n \in 0..n
    BY <1>1
  <2>3. QED
    BY <2>1, <2>2 DEF T
<1>9. n + 1 \in 1..n + 1 /\ (n + 1) - 1 = n
  BY <1>1
<1>10. g[n + 1] = AddTrade(g[n], t, pairs)
  BY <1>1, <1>5, <1>9
<1>11. PairTicks(e, pairs) = AddTrade(PairTicks(s, pairs), t, pairs)
  BY <1>1, <1>2, <1>3, <1>8, <1>10
<1>12. QED
  BY <1>11 DEF e

(* The loop over a block's swaps *)

IsVolumes(pair, ss, volumes) ==
  volumes = [i \in 0..Len(ss) |-> IF i = 0 THEN 0 ELSE volumes[i - 1] + Moved(pair, ss[i])]

LEMMA VolumeLoop ==
  ASSUME NEW pair, NEW s, Len(s) \in Nat
  PROVE  \E volumes : IsVolumes(pair, s, volumes) /\ Volume(pair, s) = volumes[Len(s)]
<1> DEFINE n == Len(s)
           Is(m, f) == f = [i \in 0..m |-> IF i = 0 THEN 0 ELSE f[i - 1] + Moved(pair, s[i])]
           T == {m \in 0..n : \E f : Is(m, f)}
           loop == CHOOSE f : Is(n, f)
<1>1. 0 \in T
  <2>1. Is(0, [i \in 0..0 |-> 0])
    OBVIOUS
  <2> HIDE DEF Is
  <2>2. QED
    BY <2>1
<1>2. ASSUME NEW m \in 1..n, m - 1 \in T PROVE m \in T
  <2>1. PICK f : Is(m - 1, f)
    BY <1>2
  <2> DEFINE g == [i \in 0..m |-> IF i = m THEN f[m - 1] + Moved(pair, s[m]) ELSE f[i]]
  <2>2. Is(m, g)
    <3>1. \A i \in 0..m : i # m => i \in 0..m - 1 /\ (i # 0 => i - 1 \in 0..m - 1 /\ i - 1 # m)
      OBVIOUS
    <3>2. m - 1 \in 0..m /\ m - 1 # m /\ m # 0
      OBVIOUS
    <3>3. \A i \in 0..m - 1 : f[i] = IF i = 0 THEN 0 ELSE f[i - 1] + Moved(pair, s[i])
      BY <2>1
    <3>4. \A i \in 0..m : g[i] = IF i = 0 THEN 0 ELSE g[i - 1] + Moved(pair, s[i])
      BY <3>1, <3>2, <3>3
    <3>5. QED
      BY <3>4
  <2> HIDE DEF Is
  <2>3. QED
    BY <2>2
<1>3. n \in T
  <2> HIDE DEF T
  <2>1. 0..n \subseteq T
    BY <1>1, <1>2, InductionUpTo
  <2>2. QED
    BY <2>1
<1>4. Is(n, loop)
  BY <1>3
<1>5. Volume(pair, s) = loop[n]
  BY DEF Volume
<1>6. QED
  <2> HIDE DEF loop
  <2>1. IsVolumes(pair, s, loop)
    BY <1>4 DEF IsVolumes
  <2>2. QED
    BY <1>5, <2>1

LEMMA VolumeStep ==
  ASSUME NEW pair, NEW s, NEW volumes, Len(s) \in Nat, IsVolumes(pair, s, volumes)
  PROVE  volumes[0] = 0 /\ \A i \in 1..Len(s) : volumes[i] = volumes[i - 1] + Moved(pair, s[i])
<1>1. \A i \in 0..Len(s) : volumes[i] = IF i = 0 THEN 0 ELSE volumes[i - 1] + Moved(pair, s[i])
  BY DEF IsVolumes
<1>2. 0 \in 0..Len(s) /\ \A i \in 1..Len(s) : i \in 0..Len(s) /\ i # 0
  OBVIOUS
<1>3. QED
  BY <1>1, <1>2

LEMMA VolumeEmpty == ASSUME NEW pair PROVE Volume(pair, <<>>) = 0
<1>1. \A s : Len(s) = 0 => Volume(pair, s) = 0
  <2>1. TAKE s
  <2>2. HAVE Len(s) = 0
  <2>3. Len(s) \in Nat
    BY <2>2
  <2>4. PICK volumes : IsVolumes(pair, s, volumes) /\ Volume(pair, s) = volumes[Len(s)]
    BY <2>3, VolumeLoop
  <2>5. QED
    BY <2>2, <2>3, <2>4, VolumeStep
<1>2. Len(<<>>) = 0
  OBVIOUS
<1>3. QED
  BY <1>1, <1>2

LEMMA VolumeAppend ==
  ASSUME NEW S, NEW s \in Seq(S), NEW w \in S, NEW pair
  PROVE  Volume(pair, Append(s, w)) = Volume(pair, s) + Moved(pair, w)
<1> DEFINE e == Append(s, w)
           n == Len(s)
<1>1. n \in Nat /\ Len(e) = n + 1 /\ e[n + 1] = w /\ \A i \in 1..n : e[i] = s[i]
  OBVIOUS
<1>2. PICK f : IsVolumes(pair, s, f) /\ Volume(pair, s) = f[n]
  BY <1>1, VolumeLoop
<1>3. PICK g : IsVolumes(pair, e, g) /\ Volume(pair, e) = g[Len(e)]
  <2> HIDE DEF e
  <2>1. Len(e) \in Nat
    BY <1>1
  <2>2. QED
    BY <2>1, VolumeLoop
<1>4. f[0] = 0 /\ \A i \in 1..n : f[i] = f[i - 1] + Moved(pair, s[i])
  BY <1>1, <1>2, VolumeStep
<1> HIDE DEF e, n
<1>5. g[0] = 0 /\ \A i \in 1..n + 1 : g[i] = g[i - 1] + Moved(pair, e[i])
  <2>1. Len(e) \in Nat
    BY <1>1
  <2>2. QED
    BY <1>1, <1>3, <2>1, VolumeStep
<1> DEFINE T == {i \in 0..n : f[i] = g[i]}
<1>6. 0 \in T
  BY <1>1, <1>4, <1>5
<1>7. ASSUME NEW i \in 1..n, i - 1 \in T PROVE i \in T
  <2>1. i \in 0..n /\ i \in 1..n + 1
    BY <1>1
  <2>2. f[i] = g[i]
    BY <1>1, <1>4, <1>5, <1>7, <2>1
  <2>3. QED
    BY <2>1, <2>2
<1>8. f[n] = g[n]
  <2> HIDE DEF T
  <2>1. 0..n \subseteq T
    BY <1>1, <1>6, <1>7, InductionUpTo
  <2>2. n \in 0..n
    BY <1>1
  <2>3. QED
    BY <2>1, <2>2 DEF T
<1>9. n + 1 \in 1..n + 1 /\ (n + 1) - 1 = n
  BY <1>1
<1>10. g[n + 1] = g[n] + Moved(pair, w)
  BY <1>1, <1>5, <1>9
<1>11. Volume(pair, e) = Volume(pair, s) + Moved(pair, w)
  BY <1>1, <1>2, <1>3, <1>8, <1>10
<1>12. QED
  BY <1>11 DEF e

(* Pairs that are followed, and their pools *)

LEMMA DivideFacts ==
  ASSUME NEW x \in Nat, NEW y \in Nat \ {0}
  PROVE  x \div y \in Nat /\ x % y \in Nat /\ (x < y => x % y = x)
OBVIOUS

LEMMA TimesFacts == ASSUME NEW x \in Nat, NEW y \in Nat PROVE x * y \in Nat /\ (x # 0 /\ y # 0 => x * y # 0)
OBVIOUS

PairFacts(a, pair) ==
  /\ pair.address = a /\ a \in DOMAIN Contracts /\ a \in DOMAIN KnownPairs /\ KnownPairs[a] = pair
  /\ pair.dex \in {"v2", "v3"}
  /\ WethSlot(pair) \in Side /\ TokenSlot(pair) = 3 - WethSlot(pair) /\ TokenSlot(pair) \in Side
  /\ WethSide(TokenAddress(pair)) = WethSlot(pair)
  /\ (TokenAddress(pair) > Weth) = (WethSlot(pair) = 1)
  /\ \A x, y : Sided(pair, x, y)[WethSlot(pair)] = x /\ Sided(pair, x, y)[TokenSlot(pair)] = y

LEMMA MarketFacts ==
  ASSUME NEW a \in Markets
  PROVE  PairFacts(a, Contracts[a])
<1> DEFINE pair == Contracts[a]
<1>1. /\ a \in DOMAIN Contracts /\ pair.address = a /\ pair.dex \in {"v2", "v3"} /\ IsPair(pair)
      /\ pair.token0 \in Nat /\ pair.token1 \in Nat /\ pair.token0 < pair.token1
  <2>1. a # Alien /\ a \in DOMAIN Contracts
    BY ContractsAssumption
  <2>2. QED
    BY <2>1, ContractsAssumption
<1>2. a \in DOMAIN KnownPairs /\ KnownPairs[a] = pair
  BY <1>1 DEF KnownPairs
<1>3. Weth = pair.token0 \/ Weth = pair.token1
  BY <1>1 DEF IsPair, V2IsPair, V3IsPair
<1> HIDE DEF pair
<1>4. /\ WethSlot(pair) \in Side /\ TokenSlot(pair) = 3 - WethSlot(pair) /\ TokenSlot(pair) \in Side
      /\ WethSide(TokenAddress(pair)) = WethSlot(pair)
      /\ (TokenAddress(pair) > Weth) = (WethSlot(pair) = 1)
  BY <1>1, <1>3, WethAssumption DEF WethSlot, TokenSlot, WethSide, TokenAddress, Side
<1>5. \A x, y : Sided(pair, x, y)[WethSlot(pair)] = x /\ Sided(pair, x, y)[TokenSlot(pair)] = y
  BY DEF Sided, WethSlot, TokenSlot
<1>6. QED
  BY <1>1, <1>2, <1>4, <1>5 DEF PairFacts, pair

PoolsOf(pair) == {PoolAt(pair, r, d) : r \in 1..Rungs, d \in 1..2}

PoolFacts(pair, pool) ==
  /\ PriceIn(pair, pool) \in 0..Width - 1
  /\ pair.dex = "v2" => pool.reserves \in [Side -> 1..Word - 1]
  /\ pair.dex = "v3" => pool.sqrt \in 1..Width - 1 /\ pool.liquidity \in Nat \ {0}

LEMMA PoolsTyped ==
  ASSUME NEW a \in Markets, NEW pool \in PoolsOf(Contracts[a])
  PROVE  PoolFacts(Contracts[a], pool)
<1> DEFINE pair == Contracts[a]
<1>1. PICK r \in 1..Rungs, d \in 1..2 : pool = PoolAt(pair, r, d)
  BY DEF PoolsOf
<1>2. PairFacts(a, pair)
  BY MarketFacts
<1>3. /\ PriceIn(pair, pool) < Width
      /\ IF pair.dex = "v2" THEN pool.reserves \in [1..2 -> 1..Word - 1]
         ELSE pool.sqrt \in 1..Width - 1 /\ pool.liquidity \in Nat \ {0}
  BY <1>1, PoolsAssumption
<1> HIDE DEF pair
<1>4. PriceIn(pair, pool) \in Nat
  <2>1. CASE pair.dex = "v2"
    <3> DEFINE w == pool.reserves[WethSlot(pair)]
               t == pool.reserves[TokenSlot(pair)]
    <3>1. w \in Nat /\ t \in Nat \ {0} /\ Scale \in Nat
      BY <1>2, <1>3, <2>1, NumberAssumption DEF PairFacts, Side
    <3>2. PriceIn(pair, pool) = (w * Scale) \div t
      BY <2>1 DEF PriceIn
    <3> HIDE DEF w, t
    <3>3. w * Scale \in Nat
      BY <3>1, TimesFacts
    <3>4. QED
      BY <3>1, <3>2, <3>3, DivideFacts
  <2>2. CASE pair.dex # "v2"
    <3>1. pool.sqrt \in Nat /\ pool.sqrt # 0 /\ Scale \in Nat \ {0}
      BY <1>3, <2>2, NumberAssumption
    <3>2. pool.sqrt * pool.sqrt \in Nat \ {0} /\ Scale * Scale \in Nat
      BY <3>1, TimesFacts
    <3>3. Scale * Scale * Scale \in Nat
      BY <3>1, <3>2, TimesFacts
    <3>4. (pool.sqrt * pool.sqrt) \div Scale \in Nat
      BY <3>1, <3>2, DivideFacts
    <3>5. (Scale * Scale * Scale) \div (pool.sqrt * pool.sqrt) \in Nat
      BY <3>2, <3>3, DivideFacts
    <3>6. QED
      BY <2>2, <3>4, <3>5 DEF PriceIn
  <2>3. QED
    BY <2>1, <2>2
<1>5. Side = 1..2 /\ Width \in Nat
  BY NumberAssumption DEF Side
<1>6. PriceIn(pair, pool) \in 0..Width - 1
  BY <1>3, <1>4, <1>5
<1>7. QED
  BY <1>2, <1>3, <1>5, <1>6 DEF PoolFacts, pair

(* What a trade says of the price after it is the pool's price, if it says  *)
(* what the pool's state is,                                                *)
LEMMA V2PriceIs ==
  ASSUME NEW a \in Markets, NEW pool \in PoolsOf(Contracts[a]), Contracts[a].dex = "v2"
  PROVE  ReservesPrice(pool.reserves, TokenAddress(Contracts[a])) = PriceIn(Contracts[a], pool)
<1> DEFINE pair == Contracts[a]
<1>1. PairFacts(a, pair) /\ PoolFacts(pair, pool)
  BY MarketFacts, PoolsTyped
<1> HIDE DEF pair
<1> DEFINE w == pool.reserves[WethSlot(pair)]
           t == pool.reserves[TokenSlot(pair)]
<1>2. ReservesPrice(pool.reserves, TokenAddress(pair)) = FracPrice(w, t)
  BY <1>1 DEF ReservesPrice, PairFacts
<1>3. PriceIn(pair, pool) = (w * Scale) \div t /\ PriceIn(pair, pool) \in 0..Width - 1 /\ Width \in Nat \ {0}
  BY <1>1, NumberAssumption DEF PriceIn, PoolFacts, pair
<1>4. FracPrice(w, t) = ((w * Scale) \div t) % Width
  BY DEF FracPrice
<1> HIDE DEF w, t
<1>5. FracPrice(w, t) = PriceIn(pair, pool)
  BY <1>3, <1>4, DivideFacts
<1>6. QED
  BY <1>2, <1>5 DEF w, t, pair

LEMMA V3PriceIs ==
  ASSUME NEW a \in Markets, NEW pool \in PoolsOf(Contracts[a]), Contracts[a].dex = "v3"
  PROVE  SqrtPrice(pool.sqrt, TokenAddress(Contracts[a]) > Weth) = PriceIn(Contracts[a], pool)
<1> DEFINE pair == Contracts[a]
           s == pool.sqrt
<1>1. PairFacts(a, pair) /\ PoolFacts(pair, pool)
  BY MarketFacts, PoolsTyped
<1>2. s \in Nat /\ s < Width /\ Width \in Nat \ {0}
  BY <1>1, NumberAssumption DEF PoolFacts
<1>3. s % Width = s
  <2> HIDE DEF s
  <2>1. QED
    BY <1>2, DivideFacts
<1>4. PriceIn(pair, pool) \in Nat /\ PriceIn(pair, pool) < Width
  BY <1>1, <1>2 DEF PoolFacts
<1>5. PriceIn(pair, pool) % Width = PriceIn(pair, pool)
  <2> HIDE DEF pair
  <2>1. QED
    BY <1>2, <1>4, DivideFacts
<1>6. CASE WethSlot(pair) = 2
  <2>1. ~ (TokenAddress(pair) > Weth)
    BY <1>1, <1>6 DEF PairFacts
  <2>2. PriceIn(pair, pool) = (s * s) \div Scale
    BY <1>6 DEF PriceIn
  <2>3. SqrtPrice(s, TokenAddress(pair) > Weth) = (((s % Width) * (s % Width)) \div Scale) % Width
    BY <2>1 DEF SqrtPrice
  <2>4. QED
    BY <1>3, <1>5, <2>2, <2>3
<1>7. CASE WethSlot(pair) # 2
  <2>1. TokenAddress(pair) > Weth
    BY <1>1, <1>7 DEF PairFacts, Side
  <2>2. PriceIn(pair, pool) = (Scale * Scale * Scale) \div (s * s)
    BY <1>7 DEF PriceIn
  <2>3. SqrtPrice(s, TokenAddress(pair) > Weth) = ((Scale * Scale * Scale) \div (s * s)) % Width
    BY <2>1 DEF SqrtPrice
  <2>4. QED
    BY <1>5, <2>2, <2>3
<1>8. QED
  BY <1>6, <1>7

(* and the trade that a swap's logs make says what the swap did. *)

SwapsOf(pair) == [from : PoolsOf(pair), to : PoolsOf(pair)]

V2Swapped(pair, s) ==
  [dex |-> "v2", address |-> pair.address,
   in  |-> [i \in Side |-> Gained(s.from.reserves, s.to.reserves)[i] + Sided(pair, Flash, 0)[i]],
   out |-> [i \in Side |-> Gained(s.to.reserves, s.from.reserves)[i] + Sided(pair, Flash, 0)[i]],
   reserves |-> s.to.reserves]

V3Swapped(pair, s) ==
  [dex |-> "v3", address |-> pair.address, amount |-> V3Amounts(s.from, s.to),
   sqrt |-> s.to.sqrt, liquidity |-> s.to.liquidity]

Swapped(pair, s) == IF pair.dex = "v2" THEN V2Swapped(pair, s) ELSE V3Swapped(pair, s)

(* The root of a price before a trade can be zero: then its inverse is no   *)
(* number, and the program stops.                                           *)
Price == Int \cup {SqrtPrice(x, i) : x \in Int, i \in BOOLEAN}

SaysOf(pair, t, s) ==
  /\ t \in Trade /\ t.dex = pair.dex /\ t.address = pair.address
  /\ PriceAfter(t, TokenAddress(pair)) = PriceIn(pair, s.to) /\ PriceIn(pair, s.to) \in 0..Width - 1
  /\ WethVolume(t, TokenAddress(pair)) = Moved(pair, s) /\ Moved(pair, s) \in Int
  /\ PriceBefore(t, TokenAddress(pair)) \in Price
  /\ pair.dex = "v2" => /\ PriceBefore(t, TokenAddress(pair)) = PriceIn(pair, s.from)
                        /\ PriceIn(pair, s.from) \in 0..Width - 1

LEMMA V2SwapSays ==
  ASSUME NEW a \in Markets, NEW s \in SwapsOf(Contracts[a]), Contracts[a].dex = "v2"
  PROVE  SaysOf(Contracts[a], V2Swapped(Contracts[a], s), s)
<1> DEFINE pair == Contracts[a]
           t == V2Swapped(pair, s)
           F == s.from.reserves
           G == s.to.reserves
           S == Sided(pair, Flash, 0)
           u == TokenAddress(pair)
           w == WethSlot(pair)
<1>1. s.from \in PoolsOf(pair) /\ s.to \in PoolsOf(pair)
  BY DEF SwapsOf
<1>2. PairFacts(a, pair) /\ PoolFacts(pair, s.from) /\ PoolFacts(pair, s.to)
  BY <1>1, MarketFacts, PoolsTyped
<1>3. F \in [Side -> 1..Word - 1] /\ G \in [Side -> 1..Word - 1] /\ Word \in Nat \ {0}
  BY <1>2, NumberAssumption DEF PoolFacts
<1>4. S \in [Side -> Int] /\ S[w] = Flash /\ w \in Side /\ Flash \in Nat
  <2>1. Flash \in Int /\ 0 \in Int
    BY BoundsAssumption
  <2>2. S \in [Side -> Int]
    BY <2>1 DEF Sided, Side
  <2>3. QED
    BY <1>2, <2>2, BoundsAssumption DEF PairFacts
<1> DEFINE gain == [i \in Side |-> Gained(F, G)[i] + S[i]]
           lose == [i \in Side |-> Gained(G, F)[i] + S[i]]
<1>5. /\ t = [dex |-> "v2", address |-> pair.address, in |-> gain, out |-> lose, reserves |-> G]
      /\ t.dex = "v2" /\ t.address = pair.address /\ t.in = gain /\ t.out = lose /\ t.reserves = G
  BY DEF V2Swapped
<1> HIDE DEF F, G, S, w
<1>6. \A i \in Side : /\ gain[i] \in Int /\ lose[i] \in Int /\ F[i] \in 1..Word - 1 /\ G[i] \in 1..Word - 1
                      /\ G[i] - gain[i] + lose[i] = F[i]
                      /\ gain[i] + lose[i] = Abs(G[i] - F[i]) + S[i] + S[i]
  BY <1>3, <1>4 DEF Gained, Abs
<1>7. gain \in [Side -> Int] /\ lose \in [Side -> Int] /\ G \in [Side -> Int]
  <2>1. \A i \in Side : gain[i] \in Int /\ lose[i] \in Int /\ G[i] \in Int
    BY <1>6
  <2>2. G = [i \in Side |-> G[i]]
    BY <1>3
  <2>3. QED
    BY <2>1, <2>2
<1> HIDE DEF gain, lose
<1>8. t \in Trade
  <2>1. pair.address \in DOMAIN Contracts
    BY <1>2 DEF PairFacts
  <2> HIDE DEF t, pair
  <2>2. QED
    BY <1>5, <1>7, <2>1 DEF Trade, Amounts
<1>9. ReservesBefore(t) = F
  <2>1. \A i \in Side : (G[i] - gain[i] + lose[i]) % Word = F[i]
    <3>1. TAKE i \in Side
    <3>2. G[i] - gain[i] + lose[i] = F[i] /\ F[i] \in Nat /\ F[i] < Word /\ Word \in Nat \ {0}
      BY <1>3, <1>6
    <3>3. QED
      BY <3>2, DivideFacts
  <2>2. ReservesBefore(t) = [i \in 1..2 |-> (G[i] - gain[i] + lose[i]) % Word]
    <3> HIDE DEF t
    <3>1. QED
      BY <1>5 DEF ReservesBefore
  <2>3. F = [i \in Side |-> F[i]] /\ Side = 1..2
    BY <1>3 DEF Side
  <2>4. QED
    BY <2>1, <2>2, <2>3
<1>10. PriceBefore(t, u) = PriceIn(pair, s.from)
  <2>1. PriceBefore(t, u) = ReservesPrice(F, u)
    <3> HIDE DEF t, u
    <3>1. QED
      BY <1>5, <1>9 DEF PriceBefore, V2PriceBefore
  <2>2. QED
    BY <1>1, <2>1, V2PriceIs DEF F
<1>11. PriceAfter(t, u) = PriceIn(pair, s.to)
  <2>1. PriceAfter(t, u) = ReservesPrice(G, u)
    <3> HIDE DEF t, u
    <3>1. QED
      BY <1>5 DEF PriceAfter, V2PriceAfter
  <2>2. QED
    BY <1>1, <2>1, V2PriceIs DEF G
<1>12. WethVolume(t, u) = Moved(pair, s) /\ Moved(pair, s) \in Int
  <2>1. WethSide(u) = w
    BY <1>2 DEF PairFacts, w
  <2>2. WethVolume(t, u) = gain[w] + lose[w]
    <3> HIDE DEF t, u
    <3>1. QED
      BY <1>5, <2>1 DEF WethVolume, V2WethVolume
  <2>3. Moved(pair, s) = Abs(G[w] - F[w]) + 2 * Flash
    BY DEF Moved, F, G, w
  <2>4. gain[w] + lose[w] = Abs(G[w] - F[w]) + S[w] + S[w] /\ gain[w] \in Int /\ lose[w] \in Int
        /\ F[w] \in Int /\ G[w] \in Int
    BY <1>4, <1>6
  <2>5. Abs(G[w] - F[w]) \in Int
    BY <2>4 DEF Abs
  <2>6. QED
    BY <1>4, <2>2, <2>3, <2>4, <2>5
<1>13. PriceIn(pair, s.to) \in 0..Width - 1 /\ PriceIn(pair, s.from) \in 0..Width - 1 /\ Width \in Nat
  BY <1>2, NumberAssumption DEF PoolFacts
<1>14. t.dex = pair.dex
  BY <1>5
<1> HIDE DEF t, u, pair
<1>15. PriceBefore(t, u) \in Price
  BY <1>10, <1>13 DEF Price
<1>16. SaysOf(pair, t, s)
  BY <1>5, <1>8, <1>10, <1>11, <1>12, <1>13, <1>14, <1>15 DEF SaysOf, u
<1>17. QED
  BY <1>16 DEF t, pair

LEMMA V3SwapSays ==
  ASSUME NEW a \in Markets, NEW s \in SwapsOf(Contracts[a]), Contracts[a].dex = "v3"
  PROVE  SaysOf(Contracts[a], V3Swapped(Contracts[a], s), s)
<1> DEFINE pair == Contracts[a]
           t == V3Swapped(pair, s)
           u == TokenAddress(pair)
           w == WethSlot(pair)
           A == V3Amounts(s.from, s.to)
<1>1. s.from \in PoolsOf(pair) /\ s.to \in PoolsOf(pair)
  BY DEF SwapsOf
<1>2. PairFacts(a, pair) /\ PoolFacts(pair, s.from) /\ PoolFacts(pair, s.to)
  BY <1>1, MarketFacts, PoolsTyped
<1>3. /\ t.dex = "v3" /\ t.address = pair.address /\ t.amount = A
      /\ t.sqrt = s.to.sqrt /\ t.liquidity = s.to.liquidity
      /\ t = [dex |-> "v3", address |-> pair.address, amount |-> A, sqrt |-> s.to.sqrt, liquidity |-> s.to.liquidity]
  BY DEF V3Swapped
<1>4. /\ s.from.sqrt \in Nat \ {0} /\ s.to.sqrt \in Nat \ {0} /\ Scale \in Nat \ {0} /\ Word \in Nat \ {0}
      /\ s.from.liquidity \in Nat \ {0} /\ s.to.liquidity \in Nat \ {0} /\ Width \in Nat
  BY <1>2, NumberAssumption DEF PoolFacts
<1>5. A \in Amounts
  <2>1. s.from.sqrt * s.to.sqrt \in Nat \ {0}
    BY <1>4, TimesFacts
  <2>2. A[1] \in Int
    <3>1. s.from.liquidity * Scale * (s.from.sqrt - s.to.sqrt) \in Int
      BY <1>4
    <3>2. A[1] = (s.from.liquidity * Scale * (s.from.sqrt - s.to.sqrt)) \div (s.from.sqrt * s.to.sqrt)
      BY DEF V3Amounts
    <3> HIDE DEF A
    <3>3. QED
      BY <2>1, <3>1, <3>2
  <2>3. A[2] \in Int
    <3>1. s.from.liquidity * (s.to.sqrt - s.from.sqrt) \in Int
      BY <1>4
    <3>2. A[2] = (s.from.liquidity * (s.to.sqrt - s.from.sqrt)) \div Scale
      BY DEF V3Amounts
    <3> HIDE DEF A
    <3>3. QED
      BY <1>4, <3>1, <3>2
  <2>4. A = [i \in 1..2 |-> A[i]]
    BY DEF V3Amounts
  <2> HIDE DEF A
  <2>5. QED
    BY <2>2, <2>3, <2>4 DEF Amounts, Side
<1> HIDE DEF A
<1>6. t \in Trade
  <2>1. pair.address \in DOMAIN Contracts
    BY <1>2 DEF PairFacts
  <2> HIDE DEF t, pair
  <2>2. QED
    BY <1>3, <1>4, <1>5, <2>1 DEF Trade
<1>7. PriceAfter(t, u) = PriceIn(pair, s.to)
  <2>1. PriceAfter(t, u) = SqrtPrice(s.to.sqrt, u > Weth)
    <3> HIDE DEF t, u
    <3>1. QED
      BY <1>3 DEF PriceAfter, V3PriceAfter
  <2>2. QED
    BY <1>1, <2>1, V3PriceIs
<1>8. WethVolume(t, u) = Moved(pair, s) /\ Moved(pair, s) \in Int
  <2>1. WethSide(u) = w /\ w \in Side
    BY <1>2 DEF PairFacts, w
  <2>2. WethVolume(t, u) = Abs(A[w])
    <3> HIDE DEF t, u, w
    <3>1. QED
      BY <1>3, <2>1 DEF WethVolume, V3WethVolume
  <2>3. Moved(pair, s) = Abs(A[w])
    BY DEF Moved, A
  <2>4. A[w] \in Int
    BY <1>5, <2>1 DEF Amounts
  <2> HIDE DEF w
  <2>5. Abs(A[w]) \in Int
    BY <2>4 DEF Abs
  <2>6. QED
    BY <2>2, <2>3, <2>5
<1>9. PriceBefore(t, u) \in Price
  <2>1. PriceBefore(t, u) = SqrtPrice(SqrtBefore(t), u > Weth)
    <3> HIDE DEF t, u
    <3>1. QED
      BY <1>3 DEF PriceBefore, V3PriceBefore
  <2>2. SqrtBefore(t) \in Int
    <3>1. A[1] \in Int /\ A[2] \in Int /\ t.amount[1] = A[1] /\ t.amount[2] = A[2]
      BY <1>3, <1>5 DEF Amounts, Side
    <3> HIDE DEF t
    <3>2. ASSUME NEW x \in Int PROVE AdjustedValue(x, t) \in Int
      <4>1. Abs(x) * Scale \in Int /\ t.liquidity \in Nat \ {0}
        BY <1>3, <1>4 DEF Abs
      <4>2. (Abs(x) * Scale) \div t.liquidity \in Int
        BY <4>1
      <4>3. QED
        BY <4>1, <4>2 DEF AdjustedValue
    <3>3. /\ t.sqrt + AdjustedValue(t.amount[1], t) \in Int
          /\ t.sqrt - AdjustedValue(t.amount[2], t) \in Int
      BY <1>3, <1>4, <3>1, <3>2
    <3>4. QED
      BY <1>4, <3>3 DEF SqrtBefore
  <2>3. (u > Weth) \in BOOLEAN
    BY <1>2 DEF PairFacts
  <2>4. \A x \in Int, i \in BOOLEAN : SqrtPrice(x, i) \in Price
    BY DEF Price
  <2> HIDE DEF t, u
  <2>5. QED
    BY <2>1, <2>2, <2>3, <2>4
<1>10. PriceIn(pair, s.to) \in 0..Width - 1 /\ pair.dex = "v3"
  BY <1>2 DEF PoolFacts
<1> HIDE DEF t, u, pair
<1>11. SaysOf(pair, t, s)
  BY <1>3, <1>6, <1>7, <1>8, <1>9, <1>10 DEF SaysOf, u
<1>12. QED
  BY <1>11 DEF t, pair

LEMMA SwapSays ==
  ASSUME NEW a \in Markets, NEW s \in SwapsOf(Contracts[a])
  PROVE  SaysOf(Contracts[a], Swapped(Contracts[a], s), s)
<1>1. Contracts[a].dex \in {"v2", "v3"}
  BY MarketFacts DEF PairFacts
<1>2. QED
  BY <1>1, V2SwapSays, V3SwapSays DEF Swapped

(* The prices of a block grow by one with each swap, *)

LEMMA LargerMax ==
  ASSUME NEW B \in Nat, NEW S \in SUBSET (0..B), S # {}, NEW x \in 0..B
  PROVE  Max(S \cup {x}) = Larger(Max(S), x) /\ Min(S \cup {x}) = Smaller(Min(S), x)
<1> DEFINE U == S \cup {x}
<1>1. U \in SUBSET (0..B) /\ U # {} /\ x \in U /\ S \subseteq U /\ U \in SUBSET Nat /\ S \in SUBSET Nat
  OBVIOUS
<1>2. Max(S) \in S /\ \A y \in S : y <= Max(S)
  BY MaxFacts
<1>3. Max(U) \in U /\ \A y \in U : y <= Max(U)
  <2> HIDE DEF U
  <2>1. QED
    BY <1>1, MaxFacts
<1>4. Min(S) \in S /\ \A y \in S : Min(S) <= y
  BY <1>1, MinFacts
<1>5. Min(U) \in U /\ \A y \in U : Min(U) <= y
  <2> HIDE DEF U
  <2>1. QED
    BY <1>1, MinFacts
<1>6. /\ Max(S) <= Max(U) /\ x <= Max(U) /\ (Max(U) = x \/ Max(U) <= Max(S))
      /\ Min(U) <= Min(S) /\ Min(U) <= x /\ (Min(U) = x \/ Min(S) <= Min(U))
  BY <1>1, <1>2, <1>3, <1>4, <1>5
<1>7. Max(S) \in Int /\ Max(U) \in Int /\ Min(S) \in Int /\ Min(U) \in Int /\ x \in Int
  <2>1. \A y \in U : y \in Int
    BY <1>1
  <2> HIDE DEF U
  <2>2. QED
    BY <1>1, <1>2, <1>3, <1>4, <1>5, <2>1
<1> HIDE DEF U
<1>8. Max(U) = Larger(Max(S), x) /\ Min(U) = Smaller(Min(S), x)
  BY <1>6, <1>7 DEF Larger, Smaller
<1>9. QED
  BY <1>8 DEF U

LEMMA PriceBounds ==
  ASSUME NEW a \in Markets, NEW s \in SwapsOf(Contracts[a])
  PROVE  PriceIn(Contracts[a], s.from) \in 0..Width - 1 /\ PriceIn(Contracts[a], s.to) \in 0..Width - 1
BY PoolsTyped DEF SwapsOf, PoolFacts

LEMMA PricesFacts ==
  ASSUME NEW a \in Markets, NEW ss \in Seq(SwapsOf(Contracts[a])), ss # <<>>
  PROVE  /\ Prices(Contracts[a], ss) \in SUBSET (0..Width - 1) /\ Prices(Contracts[a], ss) # {}
         /\ Head(ss) \in SwapsOf(Contracts[a]) /\ Last(ss) \in SwapsOf(Contracts[a])
<1> DEFINE pair == Contracts[a]
<1>1. Head(ss) \in SwapsOf(pair) /\ Last(ss) \in SwapsOf(pair)
  <2> HIDE DEF pair
  <2>1. Len(ss) \in 1..Len(ss) /\ 1 \in 1..Len(ss)
    OBVIOUS
  <2>2. Head(ss) = ss[1] /\ Last(ss) = ss[Len(ss)]
    BY DEF Last
  <2>3. QED
    BY <2>1, <2>2 DEF pair
<1>2. \A s \in Range(ss) : s \in SwapsOf(pair)
  <2> HIDE DEF pair
  <2>1. Range(ss) = {ss[i] : i \in 1..Len(ss)}
    BY DEF Range
  <2>2. \A i \in 1..Len(ss) : ss[i] \in SwapsOf(pair)
    BY DEF pair
  <2>3. TAKE s \in Range(ss)
  <2>4. PICK i \in 1..Len(ss) : s = ss[i]
    BY <2>1
  <2>5. QED
    BY <2>2, <2>4
<1>3. \A p \in Prices(pair, ss) : p \in 0..Width - 1
  <2>1. \A s \in SwapsOf(pair) : PriceIn(pair, s.from) \in 0..Width - 1 /\ PriceIn(pair, s.to) \in 0..Width - 1
    BY PriceBounds
  <2> HIDE DEF pair
  <2>2. QED
    BY <1>1, <1>2, <2>1 DEF Prices
<1>4. PriceIn(pair, Head(ss).from) \in Prices(pair, ss)
  BY DEF Prices
<1>5. QED
  BY <1>1, <1>3, <1>4

LEMMA AppendRange ==
  ASSUME NEW S, NEW s \in Seq(S), NEW e \in S
  PROVE  Range(Append(s, e)) = Range(s) \cup {e}
<1>1. /\ DOMAIN s = 1..Len(s) /\ DOMAIN Append(s, e) = 1..Len(s) + 1 /\ Len(s) \in Nat
      /\ \A i \in 1..Len(s) : Append(s, e)[i] = s[i]
      /\ Append(s, e)[Len(s) + 1] = e
  OBVIOUS
<1>2. 1..Len(s) + 1 = (1..Len(s)) \cup {Len(s) + 1}
  BY <1>1
<1> DEFINE r == Append(s, e)
<1>3. Range(r) = {r[i] : i \in (1..Len(s)) \cup {Len(s) + 1}} /\ Range(s) = {s[i] : i \in 1..Len(s)}
  BY <1>1, <1>2 DEF Range
<1> HIDE DEF r
<1>4. /\ r[Len(s) + 1] = e
      /\ \A i \in 1..Len(s) : r[i] = s[i]
  BY <1>1 DEF r
<1>5. Range(r) = Range(s) \cup {e}
  BY <1>3, <1>4
<1>6. QED
  BY <1>5 DEF r

LEMMA PricesAppend ==
  ASSUME NEW S, NEW s \in Seq(S), NEW e \in S, NEW pair
  PROVE  /\ Last(Append(s, e)) = e
         /\ s # <<>> => /\ Head(Append(s, e)) = Head(s)
                        /\ Prices(pair, Append(s, e)) = Prices(pair, s) \cup {PriceIn(pair, e.to)}
<1> DEFINE r == Append(s, e)
<1>1. Last(r) = e
  BY AppendEnds
<1>2. Range(r) = Range(s) \cup {e}
  BY AppendRange
<1>3. CASE s # <<>>
  <2>1. Head(r) = Head(s)
    BY <1>3
  <2> HIDE DEF r
  <2>2. Prices(pair, r) = Prices(pair, s) \cup {PriceIn(pair, e.to)}
    BY <1>2, <2>1 DEF Prices
  <2>3. QED
    BY <1>1, <1>3, <2>1, <2>2 DEF r
<1>4. QED
  BY <1>1, <1>3 DEF r

LEMMA PricesOne ==
  ASSUME NEW e, NEW pair
  PROVE  /\ Last(Append(<<>>, e)) = e /\ Head(Append(<<>>, e)) = e
         /\ Prices(pair, Append(<<>>, e)) = {PriceIn(pair, e.from)} \cup {PriceIn(pair, e.to)}
<1> DEFINE r == Append(<<>>, e)
<1>1. r \in Seq({e}) /\ Len(r) = 1 /\ r[1] = e /\ Head(r) = e
  OBVIOUS
<1> HIDE DEF r
<1>2. Last(r) = e
  BY <1>1 DEF Last
<1>3. Range(r) = {e}
  <2>1. DOMAIN r = {1}
    BY <1>1
  <2>2. QED
    BY <1>1, <2>1 DEF Range
<1>4. Prices(pair, r) = {PriceIn(pair, e.from)} \cup {PriceIn(pair, e.to)}
  BY <1>1, <1>3 DEF Prices
<1>5. QED
  BY <1>1, <1>2, <1>4 DEF r

(* and the block's tick follows. *)

Tick == [open : Price, close : Price, high : Price, low : Price, volume : Int]

PairTick(pair) == IF pair.dex = "v2" THEN [pair : {pair}, tick : Tick, reserves : Amounts]
                                     ELSE [pair : {pair}, tick : Tick]

Follows(pair, tick, ss) ==
  /\ tick.close = PriceIn(pair, Last(ss).to)
  /\ tick.volume = Volume(pair, ss)
  /\ pair.dex = "v2" => /\ tick.open = PriceIn(pair, Head(ss).from)
                        /\ tick.high = Max(Prices(pair, ss)) /\ tick.low = Min(Prices(pair, ss))

LEMMA SingletonMax ==
  ASSUME NEW B \in Nat, NEW x \in 0..B
  PROVE  Max({x}) = x /\ Min({x}) = x
<1>1. {x} \in SUBSET (0..B) /\ {x} # {} /\ {x} \in SUBSET Nat
  OBVIOUS
<1>2. Max({x}) \in {x} /\ Min({x}) \in {x}
  BY <1>1, MaxFacts, MinFacts
<1>3. QED
  BY <1>2

LEMMA FirstTick ==
  ASSUME NEW a \in Markets, NEW s \in SwapsOf(Contracts[a]), NEW t, SaysOf(Contracts[a], t, s)
  PROVE  /\ NewTick(t, Contracts[a]) \in PairTick(Contracts[a])
         /\ Follows(Contracts[a], NewTick(t, Contracts[a]).tick, Append(<<>>, s))
<1> DEFINE pair == Contracts[a]
           u == TokenAddress(pair)
           B == Width - 1
           tick == FromIndexedTrade(t, u)
           one == Append(<<>>, s)
<1>1. B \in Nat /\ 0..B \subseteq Price
  BY NumberAssumption DEF Price
<1>2. /\ t \in Trade /\ t.dex = pair.dex /\ PriceAfter(t, u) = PriceIn(pair, s.to) /\ PriceIn(pair, s.to) \in 0..B
      /\ WethVolume(t, u) = Moved(pair, s) /\ Moved(pair, s) \in Int /\ PriceBefore(t, u) \in Price
      /\ pair.dex = "v2" => PriceBefore(t, u) = PriceIn(pair, s.from) /\ PriceIn(pair, s.from) \in 0..B
  BY DEF SaysOf
<1>3. /\ <<>> \in Seq(SwapsOf(pair)) /\ s \in SwapsOf(pair)
      /\ Last(one) = s /\ Head(one) = s
      /\ Prices(pair, one) = {PriceIn(pair, s.from)} \cup {PriceIn(pair, s.to)}
  BY PricesOne
<1>4. Volume(pair, one) = Moved(pair, s)
  <2>1. Volume(pair, one) = Volume(pair, <<>>) + Moved(pair, s)
    BY <1>3, VolumeAppend
  <2>2. QED
    BY <1>2, <2>1, VolumeEmpty
<1>5. tick = [open |-> PriceBefore(t, u), close |-> PriceAfter(t, u),
              high |-> Larger(PriceBefore(t, u), PriceAfter(t, u)),
              low |-> Smaller(PriceBefore(t, u), PriceAfter(t, u)), volume |-> WethVolume(t, u)]
  BY DEF FromIndexedTrade
<1> HIDE DEF B, tick, one
<1>6. tick \in Tick
  <2>1. \A x, y \in Price : Larger(x, y) \in Price /\ Smaller(x, y) \in Price
    BY DEF Larger, Smaller
  <2>2. PriceBefore(t, u) \in Price /\ PriceAfter(t, u) \in Price /\ WethVolume(t, u) \in Int
    BY <1>1, <1>2
  <2>3. QED
    BY <1>5, <2>1, <2>2 DEF Tick
<1>7. NewTick(t, pair) \in PairTick(pair) /\ NewTick(t, pair).tick = tick
  <2>1. CASE t.dex = "v2"
    <3>1. NewTick(t, pair) = [pair |-> pair, tick |-> tick, reserves |-> t.reserves]
      BY <2>1 DEF NewTick, V2NewTick, tick
    <3>2. t.reserves \in Amounts
      BY <1>2, <2>1 DEF Trade
    <3> HIDE DEF pair
    <3>3. QED
      BY <1>2, <1>6, <2>1, <3>1, <3>2 DEF PairTick
  <2>2. CASE t.dex # "v2"
    <3>1. NewTick(t, pair) = [pair |-> pair, tick |-> tick]
      BY <2>2 DEF NewTick, V3NewTick, tick
    <3> HIDE DEF pair
    <3>2. QED
      BY <1>2, <1>6, <2>2, <3>1 DEF PairTick
  <2>3. QED
    BY <2>1, <2>2
<1>8. Follows(pair, tick, one)
  <2>1. tick.close = PriceIn(pair, Last(one).to) /\ tick.volume = Volume(pair, one)
    BY <1>2, <1>3, <1>4, <1>5
  <2>2. ASSUME pair.dex = "v2"
        PROVE  /\ tick.open = PriceIn(pair, Head(one).from)
               /\ tick.high = Max(Prices(pair, one)) /\ tick.low = Min(Prices(pair, one))
    <3> DEFINE x == PriceIn(pair, s.from)
               y == PriceIn(pair, s.to)
    <3>1. /\ x \in 0..B /\ y \in 0..B /\ tick.open = x /\ tick.high = Larger(x, y) /\ tick.low = Smaller(x, y)
          /\ Head(one) = s /\ Prices(pair, one) = {x} \cup {y}
      BY <1>2, <1>3, <1>5, <2>2
    <3> HIDE DEF x, y
    <3>2. Max({x}) = x /\ Min({x}) = x
      BY <1>1, <3>1, SingletonMax
    <3>3. Max({x} \cup {y}) = Larger(Max({x}), y) /\ Min({x} \cup {y}) = Smaller(Min({x}), y)
      BY <1>1, <3>1, LargerMax
    <3>4. QED
      BY <3>1, <3>2, <3>3 DEF x
  <2>3. QED
    BY <2>1, <2>2 DEF Follows
<1>9. QED
  BY <1>7, <1>8 DEF one

LEMMA NextTick ==
  ASSUME NEW a \in Markets, NEW ss \in Seq(SwapsOf(Contracts[a])), ss # <<>>,
         NEW s \in SwapsOf(Contracts[a]), NEW t, SaysOf(Contracts[a], t, s),
         NEW pt \in PairTick(Contracts[a]), Follows(Contracts[a], pt.tick, ss)
  PROVE  /\ TickWith(pt, t) \in PairTick(Contracts[a])
         /\ Follows(Contracts[a], TickWith(pt, t).tick, Append(ss, s))
<1> DEFINE pair == Contracts[a]
           u == TokenAddress(pair)
           B == Width - 1
           old == pt.tick
           tick == AddIndexedTrade(old, t, u)
           more == Append(ss, s)
<1>1. B \in Nat /\ 0..B \subseteq Price
  BY NumberAssumption DEF Price
<1>2. /\ t \in Trade /\ t.dex = pair.dex /\ PriceAfter(t, u) = PriceIn(pair, s.to) /\ PriceIn(pair, s.to) \in 0..B
      /\ WethVolume(t, u) = Moved(pair, s) /\ Moved(pair, s) \in Int
  BY DEF SaysOf
<1>3. /\ Last(more) = s /\ Head(more) = Head(ss)
      /\ Prices(pair, more) = Prices(pair, ss) \cup {PriceIn(pair, s.to)}
  <2> HIDE DEF pair
  <2>1. QED
    BY PricesAppend DEF pair
<1>4. Volume(pair, more) = Volume(pair, ss) + Moved(pair, s)
  BY VolumeAppend
<1>5. old \in Tick /\ pt.pair = pair /\ Follows(pair, old, ss)
  BY DEF PairTick
<1>6. tick = [old EXCEPT !.high = Larger(@, PriceAfter(t, u)), !.low = Smaller(@, PriceAfter(t, u)),
                         !.close = PriceAfter(t, u), !.volume = @ + WethVolume(t, u)]
  BY DEF AddIndexedTrade
<1> HIDE DEF B, tick, more, old, pair, u
<1>7. /\ tick \in Tick /\ tick.open = old.open /\ tick.close = PriceAfter(t, u)
      /\ tick.volume = old.volume + WethVolume(t, u)
      /\ tick.high = Larger(old.high, PriceAfter(t, u)) /\ tick.low = Smaller(old.low, PriceAfter(t, u))
  <2>1. \A x, y \in Price : Larger(x, y) \in Price /\ Smaller(x, y) \in Price
    BY DEF Larger, Smaller
  <2>2. PriceAfter(t, u) \in Price /\ WethVolume(t, u) \in Int
    BY <1>1, <1>2
  <2> HIDE DEF Price
  <2>3. /\ old.high \in Price /\ old.low \in Price /\ old.volume \in Int
        /\ Larger(old.high, PriceAfter(t, u)) \in Price /\ Smaller(old.low, PriceAfter(t, u)) \in Price
    BY <1>5, <2>1, <2>2 DEF Tick
  <2> DEFINE p == PriceAfter(t, u)
             v == WethVolume(t, u)
             h == Larger(old.high, p)
             l == Smaller(old.low, p)
  <2>4. tick = [old EXCEPT !.high = h, !.low = l, !.close = p, !.volume = old.volume + v]
    BY <1>5, <1>6 DEF Tick
  <2> HIDE DEF p, v, h, l
  <2>5. /\ tick \in Tick /\ tick.open = old.open /\ tick.close = p
        /\ tick.volume = old.volume + v /\ tick.high = h /\ tick.low = l
    <3>1. p \in Price /\ v \in Int /\ h \in Price /\ l \in Price /\ old.volume \in Int
      BY <2>2, <2>3 DEF p, v, h, l
    <3>2. old.volume + v \in Int
      BY <3>1
    <3> DEFINE w == old.volume + v
    <3> HIDE DEF w
    <3>3. tick = [old EXCEPT !.high = h, !.low = l, !.close = p, !.volume = w] /\ w \in Int
      BY <2>4, <3>2 DEF w
    <3>4. tick \in Tick
      BY <1>5, <3>1, <3>3 DEF Tick
    <3>5. tick.open = old.open /\ tick.close = p /\ tick.volume = w
      BY <1>5, <3>3 DEF Tick
    <3>6. tick.high = h /\ tick.low = l
      BY <1>5, <3>3 DEF Tick
    <3>7. QED
      BY <3>4, <3>5, <3>6 DEF w
  <2>6. QED
    BY <2>5 DEF p, v, h, l
<1>8. TickWith(pt, t) \in PairTick(pair) /\ TickWith(pt, t).tick = tick
  <2>1. CASE t.dex = "v2"
    <3>1. TickWith(pt, t) = [pt EXCEPT !.tick = tick, !.reserves = t.reserves]
      BY <1>5, <2>1 DEF TickWith, V2TickWith, tick, old, u
    <3>2. t.reserves \in Amounts /\ pt \in [pair : {pair}, tick : Tick, reserves : Amounts]
      BY <1>2, <2>1 DEF Trade, PairTick, pair
    <3>3. QED
      BY <1>2, <1>7, <2>1, <3>1, <3>2 DEF PairTick
  <2>2. CASE t.dex # "v2"
    <3>1. TickWith(pt, t) = [pt EXCEPT !.tick = tick]
      BY <1>5, <2>2 DEF TickWith, V3TickWith, tick, old, u
    <3>2. pt \in [pair : {pair}, tick : Tick]
      BY <1>2, <2>2 DEF PairTick, pair
    <3>3. QED
      BY <1>2, <1>7, <2>2, <3>1, <3>2 DEF PairTick
  <2>3. QED
    BY <2>1, <2>2
<1>9. Follows(pair, tick, more)
  <2>1. tick.close = PriceIn(pair, Last(more).to) /\ tick.volume = Volume(pair, more)
    BY <1>2, <1>3, <1>4, <1>5, <1>7 DEF Follows
  <2>2. ASSUME pair.dex = "v2"
        PROVE  /\ tick.open = PriceIn(pair, Head(more).from)
               /\ tick.high = Max(Prices(pair, more)) /\ tick.low = Min(Prices(pair, more))
    <3>1. Prices(pair, ss) \in SUBSET (0..B) /\ Prices(pair, ss) # {}
      BY PricesFacts DEF pair, B
    <3> DEFINE P == Prices(pair, ss)
               y == PriceIn(pair, s.to)
    <3>2. /\ y \in 0..B /\ tick.high = Larger(Max(P), y) /\ tick.low = Smaller(Min(P), y)
          /\ Prices(pair, more) = P \cup {y} /\ tick.open = PriceIn(pair, Head(more).from)
      BY <1>2, <1>3, <1>5, <1>7, <2>2 DEF Follows
    <3> HIDE DEF P, y
    <3>3. Max(P \cup {y}) = Larger(Max(P), y) /\ Min(P \cup {y}) = Smaller(Min(P), y)
      BY <1>1, <3>1, <3>2, LargerMax DEF P
    <3>4. QED
      BY <3>2, <3>3
  <2>3. QED
    BY <2>1, <2>2 DEF Follows
<1>10. QED
  BY <1>8, <1>9 DEF pair, more

(* What is emitted comes at the end of the logs, numbered on. *)

Stamp(log, i, b) ==
  [event |-> log.event, address |-> log.address, data |-> log.data, index |-> i, block |-> b]

Emitted(new, ls, b) ==
  ls \o [i \in 1..Len(new) |-> [event |-> new[i].event, address |-> new[i].address,
                                data |-> new[i].data, index |-> Len(ls) + i, block |-> b]]

LEMMA ConcatFacts ==
  ASSUME NEW S, NEW s \in Seq(S), NEW n \in Nat, NEW f \in [1..n -> S]
  PROVE  /\ s \o f \in Seq(S) /\ Len(s \o f) = Len(s) + n
         /\ \A i \in 1..Len(s) : (s \o f)[i] = s[i]
         /\ \A i \in 1..n : (s \o f)[Len(s) + i] = f[i]
<1> DEFINE l == Len(s)
           r == s \o f
<1>1. f \in Seq(S) /\ Len(f) = n /\ l \in Nat
  OBVIOUS
<1>2. /\ r \in Seq(S) /\ Len(r) = l + n
      /\ \A i \in 1..l + n : r[i] = IF i <= l THEN s[i] ELSE f[i - l]
  BY <1>1, ConcatProperties
<1> HIDE DEF r, l
<1>3. \A i \in 1..l : i \in 1..l + n /\ i <= l
  BY <1>1
<1>4. \A i \in 1..n : l + i \in 1..l + n /\ ~ (l + i <= l) /\ (l + i) - l = i
  BY <1>1
<1>5. (\A i \in 1..l : r[i] = s[i]) /\ \A i \in 1..n : r[l + i] = f[i]
  BY <1>2, <1>3, <1>4
<1>6. QED
  BY <1>2, <1>5 DEF r, l

LEMMA ConcatOne ==
  ASSUME NEW S, NEW s \in Seq(S), NEW f \in [1..1 -> S]
  PROVE  s \o f = Append(s, f[1])
<1> DEFINE r == s \o f
           q == Append(s, f[1])
           n == Len(s)
<1>1. n \in Nat /\ f[1] \in S /\ 1 \in 1..1 /\ 1 \in Nat
  OBVIOUS
<1>2. r \in Seq(S) /\ Len(r) = n + 1 /\ (\A i \in 1..n : r[i] = s[i]) /\ r[n + 1] = f[1]
  <2>1. ASSUME NEW k \in Nat, k = 1
        PROVE  /\ r \in Seq(S) /\ Len(r) = n + k
               /\ \A i \in 1..n : r[i] = s[i]
               /\ \A i \in 1..k : r[n + i] = f[i]
    <3>1. f \in [1..k -> S]
      BY <2>1
    <3>2. QED
      BY <3>1, ConcatFacts
  <2> HIDE DEF r, n
  <2>2. QED
    BY <1>1, <2>1
<1>3. q \in Seq(S) /\ Len(q) = n + 1 /\ (\A i \in 1..n : q[i] = s[i]) /\ q[n + 1] = f[1]
  BY <1>1
<1> HIDE DEF r, q, n
<1>4. \A i \in 1..n + 1 : i \in 1..n \/ i = n + 1
  BY <1>1
<1>5. \A i \in 1..Len(r) : r[i] = q[i]
  BY <1>2, <1>3, <1>4
<1>6. r = q
  BY <1>2, <1>3, <1>5, SameSeq
<1>7. QED
  BY <1>6 DEF r, q

LEMMA ConcatMore ==
  ASSUME NEW S, NEW s \in Seq(S), NEW n \in Nat, NEW f \in [1..n + 1 -> S]
  PROVE  s \o f = Append(s \o [i \in 1..n |-> f[i]], f[n + 1])
<1> DEFINE g == [i \in 1..n |-> f[i]]
           r == s \o f
           p == s \o g
           q == Append(p, f[n + 1])
           l == Len(s)
<1>1. l \in Nat /\ n + 1 \in Nat /\ n + 1 \in 1..n + 1 /\ f[n + 1] \in S
  OBVIOUS
<1>2. g \in [1..n -> S] /\ \A i \in 1..n : g[i] = f[i] /\ i \in 1..n + 1
  OBVIOUS
<1>3. /\ r \in Seq(S) /\ Len(r) = l + (n + 1)
      /\ \A i \in 1..l : r[i] = s[i]
      /\ \A i \in 1..n + 1 : r[l + i] = f[i]
  BY <1>1, ConcatFacts
<1> HIDE DEF g, r
<1>4. /\ p \in Seq(S) /\ Len(p) = l + n
      /\ \A i \in 1..l : p[i] = s[i]
      /\ \A i \in 1..n : p[l + i] = g[i]
  BY <1>2, ConcatFacts
<1> HIDE DEF p, l
<1>5. /\ q \in Seq(S) /\ Len(q) = l + n + 1 /\ q[l + n + 1] = f[n + 1]
      /\ \A i \in 1..l + n : q[i] = p[i]
  BY <1>1, <1>4
<1> HIDE DEF q
<1>6. ASSUME NEW i \in 1..Len(r) PROVE r[i] = q[i]
  <2>1. CASE i \in 1..l
    <3>1. i \in 1..l + n
      BY <1>1, <2>1
    <3>2. QED
      BY <1>3, <1>4, <1>5, <2>1, <3>1
  <2>2. CASE i \in l + 1..l + n
    <3>1. i - l \in 1..n /\ i = l + (i - l) /\ i \in 1..l + n
      BY <1>1, <2>2
    <3>2. r[l + (i - l)] = f[i - l] /\ p[l + (i - l)] = g[i - l] /\ g[i - l] = f[i - l]
      BY <1>2, <1>3, <1>4, <3>1
    <3>3. QED
      BY <1>5, <3>1, <3>2
  <2>3. CASE i = l + n + 1
    <3>1. i = l + (n + 1)
      BY <1>1, <2>3
    <3>2. r[l + (n + 1)] = f[n + 1]
      BY <1>1, <1>3
    <3>3. QED
      BY <1>5, <2>3, <3>1, <3>2
  <2>4. QED
    BY <1>1, <1>3, <2>1, <2>2, <2>3
<1>7. Len(r) = Len(q)
  BY <1>1, <1>3, <1>5
<1>8. r = q
  BY <1>3, <1>5, <1>6, <1>7, SameSeq
<1>9. QED
  BY <1>8 DEF r, q, p, g

LEMMA EmitOne ==
  ASSUME NEW ls \in Seq(Log), NEW b, NEW x, Stamp(x, Len(ls) + 1, b) \in Log
  PROVE  Emitted(<<x>>, ls, b) = Append(ls, Stamp(x, Len(ls) + 1, b))
<1> DEFINE new == <<x>>
           n == Len(ls)
           f == [i \in 1..Len(new) |-> [event |-> new[i].event, address |-> new[i].address,
                                        data |-> new[i].data, index |-> n + i, block |-> b]]
<1>1. Len(new) = 1 /\ new[1] = x /\ \A i \in 1..1 : i = 1
  OBVIOUS
<1>2. DOMAIN f = 1..1 /\ f = [i \in 1..1 |-> f[i]] /\ f[1] = Stamp(x, n + 1, b)
  BY <1>1 DEF Stamp
<1>3. Emitted(new, ls, b) = ls \o f
  BY DEF Emitted
<1> HIDE DEF f, new, n
<1>4. f \in [1..1 -> Log]
  BY <1>1, <1>2 DEF n
<1>5. QED
  BY <1>2, <1>3, <1>4, ConcatOne DEF new, n

LEMMA EmitTwo ==
  ASSUME NEW ls \in Seq(Log), NEW b, NEW x, NEW y,
         Stamp(x, Len(ls) + 1, b) \in Log, Stamp(y, Len(ls) + 2, b) \in Log
  PROVE  Emitted(<<x, y>>, ls, b) = Append(Append(ls, Stamp(x, Len(ls) + 1, b)), Stamp(y, Len(ls) + 2, b))
<1> DEFINE new == <<x, y>>
           n == Len(ls)
           f == [i \in 1..Len(new) |-> [event |-> new[i].event, address |-> new[i].address,
                                        data |-> new[i].data, index |-> n + i, block |-> b]]
           g == [i \in 1..1 |-> f[i]]
<1>1. Len(new) = 2 /\ new[1] = x /\ new[2] = y /\ (\A i \in 1..2 : i = 1 \/ i = 2) /\ \A i \in 1..1 : i = 1
  OBVIOUS
<1>2. /\ DOMAIN f = 1..2 /\ f = [i \in 1..2 |-> f[i]]
      /\ f[1] = Stamp(x, n + 1, b) /\ f[2] = Stamp(y, n + 2, b)
  BY <1>1 DEF Stamp
<1>3. Emitted(new, ls, b) = ls \o f
  BY DEF Emitted
<1> HIDE DEF f, new, n
<1>4. f \in [1..1 + 1 -> Log] /\ 1 \in Nat
  <2>1. 1 + 1 = 2
    OBVIOUS
  <2>2. f[1] \in Log /\ f[2] \in Log
    BY <1>2 DEF n
  <2>3. QED
    BY <1>1, <1>2, <2>1, <2>2
<1>5. ls \o f = Append(ls \o g, f[1 + 1])
  BY <1>4, ConcatMore
<1>6. g \in [1..1 -> Log] /\ g[1] = f[1]
  BY <1>1, <1>2, <1>4
<1> HIDE DEF g
<1>7. ls \o g = Append(ls, g[1])
  BY <1>6, ConcatOne
<1>8. 1 + 1 = 2
  OBVIOUS
<1>9. QED
  BY <1>2, <1>3, <1>5, <1>6, <1>7, <1>8 DEF new, n

LEMMA EmitThree ==
  ASSUME NEW ls \in Seq(Log), NEW b, NEW x, NEW y, NEW z, Stamp(x, Len(ls) + 1, b) \in Log,
         Stamp(y, Len(ls) + 2, b) \in Log, Stamp(z, Len(ls) + 3, b) \in Log
  PROVE  Emitted(<<x, y, z>>, ls, b)
           = Append(Append(Append(ls, Stamp(x, Len(ls) + 1, b)), Stamp(y, Len(ls) + 2, b)),
                    Stamp(z, Len(ls) + 3, b))
<1> DEFINE new == <<x, y, z>>
           two == <<x, y>>
           n == Len(ls)
           f == [i \in 1..Len(new) |-> [event |-> new[i].event, address |-> new[i].address,
                                        data |-> new[i].data, index |-> n + i, block |-> b]]
           e == [i \in 1..Len(two) |-> [event |-> two[i].event, address |-> two[i].address,
                                        data |-> two[i].data, index |-> n + i, block |-> b]]
           g == [i \in 1..2 |-> f[i]]
<1>1. /\ Len(new) = 3 /\ new[1] = x /\ new[2] = y /\ new[3] = z /\ (\A i \in 1..3 : i = 1 \/ i = 2 \/ i = 3)
      /\ Len(two) = 2 /\ two[1] = x /\ two[2] = y /\ \A i \in 1..2 : i = 1 \/ i = 2
  OBVIOUS
<1>2. /\ DOMAIN f = 1..3 /\ f = [i \in 1..3 |-> f[i]]
      /\ f[1] = Stamp(x, n + 1, b) /\ f[2] = Stamp(y, n + 2, b) /\ f[3] = Stamp(z, n + 3, b)
  BY <1>1 DEF Stamp
<1>3. /\ DOMAIN e = 1..2 /\ e = [i \in 1..2 |-> e[i]]
      /\ e[1] = Stamp(x, n + 1, b) /\ e[2] = Stamp(y, n + 2, b)
  BY <1>1 DEF Stamp
<1>4. Emitted(new, ls, b) = ls \o f /\ Emitted(two, ls, b) = ls \o e
  BY DEF Emitted
<1> HIDE DEF f, e, new, two, n
<1>5. g = e
  <2>1. \A i \in 1..2 : f[i] = e[i]
    BY <1>1, <1>2, <1>3
  <2>2. QED
    BY <1>3, <2>1
<1>6. f \in [1..2 + 1 -> Log] /\ 2 \in Nat
  <2>1. 2 + 1 = 3
    OBVIOUS
  <2>2. f[1] \in Log /\ f[2] \in Log /\ f[3] \in Log
    BY <1>2 DEF n
  <2>3. QED
    BY <1>1, <1>2, <2>1, <2>2
<1>7. ls \o f = Append(ls \o g, f[2 + 1])
  BY <1>6, ConcatMore
<1> HIDE DEF g
<1>8. Emitted(two, ls, b) = Append(Append(ls, Stamp(x, n + 1, b)), Stamp(y, n + 2, b))
  BY EmitTwo DEF two, n
<1>9. 2 + 1 = 3
  OBVIOUS
<1>10. QED
  BY <1>2, <1>4, <1>5, <1>7, <1>8, <1>9 DEF new, n

(* What each event leaves in the logs, and the trades it makes *)

LogsInv(ls, b) == ls \in Seq(Log) /\ \A i \in 1..Len(ls) : ls[i].index = i /\ ls[i].block = b

LEMMA StampTyped ==
  ASSUME NEW a \in DOMAIN Contracts, NEW i \in Nat, NEW b \in Nat
  PROVE  /\ \A r \in Amounts : Stamp(LogBy(a, "Sync", [reserves |-> r]), i, b) \in Log
         /\ \A x, y \in Amounts : Stamp(LogBy(a, "SwapV2", [in |-> x, out |-> y]), i, b) \in Log
         /\ \A x \in Amounts, r \in Int, l \in Int :
              Stamp(LogBy(a, "SwapV3", [amount |-> x, sqrt |-> r, liquidity |-> l]), i, b) \in Log
         /\ Stamp(LogBy(a, "Other", NoData), i, b) \in Log
<1>1. ASSUME NEW e, NEW D, NEW d \in D PROVE Stamp(LogBy(a, e, d), i, b) \in LogOf(e, D)
  BY DEF Stamp, LogBy, LogOf
<1>2. \A r \in Amounts : [reserves |-> r] \in [reserves : Amounts]
  OBVIOUS
<1>3. \A x, y \in Amounts : [in |-> x, out |-> y] \in [in : Amounts, out : Amounts]
  OBVIOUS
<1>4. \A x \in Amounts, r \in Int, l \in Int :
        [amount |-> x, sqrt |-> r, liquidity |-> l] \in [amount : Amounts, sqrt : Int, liquidity : Int]
  OBVIOUS
<1>5. NoData \in {NoData}
  OBVIOUS
<1>6. \A r \in Amounts : Stamp(LogBy(a, "Sync", [reserves |-> r]), i, b) \in Log
  BY <1>1, <1>2 DEF Log
<1>7. \A x, y \in Amounts : Stamp(LogBy(a, "SwapV2", [in |-> x, out |-> y]), i, b) \in Log
  BY <1>1, <1>3 DEF Log
<1>8. \A x \in Amounts, r \in Int, l \in Int :
        Stamp(LogBy(a, "SwapV3", [amount |-> x, sqrt |-> r, liquidity |-> l]), i, b) \in Log
  BY <1>1, <1>4 DEF Log
<1>9. Stamp(LogBy(a, "Other", NoData), i, b) \in Log
  BY <1>1, <1>5 DEF Log
<1>10. QED
  BY <1>6, <1>7, <1>8, <1>9

LEMMA LogsAppend ==
  ASSUME NEW ls, NEW b, LogsInv(ls, b), NEW x, NEW i, i = Len(ls) + 1, Stamp(x, i, b) \in Log
  PROVE  /\ LogsInv(Append(ls, Stamp(x, i, b)), b)
         /\ Len(Append(ls, Stamp(x, i, b))) = Len(ls) + 1 /\ Append(ls, Stamp(x, i, b)) # <<>>
         /\ Append(ls, Stamp(x, i, b))[Len(Append(ls, Stamp(x, i, b)))] = Stamp(x, i, b)
         /\ ls \in Seq(Log) /\ Len(ls) \in Nat /\ Append(ls, Stamp(x, i, b)) \in Seq(Log)
<1> DEFINE log == Stamp(x, i, b)
           r == Append(ls, log)
<1>1. ls \in Seq(Log) /\ Len(ls) \in Nat /\ log \in Log /\ log.index = i /\ log.block = b
  BY DEF LogsInv, Stamp
<1> HIDE DEF log
<1>2. /\ r \in Seq(Log) /\ Len(r) = Len(ls) + 1 /\ r[Len(ls) + 1] = log /\ r # <<>>
      /\ \A k \in 1..Len(ls) : r[k] = ls[k]
  BY <1>1
<1> HIDE DEF r
<1>3. ASSUME NEW k \in 1..Len(r) PROVE r[k].index = k /\ r[k].block = b
  <2>1. k \in 1..Len(ls) \/ k = Len(ls) + 1
    BY <1>1, <1>2
  <2>2. QED
    BY <1>1, <1>2, <2>1 DEF LogsInv
<1>4. LogsInv(r, b)
  BY <1>2, <1>3 DEF LogsInv
<1>5. QED
  BY <1>1, <1>2, <1>4 DEF r, log

(* To the logs ls have come those of the trade t. *)
LogTrade(new, ls, t, b) == LogsInv(new, b) /\ FromLogs(new) = Append(FromLogs(ls), t)

V2Emission(a, t, ls, b) ==
  Emitted(<<LogBy(a, "Sync", [reserves |-> t.reserves]), LogBy(a, "SwapV2", [in |-> t.in, out |-> t.out])>>, ls, b)

LEMMA V2Emits ==
  ASSUME NEW a \in Markets, NEW s \in SwapsOf(Contracts[a]), Contracts[a].dex = "v2",
         NEW ls, NEW b \in Nat, LogsInv(ls, b), NEW t, t = V2Swapped(Contracts[a], s)
  PROVE  LogTrade(V2Emission(a, t, ls, b), ls, t, b)
<1> DEFINE x == LogBy(a, "Sync", [reserves |-> t.reserves])
           y == LogBy(a, "SwapV2", [in |-> t.in, out |-> t.out])
           n == Len(ls)
           X == Stamp(x, n + 1, b)
           Y == Stamp(y, n + 2, b)
           one == Append(ls, X)
           two == Append(one, Y)
<1>1. ls \in Seq(Log) /\ n \in Nat /\ n + 1 \in Nat /\ n + 2 \in Nat /\ (n + 1) + 1 = n + 2
  BY DEF LogsInv
<1>2. t \in Trade /\ t.dex = "v2" /\ t.address = a /\ a \in DOMAIN Contracts
  BY V2SwapSays, MarketFacts DEF SaysOf, PairFacts
<1>3. t.in \in Amounts /\ t.out \in Amounts /\ t.reserves \in Amounts
      /\ t = [dex |-> "v2", address |-> t.address, in |-> t.in, out |-> t.out, reserves |-> t.reserves]
  BY <1>2 DEF Trade
<1>4. X \in Log /\ Y \in Log
  BY <1>1, <1>2, <1>3, StampTyped
<1>5. /\ X.event = "Sync" /\ X.address = a /\ X.index = n + 1 /\ X.block = b /\ X.data.reserves = t.reserves
      /\ Y.event = "SwapV2" /\ Y.address = a /\ Y.index = n + 2 /\ Y.block = b
      /\ Y.data.in = t.in /\ Y.data.out = t.out
  BY DEF Stamp, LogBy
<1>6. Emitted(<<x, y>>, ls, b) = two
  <2> HIDE DEF x, y
  <2>1. QED
    BY <1>1, <1>4, EmitTwo
<1>7. /\ LogsInv(one, b) /\ Len(one) = n + 1 /\ one # <<>> /\ one[Len(one)] = X /\ one \in Seq(Log)
  <2> HIDE DEF x
  <2>1. QED
    BY <1>4, LogsAppend
<1> HIDE DEF one
<1>8. LogsInv(two, b)
  <2> HIDE DEF y
  <2>1. QED
    BY <1>1, <1>4, <1>7, LogsAppend
<1>9. FromLogs(one) = FromLogs(ls)
  <2> HIDE DEF X
  <2>1. QED
    BY <1>1, <1>4, <1>5, QuietLog DEF one
<1>10. IsV2Swap(one[Len(one)], Y)
  <2> HIDE DEF X, Y
  <2>1. QED
    BY <1>1, <1>5, <1>7 DEF IsV2Swap
<1>11. FromLogs(two) = Append(FromLogs(ls), t)
  <2> HIDE DEF X, Y
  <2>1. FromLogs(two) = Append(FromLogs(one), V2TradeOf(one[Len(one)], Y))
    BY <1>4, <1>7, <1>10, SwapAfterSync
  <2>2. V2TradeOf(X, Y) = t
    BY <1>2, <1>3, <1>5 DEF V2TradeOf
  <2>3. QED
    BY <1>7, <1>9, <2>1, <2>2
<1>12. QED
  BY <1>6, <1>8, <1>11 DEF V2Emission, LogTrade

V3Emission(a, t, ls, b) ==
  Emitted(<<LogBy(a, "SwapV3", [amount |-> t.amount, sqrt |-> t.sqrt, liquidity |-> t.liquidity])>>, ls, b)

LEMMA V3Emits ==
  ASSUME NEW a \in Markets, NEW s \in SwapsOf(Contracts[a]), Contracts[a].dex = "v3",
         NEW ls, NEW b \in Nat, LogsInv(ls, b), NEW t, t = V3Swapped(Contracts[a], s)
  PROVE  LogTrade(V3Emission(a, t, ls, b), ls, t, b)
<1> DEFINE x == LogBy(a, "SwapV3", [amount |-> t.amount, sqrt |-> t.sqrt, liquidity |-> t.liquidity])
           n == Len(ls)
           X == Stamp(x, n + 1, b)
           one == Append(ls, X)
<1>1. ls \in Seq(Log) /\ n \in Nat /\ n + 1 \in Nat
  BY DEF LogsInv
<1>2. t \in Trade /\ t.dex = "v3" /\ t.address = a /\ a \in DOMAIN Contracts
  BY V3SwapSays, MarketFacts DEF SaysOf, PairFacts
<1>3. t.amount \in Amounts /\ t.sqrt \in Int /\ t.liquidity \in Int
      /\ t = [dex |-> "v3", address |-> t.address, amount |-> t.amount, sqrt |-> t.sqrt,
              liquidity |-> t.liquidity]
  BY <1>2 DEF Trade
<1>4. X \in Log
  BY <1>1, <1>2, <1>3, StampTyped
<1>5. /\ X.event = "SwapV3" /\ X.address = a /\ X.data.amount = t.amount /\ X.data.sqrt = t.sqrt
      /\ X.data.liquidity = t.liquidity
  BY DEF Stamp, LogBy
<1>6. Emitted(<<x>>, ls, b) = one
  <2> HIDE DEF x
  <2>1. QED
    BY <1>1, <1>4, EmitOne
<1>7. LogsInv(one, b)
  <2> HIDE DEF x
  <2>1. QED
    BY <1>4, LogsAppend
<1>8. FromLogs(one) = Append(FromLogs(ls), t)
  <2> HIDE DEF X
  <2>1. FromLogs(one) = Append(FromLogs(ls), V3TradeOf(X))
    BY <1>1, <1>4, <1>5, V3Swap
  <2>2. V3TradeOf(X) = t
    BY <1>2, <1>3, <1>5 DEF V3TradeOf
  <2>3. QED
    BY <2>1, <2>2
<1>9. QED
  BY <1>6, <1>7, <1>8 DEF V3Emission, LogTrade

(* Liquidity that moves trades nothing, *)
LEMMA V3ProvideEmits ==
  ASSUME NEW a \in DOMAIN Contracts, NEW ls, NEW b \in Nat, LogsInv(ls, b)
  PROVE  LET r == Emitted(<<Other(a)>>, ls, b) IN LogsInv(r, b) /\ FromLogs(r) = FromLogs(ls)
<1> DEFINE x == Other(a)
           n == Len(ls)
           X == Stamp(x, n + 1, b)
           one == Append(ls, X)
<1>1. ls \in Seq(Log) /\ n \in Nat /\ n + 1 \in Nat
  BY DEF LogsInv
<1>2. X \in Log
  BY <1>1, StampTyped DEF Other
<1>3. X.event = "Other"
  BY DEF Stamp, LogBy, Other
<1> HIDE DEF x
<1>4. Emitted(<<x>>, ls, b) = one
  BY <1>1, <1>2, EmitOne
<1>5. LogsInv(one, b)
  BY <1>2, LogsAppend
<1> HIDE DEF X
<1>6. FromLogs(one) = FromLogs(ls)
  BY <1>1, <1>2, <1>3, QuietLog
<1>7. QED
  BY <1>4, <1>5, <1>6 DEF x

LEMMA V2ProvideEmits ==
  ASSUME NEW a \in DOMAIN Contracts, NEW v \in Amounts, NEW ls, NEW b \in Nat, LogsInv(ls, b)
  PROVE  LET r == Emitted(<<LogBy(a, "Sync", [reserves |-> v]), Other(a)>>, ls, b) IN
         LogsInv(r, b) /\ FromLogs(r) = FromLogs(ls)
<1> DEFINE x == LogBy(a, "Sync", [reserves |-> v])
           y == Other(a)
           n == Len(ls)
           X == Stamp(x, n + 1, b)
           Y == Stamp(y, n + 2, b)
           one == Append(ls, X)
           two == Append(one, Y)
<1>1. ls \in Seq(Log) /\ n \in Nat /\ n + 1 \in Nat /\ n + 2 \in Nat /\ (n + 1) + 1 = n + 2
  BY DEF LogsInv
<1>2. X \in Log /\ Y \in Log
  BY <1>1, StampTyped DEF Other
<1>3. X.event = "Sync" /\ Y.event = "Other"
  BY DEF Stamp, LogBy, Other
<1> HIDE DEF x, y
<1>4. Emitted(<<x, y>>, ls, b) = two
  BY <1>1, <1>2, EmitTwo
<1>5. LogsInv(one, b) /\ Len(one) = n + 1 /\ one \in Seq(Log)
  BY <1>2, LogsAppend
<1> HIDE DEF one
<1>6. LogsInv(two, b)
  BY <1>1, <1>2, <1>5, LogsAppend
<1> HIDE DEF X, Y
<1>7. FromLogs(one) = FromLogs(ls)
  BY <1>1, <1>2, <1>3, QuietLog DEF one
<1>8. FromLogs(two) = FromLogs(one)
  BY <1>2, <1>3, <1>5, QuietLog
<1>9. QED
  BY <1>4, <1>6, <1>7, <1>8 DEF x, y

(* nor does a contract that logs between sync and swap, *)
LEMMA ForkEmits ==
  ASSUME NEW a \in DOMAIN Contracts, NEW v \in Amounts, NEW p \in Amounts, NEW q \in Amounts,
         NEW ls, NEW b \in Nat, LogsInv(ls, b)
  PROVE  LET r == Emitted(<<LogBy(a, "Sync", [reserves |-> v]), Other(a),
                            LogBy(a, "SwapV2", [in |-> p, out |-> q])>>, ls, b) IN
         LogsInv(r, b) /\ FromLogs(r) = FromLogs(ls)
<1> DEFINE x == LogBy(a, "Sync", [reserves |-> v])
           y == Other(a)
           z == LogBy(a, "SwapV2", [in |-> p, out |-> q])
           n == Len(ls)
           X == Stamp(x, n + 1, b)
           Y == Stamp(y, n + 2, b)
           Z == Stamp(z, n + 3, b)
           one == Append(ls, X)
           two == Append(one, Y)
           three == Append(two, Z)
<1>1. /\ ls \in Seq(Log) /\ n \in Nat /\ n + 1 \in Nat /\ n + 2 \in Nat /\ n + 3 \in Nat
      /\ (n + 1) + 1 = n + 2 /\ (n + 2) + 1 = n + 3
  BY DEF LogsInv
<1>2. X \in Log /\ Y \in Log /\ Z \in Log
  BY <1>1, StampTyped DEF Other
<1>3. X.event = "Sync" /\ Y.event = "Other" /\ Z.event = "SwapV2"
  BY DEF Stamp, LogBy, Other
<1> HIDE DEF x, y, z
<1>4. Emitted(<<x, y, z>>, ls, b) = three
  BY <1>1, <1>2, EmitThree
<1>5. LogsInv(one, b) /\ Len(one) = n + 1 /\ one \in Seq(Log)
  BY <1>2, LogsAppend
<1> HIDE DEF one
<1>6. LogsInv(two, b) /\ Len(two) = (n + 1) + 1 /\ two # <<>> /\ two[Len(two)] = Y /\ two \in Seq(Log)
  BY <1>1, <1>2, <1>5, LogsAppend
<1>7. LogsInv(three, b)
  <2> HIDE DEF two
  <2>1. QED
    BY <1>1, <1>2, <1>6, LogsAppend
<1> HIDE DEF X, Y, Z
<1>8. FromLogs(one) = FromLogs(ls)
  BY <1>1, <1>2, <1>3, QuietLog DEF one
<1>9. FromLogs(two) = FromLogs(one)
  BY <1>2, <1>3, <1>5, QuietLog
<1> HIDE DEF two
<1>10. FromLogs(three) = FromLogs(two)
  BY <1>2, <1>3, <1>6, StraySwap
<1>11. QED
  BY <1>4, <1>7, <1>8, <1>9, <1>10 DEF x, y, z

(* and what is no pair makes a trade of no pair. *)
LEMMA AlienEmits ==
  ASSUME NEW a \in DOMAIN Contracts, NEW v \in Amounts, NEW p \in Amounts, NEW q \in Amounts,
         NEW ls, NEW b \in Nat, LogsInv(ls, b)
  PROVE  LET r == Emitted(<<LogBy(a, "Sync", [reserves |-> v]),
                            LogBy(a, "SwapV2", [in |-> p, out |-> q])>>, ls, b) IN
         /\ LogsInv(r, b)
         /\ \E t \in Trade : t.address = a /\ FromLogs(r) = Append(FromLogs(ls), t)
<1> DEFINE x == LogBy(a, "Sync", [reserves |-> v])
           y == LogBy(a, "SwapV2", [in |-> p, out |-> q])
           n == Len(ls)
           X == Stamp(x, n + 1, b)
           Y == Stamp(y, n + 2, b)
           one == Append(ls, X)
           two == Append(one, Y)
<1>1. ls \in Seq(Log) /\ n \in Nat /\ n + 1 \in Nat /\ n + 2 \in Nat /\ (n + 1) + 1 = n + 2
  BY DEF LogsInv
<1>2. X \in Log /\ Y \in Log
  BY <1>1, StampTyped
<1>3. /\ X.event = "Sync" /\ X.address = a /\ X.index = n + 1 /\ X.block = b
      /\ Y.event = "SwapV2" /\ Y.address = a /\ Y.index = n + 2 /\ Y.block = b
  BY DEF Stamp, LogBy
<1> HIDE DEF x, y
<1>4. Emitted(<<x, y>>, ls, b) = two
  BY <1>1, <1>2, EmitTwo
<1>5. LogsInv(one, b) /\ Len(one) = n + 1 /\ one # <<>> /\ one[Len(one)] = X /\ one \in Seq(Log)
  BY <1>2, LogsAppend
<1> HIDE DEF one
<1>6. LogsInv(two, b)
  BY <1>1, <1>2, <1>5, LogsAppend
<1> HIDE DEF X, Y
<1>7. FromLogs(one) = FromLogs(ls)
  BY <1>1, <1>2, <1>3, QuietLog DEF one
<1>8. IsV2Swap(one[Len(one)], Y)
  BY <1>1, <1>3, <1>5 DEF IsV2Swap
<1> DEFINE t == V2TradeOf(X, Y)
<1>9. FromLogs(two) = Append(FromLogs(ls), t) /\ t \in Trade
  BY <1>2, <1>5, <1>7, <1>8, SwapAfterSync
<1>10. t.address = a
  BY <1>3 DEF V2TradeOf
<1> HIDE DEF t, two
<1>11. QED
  BY <1>4, <1>6, <1>9, <1>10 DEF x, y

(* The block's ticks, and what they say of the pool that is followed *)

PT(ls) == PairTicks(FromLogs(ls), KnownPairs)

TickInv(ls, ss, a) ==
  /\ ss \in Seq(SwapsOf(Contracts[a]))
  /\ ss = <<>> => a \notin DOMAIN PT(ls)
  /\ ss # <<>> => /\ a \in DOMAIN PT(ls) /\ PT(ls)[a] \in PairTick(Contracts[a])
                  /\ Follows(Contracts[a], PT(ls)[a].tick, ss)

LEMMA BlockTicksAre ==
  ASSUME NEW b, LogsInv(logs, b)
  PROVE  BlockTicks = PT(logs) /\ SameTradesUnfiltered
<1>1. FromLogs(logs) = FromLogs(Filtered(logs))
  BY FilteredSame DEF LogsInv
<1>2. QED
  BY <1>1 DEF BlockTicks, PT, SameTradesUnfiltered

LEMMA SwapTick ==
  ASSUME NEW a \in Markets, NEW s \in SwapsOf(Contracts[a]), NEW ls, NEW b, LogsInv(ls, b),
         NEW ss, TickInv(ls, ss, a), NEW r, FromLogs(r) = Append(FromLogs(ls), Swapped(Contracts[a], s))
  PROVE  TickInv(r, Append(ss, s), a)
<1> DEFINE pair == Contracts[a]
           t == Swapped(pair, s)
           P == PT(ls)
<1>1. SaysOf(pair, t, s)
  BY SwapSays
<1>2. t \in Trade /\ t.address = a /\ a \in DOMAIN KnownPairs /\ KnownPairs[a] = pair
  BY <1>1, MarketFacts DEF SaysOf, PairFacts
<1>3. FromLogs(ls) \in Seq(Trade)
  BY FromLogsTyped DEF LogsInv
<1>4. PT(r) = AddTrade(P, t, KnownPairs)
  <2> HIDE DEF t
  <2>1. PairTicks(Append(FromLogs(ls), t), KnownPairs) = AddTrade(PairTicks(FromLogs(ls), KnownPairs), t, KnownPairs)
    BY <1>2, <1>3, PairTicksAppend
  <2>2. QED
    BY <2>1 DEF PT, t
<1> HIDE DEF t, P
<1>5. /\ a \in DOMAIN PT(r)
      /\ PT(r)[a] = IF a \in DOMAIN P THEN TickWith(P[a], t) ELSE NewTick(t, pair)
  BY <1>2, <1>4 DEF AddTrade
<1>6. ss \in Seq(SwapsOf(pair)) /\ s \in SwapsOf(pair)
  BY DEF TickInv
<1>7. Append(ss, s) \in Seq(SwapsOf(pair)) /\ Append(ss, s) # <<>>
  <2> HIDE DEF pair
  <2>1. QED
    BY <1>6
<1>8. PT(r)[a] \in PairTick(pair) /\ Follows(pair, PT(r)[a].tick, Append(ss, s))
  <2>1. CASE ss = <<>>
    <3>1. PT(r)[a] = NewTick(t, pair)
      BY <1>5, <2>1 DEF TickInv, P
    <3>2. QED
      BY <1>1, <2>1, <3>1, FirstTick
  <2>2. CASE ss # <<>>
    <3>1. PT(r)[a] = TickWith(P[a], t) /\ P[a] \in PairTick(pair) /\ Follows(pair, P[a].tick, ss)
      BY <1>5, <2>2 DEF TickInv, P
    <3>2. QED
      BY <1>1, <1>6, <2>2, <3>1, NextTick
  <2>3. QED
    BY <2>1, <2>2
<1> HIDE DEF pair
<1>9. QED
  BY <1>5, <1>7, <1>8 DEF TickInv, pair

LEMMA QuietTick ==
  ASSUME NEW a, NEW ls, NEW ss, TickInv(ls, ss, a), NEW r, FromLogs(r) = FromLogs(ls)
  PROVE  TickInv(r, ss, a)
<1>1. PT(r) = PT(ls)
  BY DEF PT
<1>2. QED
  BY <1>1 DEF TickInv

LEMMA AlienTick ==
  ASSUME NEW a, NEW ls, NEW b, LogsInv(ls, b), NEW ss, TickInv(ls, ss, a), NEW t \in Trade, t.address = Alien,
         NEW r, FromLogs(r) = Append(FromLogs(ls), t)
  PROVE  TickInv(r, ss, a)
<1>1. FromLogs(ls) \in Seq(Trade)
  BY FromLogsTyped DEF LogsInv
<1>2. PT(r) = AddTrade(PT(ls), t, KnownPairs)
  BY <1>1, PairTicksAppend DEF PT
<1>3. Alien \notin DOMAIN KnownPairs
  <2>1. Alien \in DOMAIN Contracts => ~ IsPair(Contracts[Alien])
    BY ContractsAssumption
  <2>2. QED
    BY <2>1 DEF KnownPairs
<1>4. PT(r) = PT(ls)
  BY <1>2, <1>3 DEF AddTrade
<1>5. QED
  BY <1>4 DEF TickInv

(* The bars after blocks up to n *)

BarsUpTo(b, n) ==
  /\ IsBars(b, Tick, MaxBlock) /\ DOMAIN b.data \subseteq 1..BarOf(MaxBlock)
  /\ Cardinality(DOMAIN b.data) <= Retention
  /\ b = NewBars \/ (BarsInv(b) /\ PadFrom(b.data) <= n)

LEMMA InsertDomain ==
  ASSUME NEW T, NEW B \in Nat, NEW b, IsBars(b, T, B), NEW n, NEW tick, NEW fin
  PROVE  \A k \in DOMAIN InsertData(b, n, tick, fin).data :
           k \in DOMAIN b.data \/ k = BarOf(n) \/ (b.data # <<>> /\ k = PadBar(b.data))
<1> DEFINE d == b.data
           p == Pad(d, n)
           w == WithTicks(p, BarOf(n), [m \in {n} |-> tick])
           kept == Retained(w)
           added == Added(b, n, tick)
           q == IF Padding(d, n) THEN PadBar(d) ELSE BarOf(n)
           x == Refresh(kept, q, BarOf(n))
<1>1. \A k \in DOMAIN p : k \in DOMAIN d \/ (d # <<>> /\ k = PadBar(d))
  BY DEF Pad, Padding, Missing, WithTicks
<1>2. DOMAIN w = DOMAIN p \cup {BarOf(n)}
  BY DEF WithTicks
<1>3. DOMAIN kept \subseteq DOMAIN w
  BY DEF Retained, Restrict
<1>4. DOMAIN x = DOMAIN kept
  <2> HIDE DEF kept, q
  <2>1. \A f, k : DOMAIN UpdateIndicators(f, k) = DOMAIN f
    BY DEF UpdateIndicators
  <2>2. QED
    BY <2>1 DEF Refresh
<1>5. added.data = x
  <2>1. added = [b EXCEPT !.data = x]
    BY DEF Added
  <2>2. "data" \in DOMAIN b
    <3>1. b = [data |-> b.data, lastFinalized |-> b.lastFinalized]
      BY DEF IsBars
    <3>2. QED
      BY <3>1
  <2> HIDE DEF added, x
  <2>3. QED
    BY <2>1, <2>2
<1>6. DOMAIN InsertData(b, n, tick, fin).data = DOMAIN added.data
  <2> HIDE DEF added
  <2>1. \A c : DOMAIN Finalized(c, fin).data = DOMAIN c.data
    BY DEF Finalized
  <2>2. InsertData(b, n, tick, fin) = Finalized(added, fin)
    BY DEF InsertData, added
  <2>3. QED
    BY <2>1, <2>2
<1> HIDE DEF p, w, kept, added, q, x
<1>7. QED
  BY <1>1, <1>2, <1>3, <1>4, <1>5, <1>6

(* They can take the tick of the next block. *)
Continues(b, n) ==
  b # NewBars => IsData(b.data, Tick, MaxBlock) /\ Whole(b.data) /\ PadFrom(b.data) \in 1..MaxBlock
                   /\ PadFrom(b.data) < n /\ BarsInv(b)

LEMMA UpToExtends ==
  ASSUME NEW n \in 1..MaxBlock, NEW b, BarsUpTo(b, n - 1)
  PROVE  Extendable(b, n, Tick, MaxBlock) /\ Continues(b, n)
<1>1. MaxBlock \in Nat /\ n \in Nat /\ n <= MaxBlock /\ n - 1 < n
  BY BoundsAssumption
<1>2. ASSUME b # NewBars
      PROVE  IsData(b.data, Tick, MaxBlock) /\ Whole(b.data) /\ PadFrom(b.data) \in 1..MaxBlock
             /\ PadFrom(b.data) < n /\ BarsInv(b)
  <2>1. IsData(b.data, Tick, MaxBlock) /\ Whole(b.data) /\ PadFrom(b.data) <= n - 1 /\ BarsInv(b)
    BY <1>2 DEF BarsUpTo, BarsInv, IsBars
  <2>2. PadFrom(b.data) \in 1..MaxBlock
    BY <1>1, <2>1, LastFacts
  <2>3. QED
    BY <1>1, <2>1, <2>2
<1>3. Extendable(b, n, Tick, MaxBlock)
  <2>1. CASE b = NewBars
    BY <1>1, <2>1, NewBarsExtendable
  <2>2. CASE b # NewBars
    BY <1>1, <1>2, <2>2, BarsExtendable DEF BarsUpTo
  <2>3. QED
    BY <2>1, <2>2
<1>4. QED
  BY <1>2, <1>3 DEF Continues

LEMMA InsertUpTo ==
  ASSUME NEW n \in 1..MaxBlock, NEW b, BarsUpTo(b, n - 1), NEW tick \in Tick
  PROVE  /\ CanInsert(b, n, tick, BarOf(n) - 1)
         /\ BarsUpTo(InsertData(b, n, tick, BarOf(n) - 1), n)
<1> DEFINE fin == BarOf(n) - 1
           r == InsertData(b, n, tick, fin)
<1>1. MaxBlock \in Nat /\ n \in Nat /\ n <= MaxBlock /\ n - 1 < n
  BY BoundsAssumption
<1>2. /\ BarOf(n) \in Nat /\ 1 <= BarOf(n) /\ BarOf(n) <= n + 1 /\ BarOf(n) <= BarOf(MaxBlock)
      /\ BarOf(MaxBlock) \in Nat
  BY <1>1, BarOfFacts, BarOfGrows
<1>3. fin \in NoBar..MaxBlock + 1 /\ fin < BarOf(n)
  BY <1>1, <1>2 DEF NoBar
<1>4. b # NewBars => IsData(b.data, Tick, MaxBlock) /\ Whole(b.data) /\ PadFrom(b.data) \in 1..MaxBlock
                       /\ PadFrom(b.data) < n /\ BarsInv(b)
  BY UpToExtends DEF Continues
<1>5. Extendable(b, n, Tick, MaxBlock)
  BY UpToExtends
<1> HIDE DEF fin
<1>6. InsertedTo(b, n, tick, fin, r, Tick, MaxBlock) /\ CanInsert(b, n, tick, fin)
  BY <1>1, <1>3, <1>5, InsertFacts
<1>7. IsBars(r, Tick, MaxBlock) /\ BarsInv(r) /\ Cardinality(DOMAIN r.data) <= Retention /\ PadFrom(r.data) = n
  BY <1>6 DEF InsertedTo
<1>8. DOMAIN r.data \subseteq 1..BarOf(MaxBlock)
  <2>1. \A k \in DOMAIN r.data : k \in DOMAIN b.data \/ k = BarOf(n) \/ (b.data # <<>> /\ k = PadBar(b.data))
    BY <1>1, InsertDomain DEF BarsUpTo
  <2>2. DOMAIN b.data \subseteq 1..BarOf(MaxBlock)
    BY DEF BarsUpTo
  <2>3. ASSUME b.data # <<>> PROVE PadBar(b.data) \in 1..BarOf(MaxBlock)
    <3>1. b # NewBars
      BY <2>3 DEF NewBars
    <3>2. PadFrom(b.data) \in Nat /\ PadFrom(b.data) <= MaxBlock
      BY <1>1, <1>4, <3>1
    <3>3. BarOf(PadFrom(b.data)) \in Nat /\ 1 <= BarOf(PadFrom(b.data))
          /\ BarOf(PadFrom(b.data)) <= BarOf(MaxBlock)
      BY <1>1, <3>2, BarOfFacts, BarOfGrows
    <3>4. QED
      BY <1>2, <3>3 DEF PadBar
  <2>4. BarOf(n) \in 1..BarOf(MaxBlock)
    BY <1>2
  <2> HIDE DEF r
  <2>5. QED
    BY <2>1, <2>2, <2>3, <2>4
<1> HIDE DEF r
<1>9. BarsUpTo(r, n)
  BY <1>1, <1>7, <1>8 DEF BarsUpTo
<1>10. QED
  BY <1>6, <1>9 DEF r, fin

(* The inductive invariant: the block's logs are numbered, its tick follows  *)
(* the swaps, the bars are those of the blocks so far, and a position is     *)
(* what a simulation opened.                                                 *)

IsPosition(a, p) ==
  p = <<>> \/ \E pool \in PoolsOf(Contracts[a]) :
                p = <<[trade |-> SimulateOpen(Contracts[a], pool), pool |-> pool]>>

ChainInv ==
  /\ market \in Markets /\ rung \in 1..Rungs /\ depth \in 1..2
  /\ events \in 0..MaxEvents /\ Len(swaps) <= events /\ block \in 0..MaxBlock
  /\ LogsInv(logs, block + 1) /\ TickInv(logs, swaps, market)

ProgramInv ==
  /\ BarsUpTo(bars, block)
  /\ DOMAIN closes = DOMAIN stored /\ DOMAIN stored \subseteq 1..block
  /\ decision \in {"open", "close", "none"}
  /\ IsPosition(market, position) /\ (trip = <<>> \/ \E r : trip = <<r>>)

PipelineInv == ChainInv /\ ProgramInv

LEMMA MarketPools ==
  ASSUME ChainInv
  PROVE  /\ PairFacts(market, Pair) /\ Pair = Contracts[market] /\ market \in DOMAIN Contracts
         /\ \A r \in 1..Rungs, d \in 1..2 : PoolAt(Pair, r, d) \in PoolsOf(Pair) /\ PoolFacts(Pair, PoolAt(Pair, r, d))
         /\ Pool \in PoolsOf(Pair) /\ PoolFacts(Pair, Pool)
<1>1. market \in Markets /\ rung \in 1..Rungs /\ depth \in 1..2
  BY DEF ChainInv
<1>2. PairFacts(market, Pair) /\ Pair = Contracts[market]
  BY <1>1, MarketFacts DEF Pair
<1>3. \A r \in 1..Rungs, d \in 1..2 : PoolAt(Pair, r, d) \in PoolsOf(Pair)
  BY DEF PoolsOf
<1>4. \A r \in 1..Rungs, d \in 1..2 : PoolFacts(Pair, PoolAt(Pair, r, d))
  BY <1>1, <1>2, <1>3, PoolsTyped
<1>5. QED
  BY <1>1, <1>2, <1>3, <1>4 DEF Pool, PairFacts

LEMMA PipelineInit == Init => PipelineInv
<1> SUFFICES ASSUME Init PROVE PipelineInv
  OBVIOUS
<1>1. /\ market \in Markets /\ rung = 2 /\ depth = 1 /\ logs = <<>> /\ swaps = <<>> /\ events = 0
      /\ block = 0 /\ bars = NewBars /\ stored = <<>> /\ position = <<>> /\ trip = <<>>
      /\ decision = "none" /\ closes = <<>>
  BY DEF Init
<1>2. rung \in 1..Rungs /\ depth \in 1..2 /\ events \in 0..MaxEvents /\ Len(swaps) <= events /\ block \in 0..MaxBlock
  BY <1>1, BoundsAssumption
<1>3. LogsInv(logs, block + 1)
  BY <1>1 DEF LogsInv
<1>4. TickInv(logs, swaps, market)
  <2>1. PT(logs) = <<>>
    BY <1>1, FromLogsEmpty, PairTicksEmpty DEF PT
  <2>2. market \notin DOMAIN <<>> /\ <<>> \in Seq(SwapsOf(Contracts[market]))
    OBVIOUS
  <2>3. QED
    BY <1>1, <2>1, <2>2 DEF TickInv
<1>5. BarsUpTo(bars, block)
  <2>1. NewBars = [data |-> <<>>, lastFinalized |-> NoBar] /\ NewBars.data = <<>> /\ NewBars.lastFinalized = NoBar
    BY DEF NewBars
  <2>2. IsData(<<>>, Tick, MaxBlock) /\ DOMAIN <<>> = {}
    BY DEF IsData
  <2>3. IsBars(NewBars, Tick, MaxBlock)
    BY <2>1, <2>2, BoundsAssumption DEF IsBars, NoBar
  <2>4. Cardinality({}) <= Retention
    BY FS_EmptySet, RetentionAssumption
  <2>5. QED
    BY <1>1, <2>1, <2>2, <2>3, <2>4 DEF BarsUpTo
<1>6. DOMAIN closes = DOMAIN stored /\ DOMAIN stored \subseteq 1..block
  BY <1>1
<1>7. QED
  BY <1>1, <1>2, <1>3, <1>4, <1>5, <1>6 DEF PipelineInv, ChainInv, ProgramInv, IsPosition

(* An event on chain leaves the program alone. *)
LEMMA ChainStep ==
  ASSUME PipelineInv, UNCHANGED <<market, block, bars, stored, position, decision, closes, trip>>, Happens,
         rung' \in 1..Rungs, depth' \in 1..2, Len(swaps') <= Len(swaps) + 1, Len(swaps') \in Nat,
         LogsInv(logs', block + 1), TickInv(logs', swaps', market)
  PROVE  PipelineInv'
<1>1. events' \in 0..MaxEvents /\ Len(swaps') <= events'
  <2>1. events \in Nat /\ events < MaxEvents /\ events' = events + 1 /\ Len(swaps) <= events /\ MaxEvents \in Nat
    BY BoundsAssumption DEF PipelineInv, ChainInv, Happens
  <2>2. Len(swaps) \in Nat
    BY DEF PipelineInv, ChainInv, TickInv
  <2>3. QED
    BY <2>1, <2>2
<1>2. ChainInv'
  BY <1>1 DEF PipelineInv, ChainInv
<1>3. ProgramInv'
  BY DEF PipelineInv, ProgramInv
<1>4. QED
  BY <1>2, <1>3 DEF PipelineInv

LEMMA SwapKeeps == ASSUME PipelineInv, NEW r \in 1..Rungs, Swap(r) PROVE PipelineInv'
<1> DEFINE to == PoolAt(Pair, r, depth)
           s == [from |-> Pool, to |-> to]
           t == Swapped(Pair, s)
<1>1. ChainInv /\ LogsInv(logs, block + 1) /\ TickInv(logs, swaps, market) /\ market \in Markets
      /\ depth \in 1..2 /\ block + 1 \in Nat
  BY BoundsAssumption DEF PipelineInv, ChainInv
<1>2. /\ PairFacts(market, Pair) /\ Pair = Contracts[market]
      /\ Pool \in PoolsOf(Pair) /\ to \in PoolsOf(Pair)
  BY <1>1, MarketPools
<1>3. s \in SwapsOf(Pair) /\ s.from = Pool /\ s.to = to
  BY <1>2 DEF SwapsOf
<1>4. /\ Happens /\ rung' = r /\ swaps' = Append(swaps, s) /\ depth' = depth
      /\ UNCHANGED <<market, block, bars, stored, position, decision, closes, trip>>
      /\ logs' = Emitted(IF Pair.dex = "v2" THEN V2Logs(Pool, to) ELSE V3Logs(Pool, to), logs, block + 1)
  BY DEF Swap, Emit, Emitted
<1> HIDE DEF to
<1>5. LogsInv(logs', block + 1) /\ FromLogs(logs') = Append(FromLogs(logs), t)
  <2>1. CASE Pair.dex = "v2"
    <3> DEFINE v == V2Swapped(Pair, s)
    <3>1. V2Logs(Pool, to) = <<LogBy(market, "Sync", [reserves |-> v.reserves]),
                               LogBy(market, "SwapV2", [in |-> v.in, out |-> v.out])>>
      BY <1>3 DEF V2Logs, Synced, V2Swapped
    <3> HIDE DEF s, v
    <3>2. LogTrade(V2Emission(market, v, logs, block + 1), logs, v, block + 1)
      <4>1. s \in SwapsOf(Contracts[market]) /\ Contracts[market].dex = "v2"
            /\ v = V2Swapped(Contracts[market], s)
        BY <1>2, <1>3, <2>1 DEF v
      <4>2. QED
        BY <1>1, <4>1, V2Emits
    <3>3. t = v
      BY <2>1 DEF Swapped, v
    <3>4. QED
      BY <1>4, <2>1, <3>1, <3>2, <3>3 DEF V2Emission, LogTrade
  <2>2. CASE Pair.dex # "v2"
    <3> DEFINE v == V3Swapped(Pair, s)
    <3>1. V3Logs(Pool, to) = <<LogBy(market, "SwapV3", [amount |-> v.amount, sqrt |-> v.sqrt,
                                                        liquidity |-> v.liquidity])>>
      BY <1>3 DEF V3Logs, V3Swapped
    <3>2. Pair.dex = "v3"
      BY <1>2, <2>2 DEF PairFacts
    <3> HIDE DEF s, v
    <3>3. LogTrade(V3Emission(market, v, logs, block + 1), logs, v, block + 1)
      <4>1. s \in SwapsOf(Contracts[market]) /\ Contracts[market].dex = "v3"
            /\ v = V3Swapped(Contracts[market], s)
        BY <1>2, <1>3, <3>2 DEF v
      <4>2. QED
        BY <1>1, <4>1, V3Emits
    <3>4. t = v
      BY <2>2 DEF Swapped, v
    <3>5. QED
      BY <1>4, <2>2, <3>1, <3>3, <3>4 DEF V3Emission, LogTrade
  <2>3. QED
    BY <2>1, <2>2
<1> HIDE DEF s, t
<1>6. TickInv(logs', swaps', market)
  <2>1. TickInv(logs', Append(swaps, s), market)
    BY <1>1, <1>2, <1>3, <1>5, SwapTick DEF t
  <2>2. QED
    BY <1>4, <2>1
<1>7. Len(swaps') <= Len(swaps) + 1 /\ Len(swaps') \in Nat
  <2>1. swaps \in Seq(SwapsOf(Pair))
    BY <1>1, <1>2 DEF TickInv
  <2>2. QED
    BY <1>3, <1>4, <2>1
<1>8. QED
  BY <1>1, <1>4, <1>5, <1>6, <1>7, ChainStep

LEMMA ProvideKeeps == ASSUME PipelineInv, Provide PROVE PipelineInv'
<1>1. ChainInv /\ LogsInv(logs, block + 1) /\ TickInv(logs, swaps, market) /\ market \in Markets
      /\ depth \in 1..2 /\ rung \in 1..Rungs /\ block + 1 \in Nat
  BY BoundsAssumption DEF PipelineInv, ChainInv
<1> DEFINE d == 3 - depth
           to == PoolAt(Pair, rung, d)
<1>2. d \in 1..2
  BY <1>1
<1>3. PoolFacts(Pair, to) /\ market \in DOMAIN Contracts
  BY <1>1, <1>2, MarketPools
<1>4. /\ Happens /\ depth' = d /\ rung' = rung /\ swaps' = swaps
      /\ UNCHANGED <<market, block, bars, stored, position, decision, closes, trip>>
      /\ logs' = Emitted((IF Pair.dex = "v2" THEN <<Synced(to)>> ELSE <<>>) \o <<Other(market)>>, logs, block + 1)
  BY DEF Provide, Emit, Emitted
<1> HIDE DEF to, d
<1>5. LogsInv(logs', block + 1) /\ FromLogs(logs') = FromLogs(logs)
  <2>1. CASE Pair.dex = "v2"
    <3>1. to.reserves \in Amounts
      <4>1. to.reserves \in [Side -> 1..Word - 1] /\ Word \in Nat
        BY <1>3, <2>1, NumberAssumption DEF PoolFacts
      <4>2. QED
        BY <4>1 DEF Amounts
    <3>2. <<Synced(to)>> \o <<Other(market)>> = <<LogBy(market, "Sync", [reserves |-> to.reserves]), Other(market)>>
      <4>1. ASSUME NEW x, NEW y PROVE <<x>> \o <<y>> = <<x, y>>
        <5> DEFINE r == <<x>> \o <<y>>
        <5>1. <<x>> \in Seq({x, y}) /\ <<y>> \in Seq({x, y}) /\ <<x, y>> \in Seq({x, y})
          OBVIOUS
        <5>2. /\ Len(<<x>>) = 1 /\ <<x>>[1] = x /\ Len(<<y>>) = 1 /\ <<y>>[1] = y
              /\ Len(<<x, y>>) = 2 /\ <<x, y>>[1] = x /\ <<x, y>>[2] = y
          OBVIOUS
        <5>3. r \in Seq({x, y}) /\ Len(r) = 2
          BY <5>1, <5>2
        <5>4. r[1] = x
          BY <5>1, <5>2
        <5>5. r[2] = y
          BY <5>1, <5>2
        <5>6. \A i \in 1..2 : i = 1 \/ i = 2
          OBVIOUS
        <5> HIDE DEF r
        <5>7. r = <<x, y>>
          BY <5>1, <5>2, <5>3, <5>4, <5>5, <5>6, SameSeq
        <5>8. QED
          BY <5>7 DEF r
      <4>2. QED
        BY <4>1 DEF Synced
    <3>3. LET r == Emitted(<<LogBy(market, "Sync", [reserves |-> to.reserves]), Other(market)>>, logs, block + 1) IN
          LogsInv(r, block + 1) /\ FromLogs(r) = FromLogs(logs)
      BY <1>1, <1>3, <3>1, V2ProvideEmits
    <3>4. QED
      BY <1>4, <2>1, <3>2, <3>3
  <2>2. CASE Pair.dex # "v2"
    <3>1. <<>> \o <<Other(market)>> = <<Other(market)>>
      OBVIOUS
    <3>2. LET r == Emitted(<<Other(market)>>, logs, block + 1) IN
          LogsInv(r, block + 1) /\ FromLogs(r) = FromLogs(logs)
      BY <1>1, <1>3, V3ProvideEmits
    <3>3. QED
      BY <1>4, <2>2, <3>1, <3>2
  <2>3. QED
    BY <2>1, <2>2
<1>6. TickInv(logs', swaps', market)
  BY <1>1, <1>4, <1>5, QuietTick
<1>7. Len(swaps') <= Len(swaps) + 1 /\ Len(swaps') \in Nat
  BY <1>1, <1>4 DEF TickInv
<1>8. QED
  BY <1>1, <1>2, <1>4, <1>5, <1>6, <1>7, ChainStep

LEMMA ElsewhereKeeps == ASSUME PipelineInv, NEW a \in {Fork, Alien}, Elsewhere(a) PROVE PipelineInv'
<1>1. ChainInv /\ LogsInv(logs, block + 1) /\ TickInv(logs, swaps, market) /\ market \in Markets
      /\ depth \in 1..2 /\ rung \in 1..Rungs /\ block + 1 \in Nat
  BY BoundsAssumption DEF PipelineInv, ChainInv
<1>2. a \in DOMAIN Contracts
  BY ContractsAssumption
<1> DEFINE sync == LogBy(a, "Sync", [reserves |-> <<4, 4>>])
           swap == LogBy(a, "SwapV2", [in |-> <<1, 0>>, out |-> <<0, 1>>])
<1>3. <<4, 4>> \in Amounts /\ <<1, 0>> \in Amounts /\ <<0, 1>> \in Amounts
  BY DEF Amounts, Side
<1>4. /\ Happens /\ depth' = depth /\ rung' = rung /\ swaps' = swaps
      /\ UNCHANGED <<market, block, bars, stored, position, decision, closes, trip>>
      /\ logs' = Emitted(IF a = Fork THEN <<sync, Other(a), swap>> ELSE <<sync, swap>>, logs, block + 1)
  BY DEF Elsewhere, Emit, Emitted
<1>5. LogsInv(logs', block + 1) /\ TickInv(logs', swaps', market)
  <2>1. CASE a = Fork
    <3>1. LET r == Emitted(<<sync, Other(a), swap>>, logs, block + 1) IN
          LogsInv(r, block + 1) /\ FromLogs(r) = FromLogs(logs)
      BY <1>1, <1>2, <1>3, ForkEmits
    <3>2. logs' = Emitted(<<sync, Other(a), swap>>, logs, block + 1)
      BY <1>4, <2>1
    <3> HIDE DEF sync, swap
    <3>3. LogsInv(logs', block + 1) /\ FromLogs(logs') = FromLogs(logs)
      BY <3>1, <3>2
    <3>4. QED
      BY <1>1, <1>4, <3>3, QuietTick
  <2>2. CASE a # Fork
    <3>1. LET r == Emitted(<<sync, swap>>, logs, block + 1) IN
          /\ LogsInv(r, block + 1)
          /\ \E t \in Trade : t.address = a /\ FromLogs(r) = Append(FromLogs(logs), t)
      BY <1>1, <1>2, <1>3, AlienEmits
    <3>2. logs' = Emitted(<<sync, swap>>, logs, block + 1)
      BY <1>4, <2>2
    <3> HIDE DEF sync, swap
    <3>3. LogsInv(logs', block + 1)
      BY <3>1, <3>2
    <3>4. PICK t \in Trade : t.address = a /\ FromLogs(logs') = Append(FromLogs(logs), t)
      BY <3>1, <3>2
    <3>5. t.address = Alien
      BY <2>2, <3>4
    <3>6. QED
      BY <1>1, <1>4, <3>3, <3>4, <3>5, AlienTick
  <2>3. QED
    BY <2>1, <2>2
<1>6. Len(swaps') <= Len(swaps) + 1 /\ Len(swaps') \in Nat
  BY <1>1, <1>4 DEF TickInv
<1>7. QED
  BY <1>1, <1>4, <1>5, <1>6, ChainStep

(* A block's tick can always be inserted. *)
InsertsTick ==
  block < MaxBlock /\ market \in DOMAIN BlockTicks =>
    CanInsert(bars, block + 1, BlockTicks[market].tick, BarOf(block + 1) - 1)

LEMMA TickInserts ==
  ASSUME PipelineInv
  PROVE  /\ InsertsTick
         /\ block < MaxBlock => BarsUpTo(BarsWith(block + 1), block + 1)
         /\ market \in DOMAIN BlockTicks <=> swaps # <<>>
         /\ swaps # <<>> => BlockTicks[market].tick \in Tick
<1>1. LogsInv(logs, block + 1) /\ TickInv(logs, swaps, market) /\ block \in 0..MaxBlock /\ BarsUpTo(bars, block)
      /\ MaxBlock \in Nat
  BY BoundsAssumption DEF PipelineInv, ChainInv, ProgramInv
<1>2. BlockTicks = PT(logs)
  BY <1>1, BlockTicksAre
<1>3. /\ market \in DOMAIN BlockTicks <=> swaps # <<>>
      /\ swaps # <<>> => BlockTicks[market] \in PairTick(Contracts[market])
  BY <1>1, <1>2 DEF TickInv
<1>4. swaps # <<>> => BlockTicks[market].tick \in Tick
  BY <1>3 DEF PairTick
<1>5. ASSUME block < MaxBlock
      PROVE  /\ market \in DOMAIN BlockTicks => CanInsert(bars, block + 1, BlockTicks[market].tick, BarOf(block + 1) - 1)
             /\ BarsUpTo(BarsWith(block + 1), block + 1)
  <2> DEFINE n == block + 1
  <2>1. n \in 1..MaxBlock /\ n - 1 = block /\ block < n /\ n \in Nat
    BY <1>1, <1>5
  <2>2. BarsUpTo(bars, n - 1)
    BY <1>1, <2>1
  <2> HIDE DEF n
  <2>3. CASE market \in DOMAIN BlockTicks
    <3> DEFINE tick == BlockTicks[market].tick
    <3>1. tick \in Tick
      BY <1>3, <1>4, <2>3
    <3> HIDE DEF tick
    <3>2. CanInsert(bars, n, tick, BarOf(n) - 1) /\ BarsUpTo(InsertData(bars, n, tick, BarOf(n) - 1), n)
      BY <2>1, <2>2, <3>1, InsertUpTo
    <3>3. BarsWith(n) = InsertData(bars, n, tick, BarOf(n) - 1)
      BY <2>3 DEF BarsWith, tick
    <3>4. QED
      BY <3>2, <3>3 DEF n, tick
  <2>4. CASE market \notin DOMAIN BlockTicks
    <3>1. BarsWith(n) = bars
      BY <2>4 DEF BarsWith
    <3>2. BarsUpTo(bars, n)
      <4>1. bars = NewBars \/ PadFrom(bars.data) <= n
        <5>1. ASSUME bars # NewBars PROVE PadFrom(bars.data) <= n
          <6>1. IsData(bars.data, Tick, MaxBlock) /\ Whole(bars.data) /\ PadFrom(bars.data) <= block
            BY <1>1, <5>1 DEF BarsUpTo, BarsInv, IsBars
          <6>2. PadFrom(bars.data) \in 1..MaxBlock
            BY <1>1, <6>1, LastFacts
          <6>3. QED
            BY <1>1, <2>1, <6>1, <6>2
        <5>2. QED
          BY <5>1
      <4>2. QED
        BY <1>1, <4>1 DEF BarsUpTo
    <3>3. QED
      BY <2>4, <3>1, <3>2 DEF n
  <2>5. QED
    BY <2>3, <2>4
<1>6. QED
  BY <1>3, <1>4, <1>5 DEF InsertsTick

LEMMA EndBlockKeeps == ASSUME PipelineInv, EndBlock PROVE PipelineInv'
<1> DEFINE n == block + 1
<1>1. ChainInv /\ ProgramInv /\ block \in 0..MaxBlock /\ events \in 0..MaxEvents /\ MaxBlock \in Nat
      /\ DOMAIN closes = DOMAIN stored /\ DOMAIN stored \subseteq 1..block
      /\ IsPosition(market, position) /\ (trip = <<>> \/ \E r : trip = <<r>>)
  BY BoundsAssumption DEF PipelineInv, ChainInv, ProgramInv
<1>2. /\ n <= MaxBlock /\ block' = n /\ bars' = BarsWith(n) /\ decision' = Decision(n) /\ Execute(Decision(n))
      /\ stored' = (IF market \in DOMAIN BlockTicks THEN Entered(stored, n, BlockTicks[market].tick) ELSE stored)
      /\ closes' = (IF swaps = <<>> THEN closes
                    ELSE Entered(closes, n, [first |-> PoolPrice(Head(swaps).from), last |-> PoolPrice(Last(swaps).to)]))
      /\ logs' = <<>> /\ swaps' = <<>> /\ market' = market /\ rung' = rung /\ depth' = depth /\ events' = events
  BY DEF EndBlock
<1>3. n \in 1..MaxBlock /\ block < MaxBlock /\ n \in 0..MaxBlock
  BY <1>1, <1>2
<1>4. BarsUpTo(bars', block') /\ (market \in DOMAIN BlockTicks <=> swaps # <<>>)
  BY <1>2, <1>3, TickInserts
<1>5. ChainInv'
  <2>1. LogsInv(<<>>, n + 1)
    BY DEF LogsInv
  <2>2. TickInv(<<>>, <<>>, market)
    <3>1. PT(<<>>) = <<>>
      BY FromLogsEmpty, PairTicksEmpty DEF PT
    <3>2. market \notin DOMAIN <<>> /\ <<>> \in Seq(SwapsOf(Contracts[market]))
      OBVIOUS
    <3>3. QED
      BY <3>1, <3>2 DEF TickInv
  <2>3. Len(<<>>) <= events
    BY <1>1
  <2> HIDE DEF n
  <2>4. QED
    BY <1>1, <1>2, <1>3, <2>1, <2>2, <2>3 DEF ChainInv
<1>6. DOMAIN closes' = DOMAIN stored' /\ DOMAIN stored' \subseteq 1..n
  <2>1. \A f, x : DOMAIN Entered(f, n, x) = DOMAIN f \cup {n}
    BY DEF Entered
  <2>2. 1..block \subseteq 1..n /\ n \in 1..n
    BY <1>1
  <2> HIDE DEF n
  <2>3. CASE swaps = <<>>
    BY <1>1, <1>2, <1>4, <2>2, <2>3
  <2>4. CASE swaps # <<>>
    BY <1>1, <1>2, <1>4, <2>1, <2>2, <2>4
  <2>5. QED
    BY <2>3, <2>4
<1>7. decision' \in {"open", "close", "none"}
  BY <1>2 DEF Decision
<1>8. IsPosition(market, position') /\ (trip' = <<>> \/ \E r : trip' = <<r>>)
  <2>1. CASE UNCHANGED <<position, trip>>
    BY <1>1, <2>1
  <2>2. CASE position' = <<[trade |-> SimulateOpen(Pair, PoolNow), pool |-> Pool]>> /\ UNCHANGED trip
    <3>1. Pool \in PoolsOf(Contracts[market]) /\ Pair = Contracts[market] /\ PoolNow = Pool
      BY <1>1, MarketPools DEF PoolNow
    <3>2. IsPosition(market, position')
      BY <2>2, <3>1 DEF IsPosition
    <3>3. QED
      BY <1>1, <2>2, <3>2
  <2>3. CASE /\ position' = <<>>
             /\ trip' = <<[open |-> position[1].trade, opened |-> position[1].pool,
                           close |-> SimulateClose(Pair, PoolNow, position[1].trade), closed |-> Pool]>>
    BY <2>3 DEF IsPosition
  <2>4. QED
    BY <1>2, <2>1, <2>2, <2>3 DEF Execute
<1>9. ProgramInv'
  BY <1>2, <1>4, <1>6, <1>7, <1>8 DEF ProgramInv
<1>10. QED
  BY <1>5, <1>9 DEF PipelineInv

LEMMA PipelineNext == PipelineInv /\ [Next]_vars => PipelineInv'
<1> SUFFICES ASSUME PipelineInv, [Next]_vars PROVE PipelineInv'
  OBVIOUS
<1>1. CASE UNCHANGED vars
  BY <1>1 DEF vars, chainVars, PipelineInv, ChainInv, ProgramInv
<1>2. ASSUME NEW r \in 1..Rungs, Swap(r) PROVE PipelineInv'
  BY <1>2, SwapKeeps
<1>3. CASE Provide
  BY <1>3, ProvideKeeps
<1>4. ASSUME NEW a \in {Fork, Alien}, Elsewhere(a) PROVE PipelineInv'
  BY <1>4, ElsewhereKeeps
<1>5. CASE EndBlock
  BY <1>5, EndBlockKeeps
<1>6. CASE Stopped
  BY <1>1, <1>6 DEF Stopped
<1>7. QED
  BY <1>1, <1>2, <1>3, <1>4, <1>5, <1>6 DEF Next

(* PipelineInv holds in every state: however often which contract does      *)
(* what, in whichever blocks.                                               *)
THEOREM PipelineInvariant == Spec => []PipelineInv
<1>1. Init => PipelineInv
  BY PipelineInit
<1>2. PipelineInv /\ [Next]_vars => PipelineInv'
  BY PipelineNext
<1>3. QED
  BY <1>1, <1>2, PTL DEF Spec

-----------------------------------------------------------------------------
(* What simulations and transactions say *)

LEMMA AtMost ==
  ASSUME NEW x \in Nat, NEW y \in Nat \ {0}
  PROVE  x \div y \in Nat /\ (x \div y) * y <= x
OBVIOUS

LEMMA AmountOut ==
  ASSUME NEW amount \in Nat, NEW in \in Nat \ {0}, NEW out \in Nat \ {0}
  PROVE  /\ GetAmountOut(amount, in, out) \in Nat
         /\ PairPays(amount, GetAmountOut(amount, in, out), in, out)
<1> DEFINE x == amount * 997 * out
           y == in * 1000 + amount * 997
<1>1. x \in Nat /\ y \in Nat \ {0}
  OBVIOUS
<1>2. GetAmountOut(amount, in, out) = x \div y
  BY DEF GetAmountOut
<1>3. PairPays(amount, x \div y, in, out) = ((x \div y) * y <= x)
  BY DEF PairPays
<1> HIDE DEF x, y
<1>4. QED
  BY <1>1, <1>2, <1>3, AtMost

LEMMA EthAmountIn ==
  ASSUME NEW reserve \in Nat PROVE GetEthAmountIn(reserve) \in Nat
BY NumberAssumption DEF GetEthAmountIn, Smaller

LEMMA QuoteTyped ==
  ASSUME NEW pool, pool.sqrt \in Nat \ {0}, pool.liquidity \in Nat \ {0}, NEW slot \in Side, NEW amount \in Nat
  PROVE  Quote(pool, slot, amount).out \in Int
<1> DEFINE l == pool.liquidity
           p == pool.sqrt
           units == l * Scale
           up == (units * p + units + amount * p - 1) \div (units + amount * p)
           down == p + (amount * Scale) \div l
<1>1. Scale \in Nat \ {0} /\ units \in Nat \ {0}
  <2>1. Scale \in Nat \ {0}
    BY NumberAssumption
  <2>2. ASSUME NEW x \in Nat \ {0}, NEW y \in Nat \ {0} PROVE x * y \in Nat \ {0}
    BY <2>2
  <2>3. QED
    BY <2>1, <2>2
<1>2. ASSUME NEW x \in Int, NEW y \in Nat \ {0} PROVE x \div y \in Int
  BY <1>2
<1> HIDE DEF units
<1>3. CASE slot = 1
  <2>1. amount * p \in Nat /\ units * p \in Nat
    BY <1>1
  <2>2. units + amount * p \in Nat \ {0} /\ units * p + units + amount * p - 1 \in Int
    BY <1>1, <2>1
  <2>3. up \in Int
    BY <1>2, <2>2
  <2>4. Quote(pool, slot, amount).out = (l * (p - up)) \div Scale
    BY <1>3 DEF Quote, units
  <2> HIDE DEF up
  <2>5. l * (p - up) \in Int
    BY <2>3
  <2>6. QED
    BY <1>1, <1>2, <2>4, <2>5
<1>4. CASE slot = 2
  <2>1. amount * Scale \in Nat
    BY <1>1
  <2>2. (amount * Scale) \div l \in Nat
    BY <2>1, AtMost
  <2>3. down \in Nat \ {0}
    BY <2>2
  <2>4. Quote(pool, slot, amount).out = (units * (down - p)) \div (down * p)
    BY <1>4 DEF Quote, units
  <2> HIDE DEF down
  <2>5. units * (down - p) \in Int /\ down * p \in Nat \ {0}
    <3>1. ASSUME NEW x \in Nat \ {0}, NEW y \in Nat \ {0} PROVE x * y \in Nat \ {0}
      BY <3>1
    <3>2. QED
      BY <1>1, <2>3, <3>1
  <2>6. QED
    BY <1>2, <2>4, <2>5
<1>5. QED
  BY <1>3, <1>4 DEF Side

(* What an opening trade is, of a pair at a state of its pool *)
OpenSays(pair, pool) ==
  LET t == SimulateOpen(pair, pool)
      w == WethSlot(pair)
      k == TokenSlot(pair)
  IN
  IF pair.dex = "v2"
  THEN LET eth == GetEthAmountIn(pool.reserves[w])
           token == GetAmountOut(eth, pool.reserves[w], pool.reserves[k]) IN
       t.dex = "v2" /\ t.in[w] = eth /\ t.out[k] = token /\ eth \in Nat /\ token \in Nat
  ELSE LET out == Quote(pool, w, MaxTrade).out IN
       t.dex = "v3" /\ t.amount[w] = MaxTrade /\ t.amount[k] = - out /\ out \in Int

LEMMA OpenIs ==
  ASSUME NEW a \in Markets, NEW pair, PairFacts(a, pair), NEW pool, PoolFacts(pair, pool)
  PROVE  OpenSays(pair, pool)
<1> DEFINE t == SimulateOpen(pair, pool)
           w == WethSlot(pair)
           k == TokenSlot(pair)
<1>1. /\ w \in Side /\ k \in Side
      /\ \A x, y : Sided(pair, x, y)[w] = x /\ Sided(pair, x, y)[k] = y
  BY DEF PairFacts
<1>2. CASE pair.dex = "v2"
  <2> DEFINE eth == GetEthAmountIn(pool.reserves[w])
             token == GetAmountOut(eth, pool.reserves[w], pool.reserves[k])
  <2>1. pool.reserves[w] \in Nat \ {0} /\ pool.reserves[k] \in Nat \ {0}
    BY <1>1, <1>2, NumberAssumption DEF PoolFacts
  <2>2. t = V2Trade(pair, Sided(pair, eth, 0), Sided(pair, 0, token), pool)
    BY <1>2 DEF SimulateOpen, V2SimulateOpen, WethReserve, TokenReserve
  <2>3. t.dex = "v2" /\ t.in = Sided(pair, eth, 0) /\ t.out = Sided(pair, 0, token)
    BY <2>2 DEF V2Trade
  <2>4. eth \in Nat
    BY <2>1, EthAmountIn
  <2> HIDE DEF eth
  <2>5. token \in Nat
    BY <2>1, <2>4, AmountOut
  <2> HIDE DEF t, token, w, k
  <2>6. t.in[w] = eth /\ t.out[k] = token
    BY <1>1, <2>3
  <2>7. QED
    BY <1>2, <2>3, <2>4, <2>5, <2>6 DEF OpenSays, t, eth, token, w, k
<1>3. CASE pair.dex # "v2"
  <2> DEFINE out == Quote(pool, w, MaxTrade).out
             sqrt == Quote(pool, w, MaxTrade).sqrt
  <2>1. pair.dex = "v3" /\ pool.sqrt \in Nat \ {0} /\ pool.liquidity \in Nat \ {0}
    BY <1>3, NumberAssumption DEF PairFacts, PoolFacts
  <2>2. t = V3Trade(pair, Sided(pair, MaxTrade, -out), sqrt, pool)
    BY <1>3 DEF SimulateOpen, V3SimulateOpen, OpenEthAmountIn
  <2>3. t.dex = "v3" /\ t.amount = Sided(pair, MaxTrade, -out)
    BY <2>2 DEF V3Trade
  <2>4. out \in Int
    <3>1. MaxTrade \in Nat
      BY NumberAssumption
    <3>2. QED
      BY <1>1, <2>1, <3>1, QuoteTyped
  <2> HIDE DEF t, out, w, k
  <2>5. t.amount[w] = MaxTrade /\ t.amount[k] = -out
    BY <1>1, <2>3
  <2>6. QED
    BY <1>3, <2>3, <2>4, <2>5 DEF OpenSays, t, out, w, k
<1>4. QED
  BY <1>2, <1>3

(* What the closing trade of a trade is, at a state of the pool *)
CloseSays(pair, pool, open) ==
  LET t == SimulateClose(pair, pool, open)
      w == WethSlot(pair)
      k == TokenSlot(pair)
  IN
  IF pair.dex = "v2"
  THEN LET token == open.out[k]
           eth == GetAmountOut(token, pool.reserves[k], pool.reserves[w]) IN
       t.dex = "v2" /\ t.in[k] = token /\ t.out[w] = eth /\ token \in Nat /\ eth \in Nat
  ELSE LET token == Abs(open.amount[k])
           out == Quote(pool, k, token).out IN
       t.dex = "v3" /\ t.amount[k] = token /\ t.amount[w] = - out /\ out \in Int /\ token \in Nat

LEMMA CloseIs ==
  ASSUME NEW a \in Markets, NEW pair, PairFacts(a, pair), NEW pool, PoolFacts(pair, pool),
         NEW opened, OpenSays(pair, opened)
  PROVE  CloseSays(pair, pool, SimulateOpen(pair, opened))
<1> DEFINE open == SimulateOpen(pair, opened)
           t == SimulateClose(pair, pool, open)
           w == WethSlot(pair)
           k == TokenSlot(pair)
<1>1. /\ w \in Side /\ k \in Side
      /\ \A x, y : Sided(pair, x, y)[w] = x /\ Sided(pair, x, y)[k] = y
  BY DEF PairFacts
<1>2. CASE pair.dex = "v2"
  <2> DEFINE token == open.out[k]
             eth == GetAmountOut(token, pool.reserves[k], pool.reserves[w])
  <2>1. pool.reserves[w] \in Nat \ {0} /\ pool.reserves[k] \in Nat \ {0}
    BY <1>1, <1>2, NumberAssumption DEF PoolFacts
  <2>2. token \in Nat
    BY <1>2 DEF OpenSays
  <2>3. t = V2Trade(pair, Sided(pair, 0, token), Sided(pair, eth, 0), pool)
    BY <1>2 DEF SimulateClose, V2SimulateClose, WethReserve, TokenReserve
  <2>4. t.dex = "v2" /\ t.in = Sided(pair, 0, token) /\ t.out = Sided(pair, eth, 0)
    BY <2>3 DEF V2Trade
  <2> HIDE DEF open, token
  <2>5. eth \in Nat
    BY <2>1, <2>2, AmountOut
  <2> HIDE DEF t, eth, w, k
  <2>6. t.in[k] = token /\ t.out[w] = eth
    BY <1>1, <2>4
  <2>7. QED
    BY <1>2, <2>2, <2>4, <2>5, <2>6 DEF CloseSays, t, eth, token, w, k, open
<1>3. CASE pair.dex # "v2"
  <2> DEFINE token == Abs(open.amount[k])
             out == Quote(pool, k, token).out
             sqrt == Quote(pool, k, token).sqrt
  <2>1. pair.dex = "v3" /\ pool.sqrt \in Nat \ {0} /\ pool.liquidity \in Nat \ {0}
    BY <1>3, NumberAssumption DEF PairFacts, PoolFacts
  <2>2. token \in Nat
    <3>1. open.amount[k] \in Int
      <4>1. ASSUME NEW x \in Int PROVE -x \in Int
        BY <4>1
      <4>2. QED
        BY <1>3, <4>1 DEF OpenSays
    <3>2. ASSUME NEW x \in Int PROVE Abs(x) \in Nat
      BY <3>2 DEF Abs
    <3>3. QED
      BY <3>1, <3>2
  <2>3. t = V3Trade(pair, Sided(pair, -out, token), sqrt, pool)
    BY <1>3 DEF SimulateClose, V3SimulateClose
  <2>4. t.dex = "v3" /\ t.amount = Sided(pair, -out, token)
    BY <2>3 DEF V3Trade
  <2> HIDE DEF open, token
  <2>5. out \in Int
    BY <1>1, <2>1, <2>2, QuoteTyped
  <2> HIDE DEF t, out, w, k
  <2>6. t.amount[k] = token /\ t.amount[w] = -out
    BY <1>1, <2>4
  <2>7. QED
    BY <1>3, <2>2, <2>4, <2>5, <2>6 DEF CloseSays, t, out, token, w, k, open
<1>4. QED
  BY <1>2, <1>3

LEMMA TypeHolds == PipelineInv => TypeOK
<1> SUFFICES ASSUME PipelineInv PROVE TypeOK
  OBVIOUS
<1>1. \A i \in DOMAIN logs : logs[i].event \in Event /\ logs[i].index = i
  <2>1. logs \in Seq(Log) /\ \A i \in 1..Len(logs) : logs[i].index = i
    BY DEF PipelineInv, ChainInv, LogsInv
  <2>2. ASSUME NEW i \in DOMAIN logs PROVE logs[i] \in Log /\ logs[i].index = i
    BY <2>1, <2>2
  <2>3. QED
    BY <2>2, LogFacts
<1>2. Len(position) <= 1
  <2>1. position = <<>> \/ \E x : position = <<x>>
    BY DEF PipelineInv, ProgramInv, IsPosition
  <2>2. Len(<<>>) = 0 /\ \A x : Len(<<x>>) = 1
    OBVIOUS
  <2>3. CASE position = <<>>
    BY <2>2, <2>3
  <2>4. CASE position # <<>>
    <3>1. PICK x : position = <<x>>
      BY <2>1, <2>4
    <3>2. QED
      BY <2>2, <3>1
  <2>5. QED
    BY <2>3, <2>4
<1>3. Len(trip) <= 1
  <2>1. trip = <<>> \/ \E x : trip = <<x>>
    BY DEF PipelineInv, ProgramInv
  <2>2. Len(<<>>) = 0 /\ \A x : Len(<<x>>) = 1
    OBVIOUS
  <2>3. CASE trip = <<>>
    BY <2>2, <2>3
  <2>4. CASE trip # <<>>
    <3>1. PICK x : trip = <<x>>
      BY <2>1, <2>4
    <3>2. QED
      BY <2>2, <3>1
  <2>5. QED
    BY <2>3, <2>4
<1>4. DOMAIN bars.data \subseteq 1..BarOf(MaxBlock) /\ Cardinality(DOMAIN bars.data) <= Retention
  BY DEF PipelineInv, ProgramInv, BarsUpTo
<1>5. QED
  BY <1>1, <1>2, <1>3, <1>4 DEF TypeOK, PipelineInv, ChainInv, ProgramInv

(* The program, as long as it runs, has only values of their types: logs     *)
(* numbered one by one, no more bars than it retains, at most one open      *)
(* trade, and a stored tick for every block the pool traded in.             *)
THEOREM PipelineTypeCorrect == Spec => []TypeOK
BY PipelineInvariant, TypeHolds, PTL

(* The filter on event signatures never makes a trade of a sync and a swap  *)
(* that do not belong together and never loses one: the indexer's filtered  *)
(* logs have the trades that all of a block's logs have.                    *)
THEOREM FilteringKeepsTrades == Spec => []SameTradesUnfiltered
<1>1. PipelineInv => SameTradesUnfiltered
  BY BlockTicksAre DEF PipelineInv, ChainInv
<1>2. QED
  BY <1>1, PipelineInvariant, PTL

(* A block's tick of the pool closes at the pool's price and has the WETH   *)
(* that moved as its volume; a V2 pair's opens at the price before the      *)
(* first swap and spans all prices, whatever else the block's logs hold.    *)
THEOREM TicksFollowThePool == Spec => []TickFollowsPool
<1>1. ASSUME PipelineInv PROVE TickFollowsPool
  <2>1. BlockTicks = PT(logs) /\ TickInv(logs, swaps, market) /\ Pair = Contracts[market]
    BY <1>1, BlockTicksAre DEF PipelineInv, ChainInv, Pair
  <2>2. CASE swaps = <<>>
    BY <2>1, <2>2 DEF TickFollowsPool, TickInv
  <2>3. CASE swaps # <<>>
    <3>1. Follows(Pair, BlockTicks[market].tick, swaps)
      BY <2>1, <2>3 DEF TickInv
    <3>2. QED
      BY <2>3, <3>1 DEF TickFollowsPool, Follows, PoolPrice
  <2>4. QED
    BY <2>2, <2>3
<1>2. QED
  BY <1>1, PipelineInvariant, PTL

(* Whatever a block's logs hold, its tick can go into the bars: a backtest  *)
(* never stops at an insertion.                                             *)
THEOREM EveryTickIsInserted == Spec => []InsertsTick
BY PipelineInvariant, TickInserts, PTL

LEMMA OpenAgrees ==
  ASSUME OpenSays(Pair, Pool), PairFacts(market, Pair), PoolFacts(Pair, Pool)
  PROVE  LET open == SimulateOpen(Pair, PoolNow) IN
         /\ SameAmounts(OpenTransaction(Pair, Pool), Paid(open), Bought(open))
         /\ Pays(open, WethSlot(Pair), TokenSlot(Pair))
<1> DEFINE t == SimulateOpen(Pair, Pool)
           w == WethSlot(Pair)
           k == TokenSlot(Pair)
<1>1. w \in Side /\ k \in Side
  BY DEF PairFacts
<1>2. PoolNow = Pool
  BY DEF PoolNow
<1>3. CASE Pair.dex = "v2"
  <2> DEFINE eth == GetEthAmountIn(Pool.reserves[w])
             token == GetAmountOut(eth, Pool.reserves[w], Pool.reserves[k])
  <2>1. t.dex = "v2" /\ t.in[w] = eth /\ t.out[k] = token /\ eth \in Nat /\ token \in Nat
    BY <1>3 DEF OpenSays
  <2>2. Pool.reserves[w] \in Nat \ {0} /\ Pool.reserves[k] \in Nat \ {0}
    BY <1>1, <1>3, NumberAssumption DEF PoolFacts
  <2>3. Paid(t) = eth /\ Bought(t) = token
    BY <2>1 DEF Paid, Bought
  <2>4. OpenTransaction(Pair, Pool) = [in |-> eth, min |-> token]
    BY <1>3 DEF OpenTransaction, V2OpenTransaction, WethReserve, TokenReserve
  <2>5. PairPays(eth, token, Pool.reserves[w], Pool.reserves[k])
    BY <2>1, <2>2, AmountOut
  <2> HIDE DEF t, eth, token, w, k
  <2>6. SameAmounts(OpenTransaction(Pair, Pool), Paid(t), Bought(t))
    BY <2>3, <2>4 DEF SameAmounts
  <2>7. Pays(t, w, k)
    BY <2>1, <2>5 DEF Pays
  <2>8. QED
    BY <1>2, <2>6, <2>7 DEF t, w, k
<1>4. CASE Pair.dex # "v2"
  <2> DEFINE out == Quote(Pool, w, MaxTrade).out
  <2>1. t.dex = "v3" /\ t.amount[w] = MaxTrade /\ t.amount[k] = -out /\ out \in Int
    BY <1>4 DEF OpenSays
  <2>2. OpenTransaction(Pair, Pool) = [in |-> MaxTrade, min |-> out]
    BY <1>4 DEF OpenTransaction, V3OpenTransaction, OpenEthAmountIn
  <2> HIDE DEF out
  <2>3. Paid(t) = MaxTrade /\ Bought(t) = - (-out)
    BY <2>1 DEF Paid, Bought
  <2>4. - (-out) = out
    BY <2>1
  <2> HIDE DEF t
  <2>5. SameAmounts(OpenTransaction(Pair, Pool), Paid(t), Bought(t))
    BY <2>2, <2>3, <2>4 DEF SameAmounts
  <2>6. Pays(t, w, k)
    BY <1>4 DEF Pays
  <2>7. QED
    BY <1>2, <2>5, <2>6 DEF t
<1>5. QED
  BY <1>3, <1>4

LEMMA CloseAgrees ==
  ASSUME NEW open, CloseSays(Pair, Pool, open), PairFacts(market, Pair), PoolFacts(Pair, Pool)
  PROVE  LET close == SimulateClose(Pair, PoolNow, open) IN
         /\ SameAmounts(CloseTransaction(Pair, Pool, open), Sold(close), Received(close))
         /\ Pays(close, TokenSlot(Pair), WethSlot(Pair))
<1> DEFINE t == SimulateClose(Pair, Pool, open)
           w == WethSlot(Pair)
           k == TokenSlot(Pair)
<1>1. w \in Side /\ k \in Side
  BY DEF PairFacts
<1>2. PoolNow = Pool
  BY DEF PoolNow
<1>3. CASE Pair.dex = "v2"
  <2> DEFINE token == open.out[k]
             eth == GetAmountOut(token, Pool.reserves[k], Pool.reserves[w])
  <2>1. t.dex = "v2" /\ t.in[k] = token /\ t.out[w] = eth /\ token \in Nat /\ eth \in Nat
    BY <1>3 DEF CloseSays
  <2>2. Pool.reserves[w] \in Nat \ {0} /\ Pool.reserves[k] \in Nat \ {0}
    BY <1>1, <1>3, NumberAssumption DEF PoolFacts
  <2>3. Sold(t) = token /\ Received(t) = eth
    BY <2>1 DEF Sold, Received
  <2>4. CloseTransaction(Pair, Pool, open) = [in |-> token, min |-> eth]
    BY <1>3 DEF CloseTransaction, V2CloseTransaction, WethReserve, TokenReserve
  <2>5. PairPays(token, eth, Pool.reserves[k], Pool.reserves[w])
    BY <2>1, <2>2, AmountOut
  <2> HIDE DEF t, eth, token, w, k
  <2>6. SameAmounts(CloseTransaction(Pair, Pool, open), Sold(t), Received(t))
    BY <2>3, <2>4 DEF SameAmounts
  <2>7. Pays(t, k, w)
    BY <2>1, <2>5 DEF Pays
  <2>8. QED
    BY <1>2, <2>6, <2>7 DEF t, w, k
<1>4. CASE Pair.dex # "v2"
  <2> DEFINE token == Abs(open.amount[k])
             out == Quote(Pool, k, token).out
  <2>1. t.dex = "v3" /\ t.amount[k] = token /\ t.amount[w] = -out /\ out \in Int
    BY <1>4 DEF CloseSays
  <2>2. CloseTransaction(Pair, Pool, open) = [in |-> token, min |-> out]
    BY <1>4 DEF CloseTransaction, V3CloseTransaction
  <2> HIDE DEF token, out
  <2>3. Sold(t) = token /\ Received(t) = - (-out)
    BY <2>1 DEF Sold, Received
  <2>4. - (-out) = out
    BY <2>1
  <2> HIDE DEF t
  <2>5. SameAmounts(CloseTransaction(Pair, Pool, open), Sold(t), Received(t))
    BY <2>2, <2>3, <2>4 DEF SameAmounts
  <2>6. Pays(t, k, w)
    BY <1>4 DEF Pays
  <2>7. QED
    BY <1>2, <2>5, <2>6 DEF t
<1>5. QED
  BY <1>3, <1>4

(* On every state of any pool a request's transaction and its simulation    *)
(* agree on what goes in and what comes out, for either DEX, either side    *)
(* and both operations, and a V2 pair would pay the simulated amount.       *)
THEOREM SimulationsMatch == Spec => []SimulatesTransactions
<1>1. ASSUME PipelineInv PROVE SimulatesTransactions
  <2>1. /\ market \in Markets /\ PairFacts(market, Pair) /\ PoolFacts(Pair, Pool)
        /\ IsPosition(market, position) /\ Pair = Contracts[market]
    BY <1>1, MarketPools DEF PipelineInv, ChainInv, ProgramInv
  <2>2. OpenSays(Pair, Pool)
    BY <2>1, OpenIs
  <2>3. ASSUME NEW i \in DOMAIN position
        PROVE  CloseSays(Pair, Pool, position[i].trade)
    <3>1. PICK pool \in PoolsOf(Pair) : position = <<[trade |-> SimulateOpen(Pair, pool), pool |-> pool]>>
      <4>1. position # <<>>
        BY <2>3
      <4>2. QED
        BY <2>1, <4>1 DEF IsPosition
    <3>2. position[i].trade = SimulateOpen(Pair, pool)
      <4>1. ASSUME NEW x, NEW j \in DOMAIN <<x>> PROVE <<x>>[j] = x
        BY <4>1
      <4>2. position[i] = [trade |-> SimulateOpen(Pair, pool), pool |-> pool]
        BY <2>3, <3>1, <4>1
      <4>3. QED
        BY <4>2
    <3>3. PoolFacts(Pair, pool)
      BY <2>1, PoolsTyped
    <3>4. OpenSays(Pair, pool)
      BY <2>1, <3>3, OpenIs
    <3>5. QED
      BY <2>1, <3>2, <3>4, CloseIs
  <2>4. QED
    BY <2>1, <2>2, <2>3, OpenAgrees, CloseAgrees DEF SimulatesTransactions
<1>2. QED
  BY <1>1, PipelineInvariant, PTL

-----------------------------------------------------------------------------
(* What the strategy reads from a bar *)

(* The average's loop over closes, and the one that reduces a bar's ticks *)
IsSmoothed(s, ema) ==
  ema = [i \in 1..Len(s) |-> IF i = 1 THEN s[1] ELSE Smooth(ema[i - 1], s[i])]

LEMMA SmoothedLoop ==
  ASSUME NEW s, Len(s) \in Nat
  PROVE  \E ema : IsSmoothed(s, ema) /\ Smoothed(s) = ema[Len(s)]
<1> DEFINE n == Len(s)
           Is(m, f) == f = [i \in 1..m |-> IF i = 1 THEN s[1] ELSE Smooth(f[i - 1], s[i])]
           T == {m \in 0..n : \E f : Is(m, f)}
           loop == CHOOSE f : Is(n, f)
<1>1. 0 \in T
  <2>1. Is(0, [i \in 1..0 |-> s[1]])
    OBVIOUS
  <2> HIDE DEF Is
  <2>2. QED
    BY <2>1
<1>2. ASSUME NEW m \in 1..n, m - 1 \in T PROVE m \in T
  <2>1. PICK f : Is(m - 1, f)
    BY <1>2
  <2> DEFINE g == [i \in 1..m |-> IF i = m THEN (IF m = 1 THEN s[1] ELSE Smooth(f[m - 1], s[m])) ELSE f[i]]
  <2>2. Is(m, g)
    <3>1. \A i \in 1..m : i # m => i \in 1..m - 1 /\ (i # 1 => i - 1 \in 1..m /\ i - 1 # m)
      OBVIOUS
    <3>2. m # 1 => m - 1 \in 1..m /\ m - 1 # m
      OBVIOUS
    <3>3. \A i \in 1..m - 1 : f[i] = IF i = 1 THEN s[1] ELSE Smooth(f[i - 1], s[i])
      BY <2>1
    <3>4. \A i \in 1..m : g[i] = IF i = 1 THEN s[1] ELSE Smooth(g[i - 1], s[i])
      BY <3>1, <3>2, <3>3
    <3>5. QED
      BY <3>4
  <2> HIDE DEF Is
  <2>3. QED
    BY <2>2
<1>3. n \in T
  <2>1. n \in Nat
    OBVIOUS
  <2> HIDE DEF T, n
  <2>2. 0..n \subseteq T
    BY <1>1, <1>2, InductionUpTo, <2>1
  <2>3. QED
    BY <2>1, <2>2
<1>4. Is(n, loop)
  BY <1>3
<1>5. Smoothed(s) = loop[n]
  BY DEF Smoothed
<1>6. QED
  <2> HIDE DEF loop
  <2>1. IsSmoothed(s, loop)
    BY <1>4 DEF IsSmoothed
  <2>2. QED
    BY <1>5, <2>1

(* The average of whole numbers is one. *)
LEMMA SmoothedTyped ==
  ASSUME NEW s \in Seq(Int), s # <<>>
  PROVE  Smoothed(s) \in Int
<1> DEFINE n == Len(s)
<1>1. n \in Nat /\ n >= 1 /\ \A i \in 1..n : s[i] \in Int
  OBVIOUS
<1>2. PICK ema : IsSmoothed(s, ema) /\ Smoothed(s) = ema[n]
  BY <1>1, SmoothedLoop
<1>3. \A i \in 1..n : ema[i] = IF i = 1 THEN s[1] ELSE Smooth(ema[i - 1], s[i])
  BY <1>2 DEF IsSmoothed
<1>4. \A x, y \in Int : Smooth(x, y) \in Int
  <2>1. TAKE x, y \in Int
  <2>2. (2 * (y - x)) \div 10 \in Int
    OBVIOUS
  <2>3. EmaPeriod + 1 = 10
    BY DEF EmaPeriod
  <2>4. QED
    BY <2>2, <2>3 DEF Smooth
<1> HIDE DEF n
<1> DEFINE T == {i \in 0..n : i = 0 \/ ema[i] \in Int}
<1>5. 0 \in T
  BY <1>1
<1>6. ASSUME NEW i \in 1..n, i - 1 \in T PROVE i \in T
  <2>1. CASE i = 1
    BY <1>1, <1>3, <2>1
  <2>2. CASE i # 1
    <3>1. ema[i - 1] \in Int /\ s[i] \in Int
      BY <1>1, <1>6, <2>2
    <3>2. Smooth(ema[i - 1], s[i]) \in Int
      BY <1>4, <3>1
    <3>3. ema[i] = Smooth(ema[i - 1], s[i])
      BY <1>3, <2>2
    <3>4. QED
      BY <1>1, <3>2, <3>3
  <2>3. QED
    BY <2>1, <2>2
<1>7. n \in T
  <2> HIDE DEF T
  <2>1. 0..n \subseteq T
    BY <1>1, <1>5, <1>6, InductionUpTo
  <2>2. QED
    BY <1>1, <2>1
<1>8. QED
  BY <1>1, <1>2, <1>7

ReducedWith(d, t) ==
  [d EXCEPT !.high = Larger(@, t.high), !.low = Smaller(@, t.low), !.close = t.close]

IsReduced(s, data) ==
  data = [i \in 1..Len(s) |-> IF i = 1 THEN s[1] ELSE ReducedWith(data[i - 1], s[i])]

LEMMA ReducedLoop ==
  ASSUME NEW s, Len(s) \in Nat
  PROVE  \E data : IsReduced(s, data) /\ Reduce(s) = data[Len(s)]
<1> DEFINE n == Len(s)
           Is(m, f) == f = [i \in 1..m |-> IF i = 1 THEN s[1] ELSE ReducedWith(f[i - 1], s[i])]
           T == {m \in 0..n : \E f : Is(m, f)}
           loop == CHOOSE f : Is(n, f)
<1>1. Reduce(s) = loop[n]
  BY DEF Reduce, ReducedWith
<1>2. \A f : Is(n, f) => IsReduced(s, f)
  BY DEF IsReduced
<1>3. 0 \in T
  <2>1. Is(0, [i \in 1..0 |-> s[1]])
    OBVIOUS
  <2> HIDE DEF Is
  <2>2. QED
    BY <2>1
<1>4. ASSUME NEW m \in 1..n, m - 1 \in T PROVE m \in T
  <2>1. PICK f : Is(m - 1, f)
    BY <1>4
  <2> DEFINE g == [i \in 1..m |-> IF i = m THEN (IF m = 1 THEN s[1] ELSE ReducedWith(f[m - 1], s[m])) ELSE f[i]]
  <2>2. Is(m, g)
    <3>1. \A i \in 1..m : i # m => i \in 1..m - 1 /\ (i # 1 => i - 1 \in 1..m /\ i - 1 # m)
      OBVIOUS
    <3>2. m # 1 => m - 1 \in 1..m /\ m - 1 # m
      OBVIOUS
    <3>3. \A i \in 1..m - 1 : f[i] = IF i = 1 THEN s[1] ELSE ReducedWith(f[i - 1], s[i])
      BY <2>1
    <3>4. \A i \in 1..m : g[i] = IF i = 1 THEN s[1] ELSE ReducedWith(g[i - 1], s[i])
      BY <3>1, <3>2, <3>3
    <3>5. QED
      BY <3>4
  <2> HIDE DEF Is
  <2>3. QED
    BY <2>2
<1>5. n \in T
  <2>1. n \in Nat
    OBVIOUS
  <2> HIDE DEF T, n
  <2>2. 0..n \subseteq T
    BY <1>3, <1>4, InductionUpTo, <2>1
  <2>3. QED
    BY <2>1, <2>2
<1>6. Is(n, loop)
  BY <1>5
<1>7. QED
  <2> HIDE DEF loop, Is
  <2>1. IsReduced(s, loop)
    BY <1>2, <1>6
  <2>2. QED
    BY <1>1, <2>1

(* The reduced tick opens with the first one and closes with the last. *)
LEMMA ReducedFacts ==
  ASSUME NEW s \in Seq(Tick), s # <<>>
  PROVE  Reduce(s).open = s[1].open /\ Reduce(s).close = s[Len(s)].close
<1> DEFINE n == Len(s)
<1>1. n \in Nat /\ n >= 1 /\ \A i \in 1..n : s[i] \in Tick
  OBVIOUS
<1>2. PICK data : IsReduced(s, data) /\ Reduce(s) = data[n]
  BY <1>1, ReducedLoop
<1>3. \A i \in 1..n : data[i] = IF i = 1 THEN s[1] ELSE ReducedWith(data[i - 1], s[i])
  BY <1>2 DEF IsReduced
<1>4. ASSUME NEW d \in Tick, NEW t \in Tick
      PROVE  ReducedWith(d, t) \in Tick /\ ReducedWith(d, t).open = d.open /\ ReducedWith(d, t).close = t.close
  <2>1. Larger(d.high, t.high) \in Price /\ Smaller(d.low, t.low) \in Price /\ t.close \in Price
    BY DEF Tick, Larger, Smaller
  <2>2. ReducedWith(d, t) \in Tick
    BY <2>1 DEF Tick, ReducedWith
  <2>3. QED
    BY <2>2 DEF Tick, ReducedWith
<1> HIDE DEF n
<1> DEFINE Good(i) == data[i] \in Tick /\ data[i].open = s[1].open /\ data[i].close = s[i].close
           T == {i \in 0..n : i = 0 \/ Good(i)}
<1>5. 0 \in T
  BY <1>1
<1>6. ASSUME NEW i \in 1..n, i - 1 \in T PROVE i \in T
  <2>1. CASE i = 1
    BY <1>1, <1>3, <2>1
  <2>2. CASE i # 1
    <3>1. Good(i - 1) /\ s[i] \in Tick
      BY <1>1, <1>6, <2>2
    <3>2. data[i] = ReducedWith(data[i - 1], s[i])
      BY <1>3, <2>2
    <3>3. Good(i)
      BY <1>4, <3>1, <3>2
    <3>4. QED
      BY <1>1, <3>3
  <2>3. QED
    BY <2>1, <2>2
<1>7. n \in T
  <2> HIDE DEF T
  <2>1. 0..n \subseteq T
    BY <1>1, <1>5, <1>6, InductionUpTo
  <2>2. QED
    BY <1>1, <2>1
<1>8. Good(n)
  BY <1>1, <1>7
<1>9. QED
  BY <1>2, <1>8 DEF n

(* A bar of whole bars has the ticks of an interval of blocks, *)
LEMMA BarInterval ==
  ASSUME NEW T, NEW B \in Nat, NEW d, IsData(d, T, B), Whole(d), NEW k \in DOMAIN d
  PROVE  DOMAIN d[k].ticks = StartOf(d[k])..EndOf(d[k])
<1> DEFINE D == DOMAIN d[k].ticks
           a == StartOf(d[k])
           z == EndOf(d[k])
<1>1. /\ IsTicks(d[k].ticks, T, B) /\ D # {} /\ D \subseteq 1..B
      /\ \A j \in DOMAIN d : j \in Nat /\ DOMAIN d[j].ticks \subseteq 1..B
  <2>1. \A j \in DOMAIN d : IsBarOf(d[j], T, B) /\ j \in 0..B + 1
    BY DEF IsData
  <2>2. \A j \in DOMAIN d : j \in Nat /\ DOMAIN d[j].ticks \subseteq 1..B
    BY <2>1 DEF IsBarOf, IsTicks
  <2>3. QED
    BY <2>1, <2>2 DEF IsBarOf, Whole
<1>2. a \in D /\ z \in D /\ \A m \in D : a <= m /\ m <= z
  BY <1>1, EndFacts
<1>3. \A i, j \in DOMAIN d : i < j => \A m \in DOMAIN d[i].ticks, n \in DOMAIN d[j].ticks : m < n
  BY DEF Whole
<1>4. a..z \subseteq Blocks(d)
  <2>1. a \in Blocks(d) /\ z \in Blocks(d)
    BY <1>2 DEF Blocks
  <2>2. QED
    BY <2>1 DEF Whole
<1> HIDE DEF a, z
<1>5. ASSUME NEW m \in a..z PROVE m \in D
  <2>1. PICK j \in DOMAIN d : m \in DOMAIN d[j].ticks
    BY <1>4 DEF Blocks
  <2>2. a \in Nat /\ z \in Nat /\ m \in Nat /\ a <= m /\ m <= z
    BY <1>1, <1>2
  <2>3. ~ (j < k) /\ ~ (k < j)
    <3>1. j < k => m < a
      BY <1>2, <1>3, <2>1
    <3>2. k < j => z < m
      BY <1>2, <1>3, <2>1
    <3>3. QED
      BY <2>2, <3>1, <3>2
  <2>4. j = k
    BY <1>1, <2>3
  <2>5. QED
    BY <2>1, <2>4
<1>6. \A m \in D : m \in a..z
  <2>1. \A m \in D : m \in Nat /\ a \in Nat /\ z \in Nat
    BY <1>1, <1>2
  <2>2. QED
    BY <1>2, <2>1
<1> HIDE DEF D
<1>7. D = a..z
  BY <1>5, <1>6
<1>8. QED
  BY <1>7 DEF D, a, z

(* and its data opens with its first tick and closes with its last. *)
LEMMA BarDataFacts ==
  ASSUME NEW B \in Nat, NEW bar, IsTicks(bar.ticks, Tick, B), DOMAIN bar.ticks # {},
         DOMAIN bar.ticks = StartOf(bar)..EndOf(bar)
  PROVE  BarData(bar).open = bar.ticks[StartOf(bar)].open /\ BarData(bar).close = CloseOf(bar)
<1> DEFINE D == DOMAIN bar.ticks
           a == StartOf(bar)
           z == EndOf(bar)
           s == TicksOf(bar)
           n == z - a + 1
<1>1. a \in D /\ z \in D /\ (\A m \in D : a <= m /\ m <= z) /\ a \in Nat /\ z \in Nat
      /\ \A m \in D : bar.ticks[m] \in Tick
  <2>1. a \in D /\ z \in D /\ \A m \in D : a <= m /\ m <= z
    BY EndFacts
  <2>2. D \subseteq 1..B /\ \A m \in D : bar.ticks[m] \in Tick
    BY DEF IsTicks
  <2>3. \A m \in 1..B : m \in Nat
    OBVIOUS
  <2> HIDE DEF a, z, D
  <2>4. a \in 1..B /\ z \in 1..B
    BY <2>1, <2>2
  <2>5. QED
    BY <2>1, <2>2, <2>3, <2>4
<1>2. D = a..z /\ a <= z /\ CloseOf(bar) = bar.ticks[z].close
  BY <1>1 DEF CloseOf, Close
<1>3. Cardinality(D) = n /\ n \in Nat /\ n >= 1
  <2> HIDE DEF a, z, D
  <2>1. Cardinality(a..z) = IF a > z THEN 0 ELSE z - a + 1
    BY <1>1, FS_Interval
  <2>2. QED
    BY <1>1, <1>2, <2>1
<1>4. s = [i \in 1..n |-> bar.ticks[a + i - 1]]
  BY <1>3 DEF TicksOf
<1> HIDE DEF a, z, D
<1>5. \A i \in 1..n : a + i - 1 \in D
  BY <1>1, <1>2
<1>6. \A i \in 1..n : bar.ticks[a + i - 1] \in Tick
  BY <1>1, <1>5
<1>7. a + 1 - 1 = a /\ a + n - 1 = z /\ 1 \in 1..n /\ n \in 1..n
  BY <1>1, <1>2
<1> HIDE DEF n, s
<1>8. s \in [1..n -> Tick] /\ s[1] = bar.ticks[a] /\ s[n] = bar.ticks[z]
  BY <1>4, <1>6, <1>7
<1>9. s \in Seq(Tick) /\ Len(s) = n /\ s # <<>>
  BY <1>3, <1>8
<1>10. Reduce(s).open = s[1].open /\ Reduce(s).close = s[n].close
  BY <1>9, ReducedFacts
<1>11. QED
  BY <1>2, <1>8, <1>10 DEF BarData, s, a, z

-----------------------------------------------------------------------------
(* The strategy sees the market: the stored ticks have the pool's prices and *)
(* the bars mirror them.  That needs a retention that leaves the padded bar  *)
(* the bars its indicators are computed from.                                *)

PriceStored(tick, c, dex) ==
  /\ c.first \in Int /\ c.last \in Int
  /\ tick.close = c.last /\ (dex = "v2" => tick.open = c.first)

PricesStored(st, cs, dex) == \A m \in DOMAIN st : PriceStored(st[m], cs[m], dex)

MarketInv ==
  /\ IsTicks(stored, Tick, MaxBlock) /\ Mirror(bars.data, stored)
  /\ PricesStored(stored, closes, Pair.dex)

LEMMA EnteredGrows ==
  ASSUME NEW T, NEW B \in Nat, NEW st, IsTicks(st, T, B), NEW n \in 1..B, \A m \in DOMAIN st : m < n,
         NEW tick \in T
  PROVE  Grown(st, n, tick, Entered(st, n, tick), B) /\ IsTicks(Entered(st, n, tick), T, B)
<1> DEFINE st2 == Entered(st, n, tick)
<1>1. DOMAIN st \subseteq 1..B /\ \A m \in DOMAIN st : st[m] \in T
  BY DEF IsTicks
<1>2. /\ st2 = [m \in DOMAIN st \cup {n} |-> IF m = n THEN tick ELSE st[m]]
      /\ DOMAIN st2 = DOMAIN st \cup {n} /\ st2[n] = tick
  BY DEF Entered
<1>3. \A m \in DOMAIN st : m # n
  BY <1>1
<1>4. \A m \in DOMAIN st : st2[m] = st[m]
  BY <1>3 DEF Entered
<1> HIDE DEF st2
<1>5. Grown(st, n, tick, st2, B)
  BY <1>1, <1>2, <1>4 DEF Grown
<1>6. \A m \in DOMAIN st2 : st2[m] \in T
  BY <1>1, <1>2, <1>4
<1>7. st2 = [m \in DOMAIN st2 |-> st2[m]]
  BY <1>2
<1>8. st2 \in [DOMAIN st2 -> T]
  BY <1>6, <1>7
<1>9. IsTicks(st2, T, B)
  BY <1>1, <1>2, <1>8 DEF IsTicks
<1>10. QED
  BY <1>5, <1>9 DEF st2

LEMMA PricesEntered ==
  ASSUME NEW st, NEW cs, NEW dex, DOMAIN st = DOMAIN cs, PricesStored(st, cs, dex), NEW n,
         NEW tick, NEW c, PriceStored(tick, c, dex)
  PROVE  PricesStored(Entered(st, n, tick), Entered(cs, n, c), dex)
<1>1. ASSUME NEW m \in DOMAIN st \cup {n}
      PROVE  PriceStored(IF m = n THEN tick ELSE st[m], IF m = n THEN c ELSE cs[m], dex)
  BY <1>1 DEF PricesStored
<1>2. QED
  BY <1>1 DEF PricesStored, Entered

LEMMA MarketInit == Init => MarketInv
<1> SUFFICES ASSUME Init PROVE MarketInv
  OBVIOUS
<1>1. bars = NewBars /\ stored = <<>> /\ closes = <<>>
  BY DEF Init
<1>2. bars.data = <<>> /\ DOMAIN <<>> = {}
  BY <1>1 DEF NewBars
<1>3. IsTicks(stored, Tick, MaxBlock)
  <2>1. <<>> \in [{} -> Tick]
    OBVIOUS
  <2>2. QED
    BY <1>1, <1>2, <2>1 DEF IsTicks
<1>4. Mirror(bars.data, stored)
  <2>1. \A j : In({}, j) = {}
    BY DEF In
  <2>2. QED
    BY <1>1, <1>2, <2>1 DEF Mirror, Recent
<1>5. PricesStored(stored, closes, Pair.dex)
  BY <1>1, <1>2 DEF PricesStored
<1>6. QED
  BY <1>3, <1>4, <1>5 DEF MarketInv

(* What a block's tick says is what the swaps did. *)
LEMMA BlockPrices ==
  ASSUME PipelineInv, swaps # <<>>
  PROVE  PriceStored(BlockTicks[market].tick,
                     [first |-> PoolPrice(Head(swaps).from), last |-> PoolPrice(Last(swaps).to)], Pair.dex)
<1> DEFINE first == Head(swaps).from
           last == Last(swaps).to
<1>1. ChainInv /\ BlockTicks = PT(logs) /\ TickInv(logs, swaps, market) /\ Pair = Contracts[market]
      /\ market \in Markets
  BY BlockTicksAre DEF PipelineInv, ChainInv, Pair
<1>2. Follows(Pair, BlockTicks[market].tick, swaps) /\ swaps \in Seq(SwapsOf(Pair))
  BY <1>1 DEF TickInv
<1>3. first \in PoolsOf(Pair) /\ last \in PoolsOf(Pair)
  <2>1. \A s \in SwapsOf(Pair) : s.from \in PoolsOf(Pair) /\ s.to \in PoolsOf(Pair)
    BY DEF SwapsOf
  <2>2. Head(swaps) \in SwapsOf(Pair) /\ Last(swaps) \in SwapsOf(Pair)
    <3> DEFINE S == SwapsOf(Pair)
    <3>1. swaps \in Seq(S)
      BY <1>2
    <3> HIDE DEF S
    <3>2. Head(swaps) \in S /\ Last(swaps) \in S
      BY <3>1 DEF Last
    <3>3. QED
      BY <3>2 DEF S
  <2>3. QED
    BY <2>1, <2>2
<1> HIDE DEF first, last
<1>4. PoolFacts(Pair, first) /\ PoolFacts(Pair, last)
  BY <1>1, <1>3, PoolsTyped
<1>5. PoolPrice(first) \in Int /\ PoolPrice(last) \in Int
  <2>1. \A x \in 0..Width - 1 : x \in Int
    OBVIOUS
  <2>2. QED
    BY <1>4, <2>1 DEF PoolFacts, PoolPrice
<1>6. QED
  BY <1>2, <1>5 DEF PriceStored, Follows, PoolPrice, first, last

LEMMA MarketEndBlock ==
  ASSUME 3 <= Retention, Period < Retention, PipelineInv, MarketInv, EndBlock
  PROVE  MarketInv'
<1> DEFINE n == block + 1
<1>1. /\ n <= MaxBlock /\ bars' = BarsWith(n) /\ market' = market
      /\ stored' = (IF market \in DOMAIN BlockTicks THEN Entered(stored, n, BlockTicks[market].tick) ELSE stored)
      /\ closes' = (IF swaps = <<>> THEN closes
                    ELSE Entered(closes, n, [first |-> PoolPrice(Head(swaps).from), last |-> PoolPrice(Last(swaps).to)]))
  BY DEF EndBlock
<1>2. /\ BarsUpTo(bars, block) /\ block \in 0..MaxBlock /\ MaxBlock \in Nat
      /\ DOMAIN closes = DOMAIN stored /\ DOMAIN stored \subseteq 1..block
      /\ IsTicks(stored, Tick, MaxBlock) /\ Mirror(bars.data, stored) /\ PricesStored(stored, closes, Pair.dex)
  BY BoundsAssumption DEF PipelineInv, ChainInv, ProgramInv, MarketInv
<1>3. n \in 1..MaxBlock /\ n - 1 = block /\ \A m \in DOMAIN stored : m < n
  BY <1>1, <1>2
<1>4. Pair' = Pair
  BY <1>1 DEF Pair
<1>5. market \in DOMAIN BlockTicks <=> swaps # <<>>
  BY TickInserts
<1> HIDE DEF n
<1>6. CASE swaps = <<>>
  <2>1. bars' = bars /\ stored' = stored /\ closes' = closes
    BY <1>1, <1>5, <1>6 DEF BarsWith
  <2>2. QED
    BY <1>2, <1>4, <2>1 DEF MarketInv
<1>7. CASE swaps # <<>>
  <2> DEFINE tick == BlockTicks[market].tick
             c == [first |-> PoolPrice(Head(swaps).from), last |-> PoolPrice(Last(swaps).to)]
             fin == BarOf(n) - 1
  <2>1. tick \in Tick /\ PriceStored(tick, c, Pair.dex)
    BY <1>7, TickInserts, BlockPrices
  <2>2. bars' = InsertData(bars, n, tick, fin) /\ stored' = Entered(stored, n, tick) /\ closes' = Entered(closes, n, c)
    BY <1>1, <1>5, <1>7 DEF BarsWith
  <2>3. fin \in NoBar..MaxBlock + 1
    <3>1. n \in Nat /\ n <= MaxBlock
      BY <1>2, <1>3
    <3>2. BarOf(n) \in Nat /\ 1 <= BarOf(n) /\ BarOf(n) <= n + 1
      BY <3>1, BarOfFacts
    <3>3. QED
      BY <1>2, <3>1, <3>2 DEF NoBar
  <2> HIDE DEF tick, c, fin
  <2>4. Grown(stored, n, tick, stored', MaxBlock) /\ IsTicks(stored', Tick, MaxBlock)
    BY <1>2, <1>3, <2>1, <2>2, EnteredGrows
  <2>5. Extendable(bars, n, Tick, MaxBlock)
    BY <1>2, <1>3, UpToExtends
  <2>6. Mirror(bars'.data, stored')
    BY <1>2, <1>3, <2>1, <2>2, <2>3, <2>4, <2>5, InsertShows
  <2>7. PricesStored(stored', closes', Pair.dex)
    BY <1>2, <2>1, <2>2, PricesEntered
  <2>8. QED
    BY <1>4, <2>4, <2>6, <2>7 DEF MarketInv
<1>8. QED
  BY <1>6, <1>7

LEMMA MarketNext ==
  ASSUME 3 <= Retention, Period < Retention, PipelineInv, MarketInv, [Next]_vars
  PROVE  MarketInv'
<1>1. ASSUME UNCHANGED <<market, bars, stored, closes>> PROVE MarketInv'
  <2>1. Pair' = Pair
    BY <1>1 DEF Pair
  <2>2. QED
    BY <1>1, <2>1 DEF MarketInv
<1>2. CASE UNCHANGED vars
  BY <1>1, <1>2 DEF vars, chainVars
<1>3. ASSUME NEW r \in 1..Rungs, Swap(r) PROVE MarketInv'
  BY <1>1, <1>3 DEF Swap
<1>4. CASE Provide
  BY <1>1, <1>4 DEF Provide
<1>5. ASSUME NEW a \in {Fork, Alien}, Elsewhere(a) PROVE MarketInv'
  BY <1>1, <1>5 DEF Elsewhere
<1>6. CASE EndBlock
  BY <1>6, MarketEndBlock
<1>7. CASE Stopped
  BY <1>2, <1>7 DEF Stopped
<1>8. QED
  BY <1>2, <1>3, <1>4, <1>5, <1>6, <1>7 DEF Next

(* The bands have all bars of their period if there was a tick in each. *)
LEMMA BandsFacts ==
  ASSUME NEW st, NEW k \in Int
  PROVE  Cardinality(ClosesTo(st, k)) = Period <=> \A j \in k - Period + 1..k : In(DOMAIN st, j) # {}
<1> DEFINE I == k - Period + 1..k
           S == {j \in I : In(DOMAIN st, j) # {}}
           C == ClosesTo(st, k)
           f == [j \in S |-> <<j, LastTick(st, j)>>]
<1>1. Period \in Nat /\ Period >= 1
  BY PeriodAssumption, RetentionAssumption
<1>2. IsFiniteSet(I) /\ Cardinality(I) = Period
  <2>1. k - Period + 1 \in Int /\ ~ (k - Period + 1 > k) /\ k - (k - Period + 1) + 1 = Period
    BY <1>1
  <2>2. QED
    BY <2>1, FS_Interval
<1>3. C = {<<j, LastTick(st, j)>> : j \in S}
  BY DEF ClosesTo
<1>4. S \in SUBSET I
  OBVIOUS
<1> HIDE DEF I
<1>5. IsFiniteSet(S) /\ (Cardinality(S) = Period => I = S)
  <2> HIDE DEF S
  <2>1. QED
    BY <1>2, <1>4, FS_Subset
<1>6. f \in Bijection(S, C)
  <2>1. f \in [S -> C] /\ \A j \in S : f[j] = <<j, LastTick(st, j)>>
    <3> HIDE DEF S, C
    <3>1. QED
      BY <1>3
  <2> HIDE DEF f, S, C
  <2>2. ASSUME NEW i \in S, NEW j \in S, f[i] = f[j] PROVE i = j
    BY <2>1, <2>2
  <2>3. \A c \in C : \E j \in S : f[j] = c
    BY <1>3, <2>1
  <2>4. f \in Injection(S, C)
    BY <2>1, <2>2 DEF Injection, IsInjective
  <2>5. f \in Surjection(S, C)
    BY <2>1, <2>3 DEF Surjection
  <2>6. QED
    BY <2>4, <2>5 DEF Bijection
<1>7. Cardinality(C) = Cardinality(S)
  <2>1. ExistsBijection(S, C)
    BY <1>6 DEF ExistsBijection
  <2> HIDE DEF S, C
  <2>2. QED
    BY <1>5, <2>1, FS_Bijection
<1>8. S = I <=> \A j \in I : In(DOMAIN st, j) # {}
  OBVIOUS
<1> HIDE DEF S, C
<1>9. Cardinality(C) = Period <=> S = I
  BY <1>2, <1>5, <1>7
<1>10. QED
  BY <1>8, <1>9 DEF I, C

(* What the history says of bar k is what the stored ticks say. *)
BarSays(k) ==
  /\ LastTick(stored, k).close = MarketClose(k) /\ MarketClose(k) \in Int
  /\ Pair.dex = "v2" => /\ stored[Min(In(DOMAIN stored, k))].open = MarketOpen(k)
                        /\ MarketOpen(k) \in Int

LEMMA MarketSays ==
  ASSUME PipelineInv, MarketInv
  PROVE  /\ \A k : Traded(k) = In(DOMAIN stored, k)
         /\ \A k : Traded(k) # {} => BarSays(k)
<1>1. /\ DOMAIN closes = DOMAIN stored /\ DOMAIN stored \subseteq 1..MaxBlock /\ MaxBlock \in Nat
      /\ PricesStored(stored, closes, Pair.dex)
  BY BoundsAssumption DEF PipelineInv, ProgramInv, MarketInv, IsTicks
<1>2. \A k : Traded(k) = In(DOMAIN stored, k)
  BY <1>1 DEF Traded, In
<1>3. ASSUME NEW k, Traded(k) # {} PROVE BarSays(k)
  <2> DEFINE last == Max(Traded(k))
             first == Min(Traded(k))
  <2>1. last \in DOMAIN stored /\ first \in DOMAIN stored
    BY <1>1, <1>2, <1>3, InFacts
  <2>2. PriceStored(stored[last], closes[last], Pair.dex) /\ PriceStored(stored[first], closes[first], Pair.dex)
    BY <1>1, <2>1 DEF PricesStored
  <2>3. last = Max(In(DOMAIN stored, k)) /\ first = Min(In(DOMAIN stored, k))
    BY <1>2
  <2>4. MarketClose(k) = closes[last].last /\ MarketOpen(k) = closes[first].first
    BY DEF MarketClose, MarketOpen
  <2> HIDE DEF last, first
  <2>5. QED
    BY <2>2, <2>3, <2>4 DEF BarSays, PriceStored, LastTick
<1>4. QED
  BY <1>2, <1>3

(* The average over a bar's closes is the one over the pool's. *)
AverageIs(a, k) ==
  /\ EmaStart(k) = RunStart(DOMAIN stored, k) /\ EmaStart(k) \in 1..k /\ Len(a) = k - EmaStart(k) + 1
  /\ EmaOf(a) = MarketEma(EmaStart(k), k) /\ EmaOf(a) \in Int

LEMMA AverageSays ==
  ASSUME PipelineInv, MarketInv, NEW k \in Nat, Traded(k) # {}
  PROVE  AverageIs(Averaged(stored, k), k)
<1> DEFINE a == Averaged(stored, k)
           f == RunStart(DOMAIN stored, k)
           n == k - f + 1
           cs == [i \in 1..n |-> MarketClose(f + i - 1)]
<1>1. /\ DOMAIN closes = DOMAIN stored /\ DOMAIN stored \subseteq 1..MaxBlock /\ MaxBlock \in Nat
      /\ IsTicks(stored, Tick, MaxBlock)
  BY BoundsAssumption DEF PipelineInv, ProgramInv, MarketInv, IsTicks
<1>2. In(DOMAIN stored, k) # {} /\ \A j : In(DOMAIN stored, j) # {} => BarSays(j)
  BY MarketSays
<1>3. EmaStart(k) = f
  <2>1. EmaStart(k) = RunStart(DOMAIN closes, k)
    BY DEF EmaStart, RunStart, Traded, In
  <2>2. QED
    BY <1>1, <2>1
<1>4. f \in 1..k /\ \A i \in f..k : In(DOMAIN stored, i) # {}
  BY <1>1, <1>2, RunFacts DEF Starts
<1>5. Len(a) = n /\ \A i \in 1..n : a[i] = LastTick(stored, f + i - 1)
  <2>1. AverageFrom(a, f, stored, k, Tick)
    BY <1>1, <1>2, AveragedTyped
  <2> HIDE DEF a, f
  <2>2. QED
    BY <2>1 DEF AverageFrom
<1> HIDE DEF f, a
<1>6. n \in Nat /\ n >= 1 /\ \A i \in 1..n : f + i - 1 \in f..k
  BY <1>4
<1>7. \A i \in 1..n : a[i].close = MarketClose(f + i - 1) /\ MarketClose(f + i - 1) \in Int
  BY <1>2, <1>4, <1>5, <1>6 DEF BarSays
<1>8. EmaOf(a) = Smoothed(cs)
  <2>1. EmaOf(a) = Smoothed([i \in 1..Len(a) |-> a[i].close])
    BY DEF EmaOf
  <2> HIDE DEF n
  <2>2. [i \in 1..Len(a) |-> a[i].close] = cs
    BY <1>5, <1>7
  <2>3. QED
    BY <2>1, <2>2
<1>9. MarketEma(f, k) = Smoothed(cs)
  BY DEF MarketEma
<1>10. Smoothed(cs) \in Int
  <2> HIDE DEF n
  <2>1. cs \in [1..n -> Int]
    BY <1>7
  <2>2. cs \in Seq(Int) /\ Len(cs) = n
    <3> HIDE DEF cs
    <3>1. QED
      BY <1>6, <2>1
  <2>3. cs # <<>>
    <3> HIDE DEF cs
    <3>1. QED
      BY <1>6, <2>2
  <2> HIDE DEF cs
  <2>4. QED
    BY <2>2, <2>3, SmoothedTyped
<1>11. QED
  BY <1>3, <1>4, <1>5, <1>8, <1>9, <1>10 DEF AverageIs, a, f

(* The bar of a block that traded shows what the pool did. *)
BarIs(k, bar) ==
  /\ k \in DOMAIN bars.data /\ k \in Nat /\ Traded(k) # {} /\ ShowsAt(bar, stored, k)
  /\ CloseOf(bar) = MarketClose(k) /\ BarData(bar).close = MarketClose(k)
  /\ Pair.dex = "v2" => BarData(bar).open = MarketOpen(k)

LEMMA BlocksBar ==
  ASSUME PipelineInv, MarketInv, block \in DOMAIN closes
  PROVE  BarIs(BarOf(block), bars.data[BarOf(block)])
<1> DEFINE k == BarOf(block)
           d == bars.data
           bar == d[k]
<1>1. /\ DOMAIN closes = DOMAIN stored /\ DOMAIN stored \subseteq 1..block /\ block \in 0..MaxBlock /\ MaxBlock \in Nat
      /\ IsTicks(stored, Tick, MaxBlock) /\ DOMAIN stored \subseteq 1..MaxBlock /\ Mirror(d, stored)
      /\ BarsUpTo(bars, block)
  BY BoundsAssumption DEF PipelineInv, ChainInv, ProgramInv, MarketInv, IsTicks
<1>2. block \in DOMAIN stored /\ block \in Nat /\ (\A m \in DOMAIN stored : m <= block) /\ k \in Nat
  BY <1>1, BarOfFacts
<1>3. Max(DOMAIN stored) = block
  <2>1. DOMAIN stored \in SUBSET Nat
    <3>1. \A m \in 1..block : m \in Nat
      OBVIOUS
    <3>2. QED
      BY <1>1, <3>1
  <2>2. QED
    BY <1>2, <2>1, MaxIs
<1>4. IsData(d, Tick, MaxBlock)
  BY <1>1 DEF BarsUpTo, IsBars
<1>5. k \in DOMAIN d
  <2>1. MirrorEnds(d, stored, block, MaxBlock)
    BY <1>1, <1>3, <1>4, MirrorFacts
  <2>2. DOMAIN stored # {}
    BY <1>2
  <2>3. QED
    BY <2>1, <2>2 DEF MirrorEnds
<1>6. ShowsAt(bar, stored, k) /\ In(DOMAIN stored, k) # {}
  BY <1>1, <1>5 DEF Mirror, ShowsAt
<1>7. Traded(k) # {} /\ BarSays(k)
  BY <1>6, MarketSays
<1>8. Whole(d)
  <2>1. bars # NewBars
    <3>1. NewBars.data = <<>> /\ DOMAIN <<>> = {}
      BY DEF NewBars
    <3>2. QED
      BY <1>5, <3>1
  <2>2. QED
    BY <1>1, <2>1 DEF BarsUpTo, BarsInv
<1>9. IsTicks(bar.ticks, Tick, MaxBlock) /\ DOMAIN bar.ticks = StartOf(bar)..EndOf(bar)
  <2>1. IsBarOf(bar, Tick, MaxBlock)
    BY <1>4, <1>5 DEF IsData
  <2>2. QED
    BY <1>1, <1>4, <1>5, <1>8, <2>1, BarInterval DEF IsBarOf
<1> HIDE DEF k, bar
<1>10. /\ DOMAIN bar.ticks # {} /\ Close(bar) = LastTick(stored, k)
       /\ bar.ticks[StartOf(bar)] = stored[Min(In(DOMAIN stored, k))]
  <2>1. bar.ticks = ShownTo(stored, k, block)
    BY <1>3, <1>6 DEF ShowsAt, Shown
  <2>2. QED
    BY <1>1, <1>2, <1>6, <2>1, ShownEnds
<1>11. BarData(bar).open = bar.ticks[StartOf(bar)].open /\ BarData(bar).close = CloseOf(bar)
  BY <1>1, <1>9, <1>10, BarDataFacts
<1>12. CloseOf(bar) = MarketClose(k)
  BY <1>7, <1>10 DEF CloseOf, BarSays
<1>13. Pair.dex = "v2" => BarData(bar).open = MarketOpen(k)
  BY <1>7, <1>10, <1>11 DEF BarSays
<1>14. QED
  BY <1>2, <1>5, <1>6, <1>7, <1>11, <1>12, <1>13 DEF BarIs, k, bar

(* Its indicators are computed from the pool's prices. *)
IndicatorsAre(k, bar) ==
  LET ema  == MarketEma(EmaStart(k), k)
      prev == MarketEma(EmaStart(k), k - 1) IN
  /\ bar.ind # NoIndicators /\ Ema(bar) = ema /\ ema \in Int
  /\ EmaSlope(bar) >= 0 <=> (EmaStart(k) < k => ema >= prev)
  /\ HasBands(bar) <=> \A j \in k - Period + 1..k : Traded(j) # {}
  /\ HasBands(bar) => BandMean(bar) = MarketMean(k)

LEMMA BarsIndicators ==
  ASSUME PipelineInv, MarketInv, NEW k \in Nat, Traded(k) # {}, NEW bar, ShowsAt(bar, stored, k)
  PROVE  IndicatorsAre(k, bar)
<1> DEFINE a == Averaged(stored, k)
           f == EmaStart(k)
           ema == MarketEma(f, k)
           prev == MarketEma(f, k - 1)
           C == ClosesTo(stored, k)
<1>1. MaxBlock \in Nat /\ IsTicks(stored, Tick, MaxBlock) /\ DOMAIN stored \in SUBSET (1..MaxBlock)
  BY BoundsAssumption DEF MarketInv, IsTicks
<1>2. bar.ind.ema = a /\ bar.ind.closes = C /\ In(DOMAIN stored, k) # {}
  BY DEF ShowsAt
<1>3. /\ \A j : Traded(j) = In(DOMAIN stored, j)
      /\ \A j : Traded(j) # {} => BarSays(j)
  BY MarketSays
<1>4. f = RunStart(DOMAIN stored, k) /\ f \in 1..k /\ Len(a) = k - f + 1 /\ EmaOf(a) = ema /\ ema \in Int
  BY AverageSays DEF AverageIs
<1>5. Ema(bar) = ema
  BY <1>2, <1>4 DEF Ema
<1>6. bar.ind # NoIndicators
  <2>1. Len(a) # 0 /\ Len(<<>>) = 0
    BY <1>4
  <2>2. NoIndicators.ema = <<>>
    BY DEF NoIndicators
  <2>3. QED
    BY <1>2, <2>1, <2>2
<1>7. EmaSlope(bar) >= 0 <=> (f < k => ema >= prev)
  <2>1. CASE f = k
    <3>1. Len(bar.ind.ema) = 1
      BY <1>2, <1>4, <2>1
    <3>2. EmaSlope(bar) = 0 /\ ~ (f < k)
      BY <1>4, <2>1, <3>1 DEF EmaSlope
    <3>3. QED
      BY <3>2
  <2>2. CASE f # k
    <3>1. Len(bar.ind.ema) # 1 /\ f < k /\ k - 1 \in Nat
      BY <1>2, <1>4, <2>2
    <3>2. In(DOMAIN stored, k - 1) # {} /\ RunStart(DOMAIN stored, k - 1) = f
      BY <1>1, <1>2, <1>4, <2>2, RunStep
    <3> DEFINE p == Averaged(stored, k - 1)
    <3>3. EmaStart(k - 1) = f /\ EmaOf(p) = prev /\ prev \in Int
      <4>1. AverageIs(p, k - 1)
        BY <1>3, <3>1, <3>2, AverageSays
      <4> HIDE DEF p, f
      <4>2. EmaStart(k - 1) = f
        BY <3>2, <4>1 DEF AverageIs
      <4>3. EmaOf(p) = MarketEma(f, k - 1) /\ EmaOf(p) \in Int
        BY <4>1, <4>2 DEF AverageIs
      <4>4. QED
        BY <4>2, <4>3
    <3>4. Front(a) = p
      <4>1. a = Append(p, LastTick(stored, k))
        BY <1>1, <1>2, <3>2, AveragedStep DEF Continued
      <4>2. p \in Seq(Tick)
        <5>1. AverageFrom(p, RunStart(DOMAIN stored, k - 1), stored, k - 1, Tick)
          BY <1>1, <3>1, <3>2, AveragedTyped
        <5>2. QED
          BY <5>1 DEF AverageFrom
      <4>3. LastTick(stored, k) \in Tick
        <5>1. Max(In(DOMAIN stored, k)) \in DOMAIN stored
          BY <1>1, <1>2, InFacts
        <5>2. QED
          BY <1>1, <5>1 DEF LastTick, IsTicks
      <4> HIDE DEF p, a
      <4>4. QED
        BY <4>1, <4>2, <4>3, AppendEnds
    <3>5. EmaSlope(bar) = ema - prev
      BY <1>2, <1>5, <3>1, <3>3, <3>4 DEF EmaSlope
    <3> HIDE DEF ema, prev
    <3>6. QED
      BY <1>4, <3>1, <3>3, <3>5
  <2>3. QED
    BY <2>1, <2>2
<1>8. HasBands(bar) <=> \A j \in k - Period + 1..k : Traded(j) # {}
  <2>1. Cardinality(C) = Period <=> \A j \in k - Period + 1..k : In(DOMAIN stored, j) # {}
    <3>1. k \in Int
      OBVIOUS
    <3>2. QED
      BY <3>1, BandsFacts
  <2>2. QED
    BY <1>2, <1>3, <2>1 DEF HasBands
<1>9. ASSUME HasBands(bar) PROVE BandMean(bar) = MarketMean(k)
  <2> DEFINE I == k - Period + 1..k
             X == {<<c[1], c[2].close>> : c \in C}
             Y == {<<j, MarketClose(j)>> : j \in I}
  <2>1. \A j \in I : In(DOMAIN stored, j) # {} /\ BarSays(j)
    BY <1>3, <1>8, <1>9
  <2>2. C = {<<j, LastTick(stored, j)>> : j \in I}
    BY <2>1 DEF ClosesTo
  <2>3. BandMean(bar) = MeanOf(X) /\ MarketMean(k) = MeanOf(Y)
    BY <1>2 DEF BandMean, MarketMean
  <2> HIDE DEF C, I
  <2>4. \A j \in I : LastTick(stored, j).close = MarketClose(j)
    BY <2>1 DEF BarSays
  <2> DEFINE e(j) == <<j, LastTick(stored, j)>>
  <2>5. \A j \in I : e(j)[1] = j /\ e(j)[2].close = MarketClose(j)
    BY <2>4
  <2>6. C = {e(j) : j \in I}
    BY <2>2
  <2> HIDE DEF e
  <2>7. X = {<<e(j)[1], e(j)[2].close>> : j \in I}
    BY <2>6
  <2>8. X = Y
    <3> HIDE DEF X
    <3>1. QED
      BY <2>5, <2>7
  <2> HIDE DEF X, Y
  <2>9. QED
    BY <2>3, <2>8
<1>10. QED
  BY <1>4, <1>5, <1>6, <1>7, <1>8, <1>9 DEF IndicatorsAre

(* Once the block's tick is in, the strategy's rules say of the bars what    *)
(* they say of the pool's own prices.                                        *)
DecidesNow ==
  /\ WantsOpen \/ WantsClose => block \in DOMAIN closes
  /\ block \in DOMAIN closes =>
       /\ ShouldClose(bars.data, BarOf(block)) <=> WantsClose
       /\ Pair.dex = "v2" => (ShouldOpen(bars.data, BarOf(block)) <=> WantsOpen)

LEMMA DecisionsAgree ==
  ASSUME PipelineInv, MarketInv
  PROVE  DecidesNow
<1> DEFINE k == BarOf(block)
           bar == bars.data[k]
           ema == MarketEma(EmaStart(k), k)
           prev == MarketEma(EmaStart(k), k - 1)
<1>1. WantsOpen \/ WantsClose => block \in DOMAIN closes
  BY DEF WantsOpen, WantsClose
<1>2. ASSUME block \in DOMAIN closes
      PROVE  /\ ShouldClose(bars.data, k) <=> WantsClose
             /\ Pair.dex = "v2" => (ShouldOpen(bars.data, k) <=> WantsOpen)
  <2>1. BarIs(k, bar)
    BY <1>2, BlocksBar
  <2>2. k \in DOMAIN bars.data /\ CloseOf(bar) = MarketClose(k) /\ BarData(bar).close = MarketClose(k)
        /\ (Pair.dex = "v2" => BarData(bar).open = MarketOpen(k))
    BY <2>1 DEF BarIs
  <2>3. k \in Nat /\ Traded(k) # {} /\ ShowsAt(bar, stored, k)
    BY <2>1 DEF BarIs
  <2>4. IndicatorsAre(k, bar) /\ BarSays(k)
    BY <2>3, BarsIndicators, MarketSays
  <2>5. /\ bar.ind # NoIndicators /\ Ema(bar) = ema
        /\ EmaSlope(bar) >= 0 <=> (EmaStart(k) < k => ema >= prev)
        /\ HasBands(bar) <=> \A j \in k - Period + 1..k : Traded(j) # {}
        /\ HasBands(bar) => BandMean(bar) = MarketMean(k)
    BY <2>4 DEF IndicatorsAre
  <2>6. ShouldClose(bars.data, k) <=> MarketClose(k) <= ema
    BY <2>2, <2>5 DEF ShouldClose
  <2>7. WantsClose <=> MarketClose(k) <= ema
    BY <1>2 DEF WantsClose
  <2>8. ASSUME Pair.dex = "v2" PROVE ShouldOpen(bars.data, k) <=> WantsOpen
    <3>1. ~ IsNegative(BarData(bar)) <=> MarketClose(k) >= MarketOpen(k)
      <4>1. IsNegative(BarData(bar)) <=> MarketClose(k) < MarketOpen(k)
        BY <2>2, <2>8 DEF IsNegative
      <4>2. MarketClose(k) \in Int /\ MarketOpen(k) \in Int
        BY <2>4, <2>8 DEF BarSays
      <4> HIDE DEF k, bar
      <4>3. QED
        BY <4>1, <4>2
    <3>2. ShouldOpen(bars.data, k) <=> /\ ~ IsNegative(BarData(bar)) /\ HasBands(bar)
                                       /\ MarketClose(k) >= ema /\ BandMean(bar) >= ema
                                       /\ MarketClose(k) >= BandMean(bar) /\ EmaSlope(bar) >= 0
      BY <2>2, <2>5 DEF ShouldOpen
    <3>3. WantsOpen <=> /\ MarketClose(k) >= MarketOpen(k)
                        /\ \A j \in k - Period + 1 .. k : Traded(j) # {}
                        /\ MarketClose(k) >= ema /\ MarketMean(k) >= ema /\ MarketClose(k) >= MarketMean(k)
                        /\ EmaStart(k) < k => ema >= prev
      BY <1>2 DEF WantsOpen
    <3> HIDE DEF k, bar, ema, prev
    <3>4. QED
      BY <2>5, <3>1, <3>2, <3>3
  <2>9. QED
    BY <2>6, <2>7, <2>8
<1>3. QED
  BY <1>1, <1>2 DEF DecidesNow

LEMMA EndBlockDecides ==
  ASSUME PipelineInv, EndBlock, DecidesNow'
  PROVE  /\ decision' = "close" <=> position # <<>> /\ WantsClose'
         /\ Pair.dex = "v2" => (decision' = "open" <=> position = <<>> /\ WantsOpen')
<1> DEFINE n == block + 1
           d == BarsWith(n).data
<1>1. /\ block' = n /\ bars' = BarsWith(n) /\ decision' = Decision(n) /\ market' = market
      /\ closes' = (IF swaps = <<>> THEN closes
                    ELSE Entered(closes, n, [first |-> PoolPrice(Head(swaps).from), last |-> PoolPrice(Last(swaps).to)]))
  BY DEF EndBlock
<1>2. block \in 0..MaxBlock /\ DOMAIN closes \subseteq 1..block
  BY DEF PipelineInv, ChainInv, ProgramInv
<1>3. Pair' = Pair
  BY <1>1 DEF Pair
<1>4. /\ WantsOpen' \/ WantsClose' => n \in DOMAIN closes'
      /\ n \in DOMAIN closes' => /\ ShouldClose(d, BarOf(n)) <=> WantsClose'
                                 /\ Pair.dex = "v2" => (ShouldOpen(d, BarOf(n)) <=> WantsOpen')
  BY <1>1, <1>3 DEF DecidesNow
<1>5. n \in DOMAIN closes' <=> market \in DOMAIN BlockTicks
  <2>1. n \notin DOMAIN closes
    BY <1>2
  <2>2. \A f, x : n \in DOMAIN Entered(f, n, x)
    BY DEF Entered
  <2>3. market \in DOMAIN BlockTicks <=> swaps # <<>>
    BY TickInserts
  <2> HIDE DEF n
  <2>4. QED
    BY <1>1, <2>1, <2>2, <2>3
<1>6. /\ decision' = "close" <=> market \in DOMAIN BlockTicks /\ position # <<>> /\ ShouldClose(d, BarOf(n))
      /\ decision' = "open" <=> market \in DOMAIN BlockTicks /\ position = <<>> /\ ShouldOpen(d, BarOf(n))
  <2> HIDE DEF n
  <2>1. decision' = IF market \notin DOMAIN BlockTicks THEN "none"
                    ELSE IF position = <<>> /\ ShouldOpen(d, BarOf(n)) THEN "open"
                    ELSE IF position # <<>> /\ ShouldClose(d, BarOf(n)) THEN "close" ELSE "none"
    BY <1>1 DEF Decision
  <2> HIDE DEF d
  <2>2. QED
    BY <2>1
<1> HIDE DEF n, d
<1>7. QED
  BY <1>4, <1>5, <1>6

(* The strategy opens and closes exactly when its rules say so of the pool's *)
(* own prices, whatever the gaps and the padding, in every block of every    *)
(* backtest, if more bars are retained than the bands look at and at least   *)
(* three (the program retains 60, and its bands look at 20): the bar that is *)
(* padded is not the last one any more when retention is applied, and its    *)
(* average and bands are computed again from the bars before it.             *)
THEOREM DecidesOnTheMarket ==
  ASSUME 3 <= Retention, Period < Retention
  PROVE  Spec => DecidesOnMarket
<1>1. Init => MarketInv
  BY MarketInit
<1>2. PipelineInv /\ MarketInv /\ [Next]_vars => MarketInv'
  BY MarketNext
<1>3. PipelineInv /\ MarketInv => DecidesNow
  BY DecisionsAgree
<1>4. ASSUME PipelineInv, [Next]_vars, DecidesNow', block' # block
      PROVE  /\ decision' = "close" <=> position # <<>> /\ WantsClose'
             /\ Pair.dex = "v2" => (decision' = "open" <=> position = <<>> /\ WantsOpen')
  <2>1. EndBlock
    BY <1>4 DEF Next, Swap, Provide, Elsewhere, Stopped, vars
  <2>2. QED
    BY <1>4, <2>1, EndBlockDecides
<1>5. QED
  BY <1>1, <1>2, <1>3, <1>4, PipelineInvariant, PTL DEF Spec, DecidesOnMarket

-----------------------------------------------------------------------------
(* What the API's chart shows.  Its bars retain everything, and what is      *)
(* proved of bars is proved of these, too.                                   *)

All == INSTANCE TimePriceBarsProofs WITH Retention <- Retention + MaxBlock + 1

LEMMA AllAssumptions ==
  /\ PerBar \in Nat \ {0} /\ Retention + MaxBlock + 1 \in Nat \ {0, 1}
  /\ Period \in 1..Retention + MaxBlock + 1
  /\ 3 <= Retention + MaxBlock + 1 /\ Period < Retention + MaxBlock + 1
BY PerBarAssumption, RetentionAssumption, PeriodAssumption, BoundsAssumption

(* Nothing but what is retained depends on the retention. *)
LEMMA AllBars ==
  /\ \A n : All!BarOf(n) = BarOf(n)
  /\ \A S : All!Max(S) = Max(S) /\ All!Min(S) = Min(S)
  /\ All!NoBar = NoBar /\ All!NewBars = NewBars
BY DEF All!BarOf, BarOf, All!Max, Max, All!Min, Min, All!NoBar, NoBar, All!NewBars, NewBars

LEMMA AllTicks ==
  /\ \A t, T, B : All!IsTicks(t, T, B) <=> IsTicks(t, T, B)
  /\ \A st, n, tick, st2, B : All!Grown(st, n, tick, st2, B) <=> Grown(st, n, tick, st2, B)
BY DEF All!IsTicks, IsTicks, All!Grown, Grown

LEMMA AllShown ==
  /\ \A D, k : All!In(D, k) = In(D, k)
  /\ \A st, k : All!Shown(st, k) = Shown(st, k)
BY DEF All!In, In, All!BarOf, BarOf, All!Shown, Shown, All!ShownTo, ShownTo, All!LastTo, LastTo, All!Max, Max, All!Min, Min

LEMMA AllIndicators ==
  /\ \A st, k : All!ClosesTo(st, k) = ClosesTo(st, k)
  /\ \A st, k : All!Averaged(st, k) = Averaged(st, k)
BY DEF All!ClosesTo, ClosesTo, All!Averaged, Averaged, All!LastTick, LastTick, All!RunStart, RunStart, All!In, In, All!BarOf, BarOf, All!Max, Max

LEMMA AllInserts ==
  /\ \A b, n, tick, fin : Chart!InsertData(b, n, tick, fin) = All!InsertData(b, n, tick, fin)
  /\ \A b, n, tick, fin : Chart!CanInsert(b, n, tick, fin) <=> All!CanInsert(b, n, tick, fin)
<1>1. /\ \A n : Chart!BarOf(n) = All!BarOf(n)
      /\ \A f, S : Chart!Restrict(f, S) = All!Restrict(f, S)
      /\ \A S : Chart!Max(S) = All!Max(S)
      /\ Chart!NoIndicators = All!NoIndicators
  BY DEF Chart!BarOf, All!BarOf, Chart!Restrict, All!Restrict, Chart!Max, All!Max, Chart!NoIndicators, All!NoIndicators
<1>2. /\ \A bar : Chart!EndOf(bar) = All!EndOf(bar)
      /\ \A bar : Chart!Close(bar) = All!Close(bar)
      /\ \A d, k : Chart!EntryAt(d, k) = All!EntryAt(d, k)
      /\ \A f, g : Chart!Over(f, g) = All!Over(f, g)
  BY <1>1 DEF Chart!EndOf, All!EndOf, Chart!Close, All!Close, Chart!EntryAt, All!EntryAt, Chart!NewBar, All!NewBar,
              Chart!Over, All!Over
<1>3. \A d, k, ticks : Chart!WithTicks(d, k, ticks) = All!WithTicks(d, k, ticks)
  BY <1>1, <1>2 DEF Chart!WithTicks, All!WithTicks
<1>4. \A d, k : Chart!UpdateIndicators(d, k) = All!UpdateIndicators(d, k)
  <2>1. \A d, k : Chart!Compute(d, k) = All!Compute(d, k)
    BY DEF Chart!Compute, All!Compute, Chart!WindowOf, All!WindowOf, Chart!Close, All!Close, Chart!EndOf, All!EndOf,
           Chart!Max, All!Max, Chart!NoIndicators, All!NoIndicators
  <2>2. QED
    BY <2>1 DEF Chart!UpdateIndicators, All!UpdateIndicators
<1>5. /\ \A d : Chart!PadFrom(d) = All!PadFrom(d) /\ Chart!PadBar(d) = All!PadBar(d)
      /\ \A d, n : Chart!Missing(d, n) = All!Missing(d, n)
      /\ \A d, n : Chart!Padding(d, n) <=> All!Padding(d, n)
  BY <1>1, <1>2 DEF Chart!PadFrom, All!PadFrom, Chart!PadBar, All!PadBar, Chart!Missing, All!Missing,
                    Chart!Padding, All!Padding
<1>6. /\ \A d, n : Chart!Pad(d, n) = All!Pad(d, n)
      /\ \A d, n : Chart!CanAdd(d, n) <=> All!CanAdd(d, n)
      /\ \A d : Chart!Retained(d) = All!Retained(d)
      /\ \A d, padded, own : Chart!Refresh(d, padded, own) = All!Refresh(d, padded, own)
  <2>1. \A d, n : Chart!Pad(d, n) = All!Pad(d, n)
    BY <1>1, <1>2, <1>3, <1>5 DEF Chart!Pad, All!Pad
  <2>2. \A d, n : Chart!CanAdd(d, n) <=> All!CanAdd(d, n)
    BY <1>1, <1>2 DEF Chart!CanAdd, All!CanAdd
  <2>3. \A d : Chart!Retained(d) = All!Retained(d)
    <3>1. \A S : Chart!Cardinality(S) = All!Cardinality(S)
      BY DEF Chart!Cardinality, All!Cardinality
    <3>2. QED
      BY <1>1, <3>1 DEF Chart!Retained, All!Retained
  <2>4. \A d, padded, own : Chart!Refresh(d, padded, own) = All!Refresh(d, padded, own)
    BY <1>4 DEF Chart!Refresh, All!Refresh
  <2>5. QED
    BY <2>1, <2>2, <2>3, <2>4
<1>7. \A b, n, tick : Chart!Added(b, n, tick) = All!Added(b, n, tick)
  BY <1>1, <1>3, <1>5, <1>6 DEF Chart!Added, All!Added
<1>8. /\ \A b, fin : Chart!Finalized(b, fin) = All!Finalized(b, fin)
      /\ \A b, fin : Chart!CanFinalize(b, fin) <=> All!CanFinalize(b, fin)
  BY DEF Chart!Finalized, All!Finalized, Chart!CanFinalize, All!CanFinalize, Chart!ToFinalize, All!ToFinalize
<1>9. \A b, n, tick, fin : Chart!InsertData(b, n, tick, fin) = All!InsertData(b, n, tick, fin)
  BY <1>7, <1>8 DEF Chart!InsertData, All!InsertData
<1>10. \A b, n, tick, fin : Chart!CanInsert(b, n, tick, fin) <=> All!CanInsert(b, n, tick, fin)
  BY <1>6, <1>7, <1>8 DEF Chart!CanInsert, All!CanInsert
<1>11. QED
  BY <1>9, <1>10

(* The stored ticks of the blocks of a range *)
BlocksOf(st, from, n) == [m \in {x \in DOMAIN st : from <= x /\ x <= n} |-> st[m]]

ChartNext(c, n) == IF n \in DOMAIN stored THEN ChartWith(c, n) ELSE c

IsChart(from, to, f) == f = [n \in from - 1..to |-> IF n < from THEN NewBars ELSE ChartNext(f[n - 1], n)]

LEMMA ChartLoop ==
  ASSUME NEW from \in Nat, NEW to \in Nat, 1 <= from, from - 1 <= to
  PROVE  \E f : IsChart(from, to, f) /\ ChartBars(from, to) = f[to].data
<1> DEFINE n == to - from + 1
           T == {i \in 0..n : \E f : IsChart(from, from - 1 + i, f)}
           Is(f) == f = [x \in from - 1..to |->
                           IF x < from THEN NewBars
                           ELSE IF x \in DOMAIN stored THEN ChartWith(f[x - 1], x) ELSE f[x - 1]]
           loop == CHOOSE f : Is(f)
<1>1. n \in Nat /\ from - 1 + 0 = from - 1 /\ from - 1 + n = to /\ n \in 0..n
  OBVIOUS
<1>2. 0 \in T
  <2> DEFINE f == [x \in from - 1..from - 1 |-> NewBars]
  <2>1. \A x \in from - 1..from - 1 : x < from
    OBVIOUS
  <2>2. IsChart(from, from - 1, f)
    BY <2>1 DEF IsChart
  <2> HIDE DEF f, n
  <2>3. QED
    BY <1>1, <2>2
<1>3. ASSUME NEW i \in 1..n, i - 1 \in T PROVE i \in T
  <2> DEFINE m == from - 1 + i
  <2>1. m - 1 = from - 1 + (i - 1) /\ m \in Nat /\ from <= m /\ m - 1 \in Nat
    BY <1>1
  <2>2. PICK f : IsChart(from, m - 1, f)
    BY <1>3, <2>1
  <2> DEFINE g == [x \in from - 1..m |-> IF x = m THEN ChartNext(f[m - 1], m) ELSE f[x]]
  <2> HIDE DEF m
  <2>3. \A x \in from - 1..m - 1 : f[x] = IF x < from THEN NewBars ELSE ChartNext(f[x - 1], x)
    BY <2>2 DEF IsChart
  <2>4. /\ \A x \in from - 1..m : x # m => x \in from - 1..m - 1
        /\ \A x \in from - 1..m : ~ (x < from) => x - 1 \in from - 1..m /\ x - 1 # m
        /\ ~ (m < from)
    BY <2>1
  <2>5. \A x \in from - 1..m : g[x] = IF x < from THEN NewBars ELSE ChartNext(g[x - 1], x)
    <3>1. ASSUME NEW x \in from - 1..m PROVE g[x] = IF x < from THEN NewBars ELSE ChartNext(g[x - 1], x)
      <4>1. CASE x = m
        <5>1. g[x] = ChartNext(f[m - 1], m)
          BY <4>1
        <5>2. g[m - 1] = f[m - 1]
          BY <2>4, <4>1
        <5> HIDE DEF g
        <5>3. QED
          BY <2>4, <4>1, <5>1, <5>2
      <4>2. CASE x # m
        <5>1. g[x] = f[x]
          BY <4>2
        <5>2. ~ (x < from) => g[x - 1] = f[x - 1]
          BY <2>4
        <5> HIDE DEF g
        <5>3. QED
          BY <2>3, <2>4, <4>2, <5>1, <5>2
      <4>3. QED
        BY <4>1, <4>2
    <3>2. QED
      BY <3>1
  <2>6. IsChart(from, m, g)
    <3>1. g = [x \in from - 1..m |-> g[x]]
      OBVIOUS
    <3> HIDE DEF g
    <3>2. QED
      BY <2>5, <3>1 DEF IsChart
  <2> HIDE DEF n
  <2>7. QED
    BY <2>6 DEF m
<1>4. \E f : IsChart(from, to, f)
  <2> HIDE DEF T, n
  <2>1. 0..n \subseteq T
    BY <1>1, <1>2, <1>3, InductionUpTo
  <2>2. n \in T
    BY <1>1, <2>1
  <2>3. QED
    BY <1>1, <2>2 DEF T
<1>5. \A f : IsChart(from, to, f) <=> Is(f)
  BY DEF IsChart, ChartNext
<1>6. Is(loop)
  <2> HIDE DEF Is
  <2>1. \E f : Is(f)
    BY <1>4, <1>5
  <2>2. QED
    BY <2>1
<1>7. ChartBars(from, to) = loop[to].data
  BY DEF ChartBars
<1>8. QED
  <2> HIDE DEF loop, Is
  <2>1. QED
    BY <1>5, <1>6, <1>7

(* After block n the chart's bars mirror the ticks up to it. *)
ChartHas(c, from, n) ==
  /\ All!Mirror(c.data, BlocksOf(stored, from, n))
  /\ c = NewBars \/ (All!IsBars(c, Tick, MaxBlock) /\ All!BarsInv(c) /\ All!PadFrom(c.data) <= n)

IsBlocks(c, st, from, n) ==
  /\ IsTicks(c, Tick, MaxBlock)
  /\ DOMAIN c = {x \in DOMAIN st : from <= x /\ x <= n}
  /\ \A m \in DOMAIN c : c[m] = st[m]

LEMMA BlocksFacts ==
  ASSUME NEW st, IsTicks(st, Tick, MaxBlock), NEW from \in Nat, NEW n \in Nat
  PROVE  IsBlocks(BlocksOf(st, from, n), st, from, n)
<1> DEFINE c == BlocksOf(st, from, n)
           E == {x \in DOMAIN st : from <= x /\ x <= n}
<1>1. DOMAIN st \subseteq 1..MaxBlock /\ \A m \in DOMAIN st : st[m] \in Tick
  BY DEF IsTicks
<1>2. c = [m \in E |-> st[m]]
  BY DEF BlocksOf
<1>3. E \subseteq DOMAIN st
  OBVIOUS
<1> HIDE DEF c
<1>4. DOMAIN c = E /\ \A m \in DOMAIN c : c[m] = st[m]
  BY <1>2
<1>5. c = [m \in DOMAIN c |-> c[m]]
  BY <1>2
<1>6. DOMAIN c \subseteq 1..MaxBlock /\ \A m \in DOMAIN c : c[m] \in Tick
  BY <1>1, <1>3, <1>4
<1>7. c \in [DOMAIN c -> Tick]
  BY <1>5, <1>6
<1>8. IsTicks(c, Tick, MaxBlock)
  BY <1>6, <1>7 DEF IsTicks
<1>9. QED
  BY <1>4, <1>8 DEF IsBlocks, c

LEMMA ChartStart ==
  ASSUME PipelineInv, MarketInv, NEW from \in Nat, 1 <= from
  PROVE  ChartHas(NewBars, from, from - 1)
<1>1. from - 1 \in Nat /\ IsTicks(stored, Tick, MaxBlock)
  BY DEF MarketInv
<1> DEFINE c == BlocksOf(stored, from, from - 1)
<1>2. DOMAIN c = {}
  <2>1. DOMAIN c = {x \in DOMAIN stored : from <= x /\ x <= from - 1}
    <3>1. IsBlocks(c, stored, from, from - 1)
      BY <1>1, BlocksFacts
    <3> HIDE DEF c
    <3>2. QED
      BY <3>1 DEF IsBlocks
  <2>2. \A x \in DOMAIN stored : x \in Int
    BY <1>1 DEF IsTicks
  <2> HIDE DEF c
  <2>3. QED
    BY <2>1, <2>2
<1>3. NewBars.data = <<>> /\ DOMAIN <<>> = {}
  BY DEF NewBars
<1> HIDE DEF c
<1>4. \A j : All!In({}, j) = {}
  BY DEF All!In
<1>5. All!Mirror(<<>>, c)
  BY <1>2, <1>3, <1>4 DEF All!Mirror, All!Recent
<1>6. QED
  BY <1>3, <1>5 DEF ChartHas, c

LEMMA ChartStep ==
  ASSUME PipelineInv, MarketInv, NEW from \in Nat, NEW n \in 1..MaxBlock, from <= n, NEW c, ChartHas(c, from, n - 1)
  PROVE  ChartHas(ChartNext(c, n), from, n)
<1> DEFINE D == DOMAIN stored
           st == BlocksOf(stored, from, n - 1)
           st2 == BlocksOf(stored, from, n)
           tick == stored[n]
           fin == BarOf(n) - 1
           r == Chart!InsertData(c, n, tick, fin)
<1>1. /\ MaxBlock \in Nat /\ n \in Nat /\ n - 1 \in Nat /\ n <= MaxBlock /\ IsTicks(stored, Tick, MaxBlock)
      /\ D \subseteq 1..MaxBlock
  BY BoundsAssumption DEF MarketInv, IsTicks
<1>2. /\ IsTicks(st, Tick, MaxBlock) /\ DOMAIN st = {x \in D : from <= x /\ x <= n - 1}
      /\ \A m \in DOMAIN st : st[m] = stored[m]
  <2>1. IsBlocks(st, stored, from, n - 1)
    BY <1>1, BlocksFacts
  <2> HIDE DEF st
  <2>2. QED
    BY <2>1 DEF IsBlocks
<1>3. /\ IsTicks(st2, Tick, MaxBlock) /\ DOMAIN st2 = {x \in D : from <= x /\ x <= n}
      /\ \A m \in DOMAIN st2 : st2[m] = stored[m]
  <2>1. IsBlocks(st2, stored, from, n)
    BY <1>1, BlocksFacts
  <2> HIDE DEF st2
  <2>2. QED
    BY <2>1 DEF IsBlocks
<1>4. \A x \in D : x \in Int /\ (x <= n <=> x <= n - 1 \/ x = n)
  BY <1>1
<1>5. c # NewBars => All!IsBars(c, Tick, MaxBlock) /\ All!BarsInv(c) /\ All!PadFrom(c.data) < n
                     /\ All!PadFrom(c.data) <= n
  <2>1. ASSUME c # NewBars PROVE All!IsBars(c, Tick, MaxBlock) /\ All!BarsInv(c) /\ All!PadFrom(c.data) <= n - 1
    BY <2>1 DEF ChartHas
  <2>2. ASSUME c # NewBars PROVE All!PadFrom(c.data) \in 1..MaxBlock
    <3>1. All!IsData(c.data, Tick, MaxBlock) /\ All!Whole(c.data)
      BY <2>1, <2>2 DEF All!IsBars, All!BarsInv
    <3>2. QED
      BY <1>1, <3>1, AllAssumptions, All!LastFacts
  <2>3. QED
    BY <1>1, <2>1, <2>2
<1>6. All!Mirror(c.data, st)
  BY DEF ChartHas
<1> HIDE DEF D, st, st2, tick, fin, r
<1>7. CASE n \notin D
  <2>1. DOMAIN st2 = DOMAIN st
    BY <1>2, <1>3, <1>4, <1>7
  <2>2. st2 = st
    <3>1. st2 = [m \in DOMAIN st2 |-> st2[m]] /\ st = [m \in DOMAIN st |-> st[m]]
      BY DEF st, st2, BlocksOf
    <3>2. QED
      BY <1>2, <1>3, <2>1, <3>1
  <2>3. ChartNext(c, n) = c
    BY <1>7 DEF ChartNext, D
  <2>4. QED
    BY <1>5, <1>6, <2>2, <2>3 DEF ChartHas, st2
<1>8. CASE n \in D
  <2>1. tick \in Tick
    BY <1>1, <1>8 DEF IsTicks, tick, D
  <2>2. fin \in All!NoBar..MaxBlock + 1 /\ fin < BarOf(n)
    <3>1. BarOf(n) \in Nat /\ 1 <= BarOf(n) /\ BarOf(n) <= n + 1
      BY <1>1, BarOfFacts
    <3>2. QED
      BY <1>1, <3>1, AllBars DEF fin, NoBar
  <2>3. Grown(st, n, tick, st2, MaxBlock)
    <3>1. DOMAIN st \subseteq 1..MaxBlock /\ \A m \in DOMAIN st : m < n
      <4>1. DOMAIN st \subseteq D /\ \A m \in DOMAIN st : m <= n - 1
        BY <1>2
      <4>2. \A m \in D : m \in 1..MaxBlock
        BY <1>1
      <4>3. \A m \in DOMAIN st : m \in 1..MaxBlock
        BY <4>1, <4>2
      <4>4. \A m \in DOMAIN st : m < n
        BY <1>1, <4>1, <4>3
      <4>5. QED
        BY <4>3, <4>4
    <3>2. DOMAIN st2 = DOMAIN st \cup {n}
      BY <1>2, <1>3, <1>4, <1>8
    <3>3. st2[n] = tick /\ \A m \in DOMAIN st : st2[m] = st[m]
      BY <1>2, <1>3, <3>2 DEF tick
    <3>4. QED
      BY <3>1, <3>2, <3>3 DEF Grown
  <2>4. All!Extendable(c, n, Tick, MaxBlock)
    <3>1. CASE c = NewBars
      <4>1. c = All!NewBars
        BY <3>1, AllBars
      <4>2. QED
        BY <1>1, <4>1, AllAssumptions, All!NewBarsExtendable
    <3>2. CASE c # NewBars
      BY <1>1, <1>5, <3>2, AllAssumptions, All!BarsExtendable
    <3>3. QED
      BY <3>1, <3>2
  <2>5. r = All!InsertData(c, n, tick, fin) /\ (Chart!CanInsert(c, n, tick, fin) <=> All!CanInsert(c, n, tick, fin))
    BY AllInserts DEF r
  <2>6. All!InsertedTo(c, n, tick, fin, r, Tick, MaxBlock) /\ All!CanInsert(c, n, tick, fin)
    <3>1. fin < All!BarOf(n)
      BY <2>2, AllBars
    <3>2. QED
      BY <1>1, <2>1, <2>2, <2>4, <2>5, <3>1, AllAssumptions, All!InsertFacts
  <2>7. All!IsBars(r, Tick, MaxBlock) /\ All!BarsInv(r) /\ All!PadFrom(r.data) <= n
    <3>1. All!IsBars(r, Tick, MaxBlock) /\ All!BarsInv(r) /\ All!PadFrom(r.data) = n
      BY <2>6 DEF All!InsertedTo
    <3>2. QED
      BY <1>1, <3>1
  <2>8. All!Mirror(r.data, st2)
    <3>1. All!IsTicks(st, Tick, MaxBlock) /\ All!IsTicks(st2, Tick, MaxBlock) /\ All!Grown(st, n, tick, st2, MaxBlock)
      BY <1>2, <1>3, <2>3, AllTicks
    <3>2. All!Mirror(All!InsertData(c, n, tick, fin).data, st2)
      BY <1>1, <1>6, <2>1, <2>2, <2>4, <3>1, AllAssumptions, All!InsertShows
    <3>3. QED
      BY <2>5, <3>2
  <2>9. ChartNext(c, n) = r
    BY <1>8, <2>5, <2>6 DEF ChartNext, ChartWith, ChartFinal, r, tick, fin, D
  <2>10. QED
    BY <2>7, <2>8, <2>9 DEF ChartHas, st2
<1>9. QED
  BY <1>7, <1>8

LEMMA ChartMirrors ==
  ASSUME PipelineInv, MarketInv, NEW from \in Nat, 1 <= from, from <= MaxBlock + 1
  PROVE  All!Mirror(ChartBars(from, MaxBlock), BlocksOf(stored, from, MaxBlock))
<1> DEFINE n == MaxBlock - from + 1
<1>1. MaxBlock \in Nat /\ n \in Nat /\ from - 1 + n = MaxBlock /\ from - 1 <= MaxBlock
  BY BoundsAssumption
<1>2. PICK f : IsChart(from, MaxBlock, f) /\ ChartBars(from, MaxBlock) = f[MaxBlock].data
  BY <1>1, ChartLoop
<1>3. \A x \in from - 1..MaxBlock : f[x] = IF x < from THEN NewBars ELSE ChartNext(f[x - 1], x)
  BY <1>2 DEF IsChart
<1> HIDE DEF n
<1> DEFINE T == {i \in 0..n : ChartHas(f[from - 1 + i], from, from - 1 + i)}
<1>4. 0 \in T
  <2>1. from - 1 \in from - 1..MaxBlock /\ from - 1 < from /\ from - 1 + 0 = from - 1
    BY <1>1
  <2>2. f[from - 1] = NewBars
    BY <1>3, <2>1
  <2>3. QED
    BY <1>1, <2>1, <2>2, ChartStart
<1>5. ASSUME NEW i \in 1..n, i - 1 \in T PROVE i \in T
  <2> DEFINE m == from - 1 + i
  <2>1. from - 1 + (i - 1) = m - 1 /\ m \in from - 1..MaxBlock /\ m \in 1..MaxBlock /\ from <= m /\ ~ (m < from)
        /\ i \in 0..n
    BY <1>1
  <2>2. ChartHas(f[from - 1 + (i - 1)], from, from - 1 + (i - 1))
    BY <1>5
  <2> HIDE DEF m
  <2>3. ChartHas(f[m - 1], from, m - 1)
    BY <2>1, <2>2
  <2>4. ChartHas(ChartNext(f[m - 1], m), from, m)
    BY <2>1, <2>3, ChartStep
  <2>5. f[m] = ChartNext(f[m - 1], m)
    BY <1>3, <2>1
  <2>6. QED
    BY <2>1, <2>4, <2>5 DEF m
<1>6. n \in T
  <2> HIDE DEF T
  <2>1. 0..n \subseteq T
    BY <1>1, <1>4, <1>5, InductionUpTo
  <2>2. QED
    BY <1>1, <2>1
<1>7. ChartHas(f[MaxBlock], from, MaxBlock)
  BY <1>1, <1>6
<1>8. QED
  BY <1>2, <1>7 DEF ChartHas

(* A bar all of whose blocks are in the range is shown alike. *)
ShownAlike(c, st, k) == In(DOMAIN c, k) = In(DOMAIN st, k) /\ Max(DOMAIN c) = Max(DOMAIN st) /\ Shown(c, k) = Shown(st, k)

LEMMA BlocksShown ==
  ASSUME NEW st, IsTicks(st, Tick, MaxBlock), NEW from \in Nat, NEW c, IsBlocks(c, st, from, MaxBlock),
         NEW k, In(DOMAIN st, k) # {}, \A m \in In(DOMAIN st, k) : from <= m
  PROVE  ShownAlike(c, st, k)
<1> DEFINE D == DOMAIN st
           C == DOMAIN c
<1>1. MaxBlock \in Nat /\ D \subseteq 1..MaxBlock /\ D \in SUBSET (1..MaxBlock)
  BY BoundsAssumption DEF IsTicks
<1>2. \A x \in D : x \in Nat /\ x <= MaxBlock /\ x \in 0..MaxBlock
  BY <1>1
<1>3. C = {x \in D : from <= x /\ x <= MaxBlock} /\ \A m \in C : c[m] = st[m]
  BY DEF IsBlocks
<1> HIDE DEF D, C
<1>4. C \in SUBSET (1..MaxBlock) /\ C \subseteq D /\ \A x \in D : x \in C <=> from <= x
  BY <1>1, <1>2, <1>3
<1>5. In(C, k) = In(D, k) /\ In(D, k) \subseteq C
  <2>1. \A m \in In(D, k) : m \in D /\ from <= m /\ BarOf(m) = k
    BY DEF In, D
  <2>2. \A m \in C : m \in D
    BY <1>4
  <2>3. \A m \in In(D, k) : m \in C /\ m \in In(C, k)
    BY <1>4, <2>1 DEF In
  <2>4. \A m \in In(C, k) : m \in In(D, k)
    BY <2>2 DEF In
  <2>5. QED
    BY <2>3, <2>4
<1> DEFINE y == CHOOSE x \in In(D, k) : TRUE
<1>6. y \in C /\ y \in D /\ C # {} /\ D # {}
  <2>1. y \in In(D, k)
    BY DEF D
  <2>2. QED
    BY <1>4, <1>5, <2>1
<1> HIDE DEF y
<1>7. Max(D) \in D /\ \A x \in D : x <= Max(D)
  <2>1. D \in SUBSET (0..MaxBlock)
    BY <1>2
  <2>2. QED
    BY <1>1, <1>6, <2>1, MaxFacts
<1>8. Max(C) \in C /\ \A x \in C : x <= Max(C)
  <2>1. C \in SUBSET (0..MaxBlock)
    BY <1>2, <1>4
  <2>2. QED
    BY <1>1, <1>6, <2>1, MaxFacts
<1>9. Max(D) \in C
  <2>1. from <= y /\ y <= Max(D) /\ y \in Nat /\ Max(D) \in Nat
    BY <1>2, <1>4, <1>6, <1>7
  <2>2. from <= Max(D)
    BY <2>1
  <2>3. QED
    BY <1>4, <1>7, <2>2
<1>10. Max(C) = Max(D)
  <2>1. Max(D) <= Max(C) /\ Max(C) <= Max(D) /\ Max(C) \in Nat /\ Max(D) \in Nat
    BY <1>2, <1>4, <1>7, <1>8, <1>9
  <2>2. QED
    BY <2>1
<1>11. /\ Min(D) \in D /\ \A x \in D : Min(D) <= x
       /\ Min(C) \in C /\ \A x \in C : Min(C) <= x
  <2>1. D \in SUBSET Nat /\ C \in SUBSET Nat
    BY <1>2, <1>4
  <2>2. QED
    BY <1>6, <2>1, MinFacts
<1>12. ASSUME NEW x \in Nat, NEW b \in C, b <= x PROVE LastTo(C, x) = LastTo(D, x)
  <2>1. LastTo(D, x) \in D /\ LastTo(D, x) <= x /\ b <= LastTo(D, x) /\ \A z \in D : z <= x => z <= LastTo(D, x)
    BY <1>1, <1>4, <1>12, LastToFacts
  <2>2. from <= b /\ b \in Nat /\ LastTo(D, x) \in Nat
    BY <1>2, <1>4, <2>1
  <2>3. LastTo(D, x) \in C
    BY <1>4, <2>1, <2>2
  <2>4. \A z \in C : z <= x => z <= LastTo(D, x)
    BY <1>4, <2>1
  <2> DEFINE v == LastTo(D, x)
  <2>5. v \in C /\ v <= x /\ \A z \in C : z <= x => z <= v
    BY <2>1, <2>3, <2>4
  <2> HIDE DEF v
  <2>6. LastTo(C, x) = v
    BY <1>1, <1>4, <2>5, LastToIs
  <2>7. QED
    BY <2>6 DEF v
<1> DEFINE e == Max(D)
           S == {x \in Min(D)..e : BarOf(LastTo(D, x)) = k}
           S2 == {x \in Min(C)..e : BarOf(LastTo(C, x)) = k}
<1>13. e \in Nat /\ Min(D) \in Nat /\ Min(C) \in Nat /\ Min(D) <= Min(C)
  BY <1>2, <1>4, <1>7, <1>11
<1> HIDE DEF e
<1>14. ASSUME NEW x \in S2 PROVE x \in S /\ LastTo(C, x) = LastTo(D, x)
  <2>1. x \in Min(C)..e /\ BarOf(LastTo(C, x)) = k
    OBVIOUS
  <2>2. x \in Nat /\ Min(C) <= x /\ x \in Min(D)..e
    BY <1>13, <2>1
  <2>3. LastTo(C, x) = LastTo(D, x)
    BY <1>11, <1>12, <2>2
  <2>4. QED
    BY <2>1, <2>2, <2>3
<1>15. ASSUME NEW x \in S PROVE x \in S2
  <2>1. x \in Min(D)..e /\ BarOf(LastTo(D, x)) = k
    OBVIOUS
  <2>2. x \in Nat /\ Min(D) <= x /\ x <= e
    BY <1>13, <2>1
  <2>3. LastTo(D, x) \in D /\ LastTo(D, x) <= x
    BY <1>1, <1>11, <2>2, LastToFacts
  <2>4. LastTo(D, x) \in C
    BY <1>5, <2>1, <2>3 DEF In
  <2>5. Min(C) <= LastTo(D, x) /\ LastTo(D, x) \in Nat
    BY <1>2, <1>11, <2>3, <2>4
  <2>6. x \in Min(C)..e
    BY <1>13, <2>2, <2>3, <2>5
  <2>7. LastTo(C, x) = LastTo(D, x)
    BY <1>12, <2>2, <2>3, <2>4
  <2>8. QED
    BY <2>1, <2>6, <2>7
<1>16. S2 = S
  <2> HIDE DEF S, S2
  <2>1. QED
    BY <1>14, <1>15
<1>17. \A x \in S2 : c[LastTo(C, x)] = st[LastTo(D, x)]
  <2>1. ASSUME NEW x \in S2 PROVE LastTo(D, x) \in C
    <3>1. x \in Min(C)..e /\ x \in Nat /\ Min(C) <= x
      BY <1>13
    <3>2. LastTo(C, x) \in C
      BY <1>1, <1>4, <1>11, <3>1, LastToFacts
    <3>3. QED
      BY <1>14, <3>2
  <2> HIDE DEF S2
  <2>2. QED
    BY <1>3, <1>14, <2>1
<1>18. Shown(st, k) = [x \in S |-> st[LastTo(D, x)]]
  BY DEF Shown, ShownTo, D, e
<1>19. Shown(c, k) = [x \in S2 |-> c[LastTo(C, x)]]
  BY <1>10 DEF Shown, ShownTo, C, e
<1> HIDE DEF S, S2
<1>20. Shown(c, k) = Shown(st, k)
  BY <1>16, <1>17, <1>18, <1>19
<1>21. QED
  BY <1>5, <1>10, <1>20 DEF ShownAlike, C, D

(* The chart has the strategy's bars of the range, with the same ticks, and  *)
(* with the same indicators if it starts with the first block.               *)
ChartHasBar(d, k, from) ==
  /\ k \in DOMAIN d
  /\ d[k].ticks = bars.data[k].ticks
  /\ from = 1 => d[k].ind.closes = bars.data[k].ind.closes /\ d[k].ind.ema = bars.data[k].ind.ema

LEMMA ChartBar ==
  ASSUME PipelineInv, MarketInv, NEW from \in 1..MaxBlock + 1,
         NEW k \in DOMAIN bars.data, BarOf(from - 1) < k
  PROVE  ChartHasBar(ChartBars(from, MaxBlock), k, from)
<1> DEFINE d == ChartBars(from, MaxBlock)
           c == BlocksOf(stored, from, MaxBlock)
           bar == bars.data[k]
           D == DOMAIN stored
<1>1. /\ MaxBlock \in Nat /\ from \in Nat /\ 1 <= from /\ from <= MaxBlock + 1 /\ from - 1 \in Nat
      /\ IsTicks(stored, Tick, MaxBlock) /\ D \in SUBSET (1..MaxBlock)
  BY BoundsAssumption DEF MarketInv, IsTicks
<1>2. ShowsAt(bar, stored, k)
  BY DEF MarketInv, Mirror
<1>3. /\ In(D, k) # {} /\ bar.ticks = Shown(stored, k)
      /\ bar.ind.closes = ClosesTo(stored, k) /\ bar.ind.ema = Averaged(stored, k)
  BY <1>2 DEF ShowsAt
<1>4. All!Mirror(d, c)
  BY <1>1, ChartMirrors
<1>5. IsBlocks(c, stored, from, MaxBlock)
  BY <1>1, BlocksFacts
<1>6. from = 1 => c = stored
  <2>1. from = 1 => \A x \in D : from <= x /\ x <= MaxBlock
    BY <1>1
  <2>2. from = 1 => {x \in D : from <= x /\ x <= MaxBlock} = D
    BY <2>1
  <2>3. stored = [m \in D |-> stored[m]]
    BY <1>1 DEF IsTicks
  <2>4. QED
    BY <2>2, <2>3 DEF BlocksOf
<1> HIDE DEF d, c, D
<1>7. \A m \in In(D, k) : from <= m
  <2>1. ASSUME NEW m \in In(D, k), ~ (from <= m) PROVE FALSE
    <3>1. m \in D /\ BarOf(m) = k
      BY DEF In
    <3>2. m \in Nat /\ m <= from - 1
      BY <1>1, <2>1, <3>1
    <3>3. BarOf(m) <= BarOf(from - 1) /\ BarOf(m) \in Nat /\ BarOf(from - 1) \in Nat
      BY <1>1, <3>2, BarOfGrows, BarOfFacts
    <3>4. QED
      BY <3>1, <3>3
  <2>2. QED
    BY <2>1
<1>8. ShownAlike(c, stored, k)
  BY <1>1, <1>3, <1>5, <1>7, BlocksShown DEF D
<1>9. In(DOMAIN c, k) = In(D, k) /\ Max(DOMAIN c) = Max(D) /\ Shown(c, k) = Shown(stored, k)
  BY <1>8 DEF ShownAlike, D
<1>10. k \in Nat /\ 1 <= k
  BY <1>1, <1>3, InFacts
<1>11. k \in DOMAIN d
  <2>1. Max(D) \in D
    <3>1. D \in SUBSET (0..MaxBlock) /\ D # {}
      <4>1. \A x \in D : x \in 0..MaxBlock
        BY <1>1
      <4>2. QED
        BY <1>3, <4>1 DEF In
    <3>2. QED
      BY <1>1, <3>1, MaxFacts
  <2>2. BarOf(Max(D)) \in Nat /\ BarOf(Max(D)) <= MaxBlock + 1
    <3>1. Max(D) \in Nat /\ Max(D) <= MaxBlock
      <4>1. Max(D) \in 1..MaxBlock
        BY <1>1, <2>1
      <4>2. QED
        BY <1>1, <4>1
    <3>2. BarOf(Max(D)) \in Nat /\ BarOf(Max(D)) <= Max(D) + 1
      BY <3>1, BarOfFacts
    <3>3. QED
      BY <1>1, <3>1, <3>2
  <2>3. All!BarOf(All!Max(DOMAIN c)) = BarOf(Max(D))
    BY <1>9, AllBars
  <2>4. k \in Int /\ k > BarOf(Max(D)) - (Retention + MaxBlock + 1)
    BY <1>1, <1>10, <2>2, RetentionAssumption
  <2>5. All!In(DOMAIN c, k) # {}
    BY <1>3, <1>9, AllShown
  <2>6. All!Recent(d, c)
    BY <1>4 DEF All!Mirror
  <2>7. QED
    BY <2>3, <2>4, <2>5, <2>6 DEF All!Recent
<1>12. All!ShowsAt(d[k], c, k)
  BY <1>4, <1>11 DEF All!Mirror
<1>13. /\ d[k].ticks = Shown(c, k)
       /\ d[k].ind.closes = ClosesTo(c, k) /\ d[k].ind.ema = Averaged(c, k)
  <2>1. /\ d[k].ticks = All!Shown(c, k)
        /\ d[k].ind.closes = All!ClosesTo(c, k) /\ d[k].ind.ema = All!Averaged(c, k)
    BY <1>12 DEF All!ShowsAt
  <2>2. QED
    BY <2>1, AllShown, AllIndicators
<1>14. QED
  BY <1>3, <1>6, <1>9, <1>11, <1>13 DEF ChartHasBar, d

(* A price tick is of a bar's ticks and its indicators only. *)
LEMMA PriceTicksAgree ==
  ASSUME NEW a, NEW b, a.ticks = b.ticks
  PROVE  /\ Prices4(PriceTick(a)) = Prices4(PriceTick(b))
         /\ a.ind.closes = b.ind.closes /\ a.ind.ema = b.ind.ema => PriceTick(a) = PriceTick(b)
<1>1. TicksOf(a) = TicksOf(b)
  BY DEF TicksOf, StartOf
<1>2. BarData(a) = BarData(b)
  BY <1>1 DEF BarData
<1>3. /\ a.ind.ema = b.ind.ema => Ema(a) = Ema(b)
      /\ a.ind.closes = b.ind.closes => (HasBands(a) <=> HasBands(b)) /\ BandMean(a) = BandMean(b)
  BY DEF Ema, HasBands, BandMean
<1>4. Prices4(PriceTick(a)) = Prices4(PriceTick(b))
  BY <1>2 DEF Prices4, PriceTick
<1>5. a.ind.closes = b.ind.closes /\ a.ind.ema = b.ind.ema => PriceTick(a) = PriceTick(b)
  BY <1>2, <1>3 DEF PriceTick
<1>6. QED
  BY <1>4, <1>5

LEMMA ChartAgrees == PipelineInv /\ MarketInv => ChartShowsBars
<1> SUFFICES ASSUME PipelineInv, MarketInv, block = MaxBlock, NEW from \in 1..block + 1,
                    NEW k \in DOMAIN bars.data, BarOf(from - 1) < k
             PROVE  /\ k \in DOMAIN ChartBars(from, block)
                    /\ Prices4(PriceTick(ChartBars(from, block)[k])) = Prices4(PriceTick(bars.data[k]))
                    /\ from = 1 => PriceTick(ChartBars(from, block)[k]) = PriceTick(bars.data[k])
  BY DEF ChartShowsBars
<1> DEFINE d == ChartBars(from, MaxBlock)
<1>1. ChartHasBar(d, k, from)
  BY ChartBar
<1> HIDE DEF d
<1>2. /\ k \in DOMAIN d /\ d[k].ticks = bars.data[k].ticks
      /\ from = 1 => d[k].ind.closes = bars.data[k].ind.closes /\ d[k].ind.ema = bars.data[k].ind.ema
  BY <1>1 DEF ChartHasBar
<1>3. /\ Prices4(PriceTick(d[k])) = Prices4(PriceTick(bars.data[k]))
      /\ from = 1 => PriceTick(d[k]) = PriceTick(bars.data[k])
  BY <1>2, PriceTicksAgree
<1>4. QED
  BY <1>2, <1>3 DEF d

(* The chart of a backtest that has ended has every bar that the strategy    *)
(* still has, with its prices, and one of the whole backtest has its         *)
(* average and bands, too: both sets of bars mirror the stored ticks, and a  *)
(* bar shows of the ticks of a range that has all of its blocks what it      *)
(* shows of all ticks.  The strategy's bars need their retention for that.   *)
THEOREM ChartShowsTheBars ==
  ASSUME 3 <= Retention, Period < Retention
  PROVE  Spec => []ChartShowsBars
<1>1. Init => MarketInv
  BY MarketInit
<1>2. PipelineInv /\ MarketInv /\ [Next]_vars => MarketInv'
  BY MarketNext
<1>3. PipelineInv /\ MarketInv => ChartShowsBars
  BY ChartAgrees
<1>4. QED
  BY <1>1, <1>2, <1>3, PipelineInvariant, PTL DEF Spec

=============================================================================
