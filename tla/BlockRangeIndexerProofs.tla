----------------------- MODULE BlockRangeIndexerProofs -----------------------
(***************************************************************************)
(* Proofs about BlockRangeIndexer for every range, chunk size, number of     *)
(* workers, channel capacity, database and set of faults, and that it       *)
(* implements OrderedDelivery.                                              *)
(***************************************************************************)
EXTENDS BlockRangeIndexer, SequenceTheorems, TLAPS

(* The extrema of a pair and of an interval. *)
LEMMA MinPair ==
  ASSUME NEW a \in Nat, NEW b \in Nat
  PROVE  Min({a, b}) \in {a, b} /\ Min({a, b}) <= a /\ Min({a, b}) <= b
<1>1. \E x \in {a, b} : \A y \in {a, b} : x =< y
  OBVIOUS
<1>2. QED
  BY <1>1 DEF Min

LEMMA MinInterval ==
  ASSUME NEW a \in Nat, NEW b \in Nat, a <= b
  PROVE  Min(a..b) = a
<1>1. a \in a..b /\ \A y \in a..b : a =< y
  OBVIOUS
<1>2. \A x \in a..b : (\A y \in a..b : x =< y) => x = a
  BY <1>1
<1>3. QED
  BY <1>1, <1>2 DEF Min

LEMMA MaxInterval ==
  ASSUME NEW a \in Nat, NEW b \in Nat, a <= b
  PROVE  Max(a..b) = b
<1>1. b \in a..b /\ \A y \in a..b : b >= y
  OBVIOUS
<1>2. \A x \in a..b : (\A y \in a..b : x >= y) => x = b
  BY <1>1
<1>3. QED
  BY <1>1, <1>2 DEF Max

(* A range lies within the block numbers. *)
LEMMA RangeFacts ==
  ASSUME TypeOK
  PROVE  /\ range[1] \in Nat /\ range[2] \in Nat /\ range[1] < range[2]
         /\ range[1]..range[2] \subseteq Blocks
BY RangesAssumption DEF TypeOK, Blocks

LEMMA BlocksNat == Blocks \subseteq Nat
BY RangesAssumption DEF Blocks

(* The end of a chunk within the range. *)
LEMMA ChunkEndFacts ==
  ASSUME TypeOK, NEW n \in Nat, n <= range[2]
  PROVE  /\ ChunkEnd(n) \in Nat /\ n <= ChunkEnd(n) /\ ChunkEnd(n) <= range[2]
         /\ ChunkEnd(n) < n + ChunkSize + 1
         /\ \A k \in Nat : k <= n + ChunkSize /\ k <= range[2] => k <= ChunkEnd(n)
<1>1. n + ChunkSize \in Nat /\ range[2] \in Nat
  BY RangeFacts, SizesAssumption
<1>2. QED
  BY <1>1, MinPair, SizesAssumption DEF ChunkEnd

(* What a filled chunk is. *)
LEMMA FilledFacts ==
  ASSUME NEW c, Filled(c)
  PROVE  /\ c \in Chunk /\ c.first \in Nat /\ c.last \in Nat
         /\ First(c) = c.first /\ Last(c) = c.last
         /\ DOMAIN c.data = c.first..c.last
<1>1. c \in Chunk /\ c.first \in Nat /\ c.last \in Nat /\ c.first <= c.last
  BY BlocksNat DEF Filled, Chunk, Ahead
<1>2. QED
  BY <1>1, MinInterval, MaxInterval DEF Filled, Span, First, Last
-----------------------------------------------------------------------------
(* Type correctness *)

(* The blocks of the chunk in execution that are left, while it is executed. *)
LEMMA TodoFacts ==
  ASSUME IndexerInv, hpc = "exec"
  PROVE  /\ Filled(hchunk) /\ Len(executed) \in Nat
         /\ Todo = (range[1] + Len(executed))..hchunk.last
         /\ Todo # {} => Min(Todo) = range[1] + Len(executed) /\ Min(Todo) \in Todo
<1>1. /\ Filled(hchunk) /\ TypeOK /\ InOrder /\ executed \in Seq([number : Blocks, content : Content])
  BY DEF IndexerInv, InFlight, Owned, InHand, TypeOK
<1>2. /\ hchunk.first \in Nat /\ hchunk.last \in Nat /\ DOMAIN hchunk.data = hchunk.first..hchunk.last
  BY <1>1, FilledFacts
<1>3. Len(executed) \in Nat /\ DOMAIN executed = 1..Len(executed) /\ range[1] \in Nat
  BY <1>1, RangeFacts
<1>4. /\ hchunk.first <= range[1] + Len(executed) /\ range[1] <= hchunk.first
      /\ \A i \in 1..Len(executed) : executed[i].number = range[1] + i - 1
  <2>1. ASSUME NEW i \in 1..Len(executed) PROVE executed[i].number = range[1] + i - 1
    <3>1. executed[i] \in [number : Blocks, content : Content]
      BY <1>1, <1>3, ElementOfSeq
    <3>2. executed[i].number \in Nat
      BY <3>1, BlocksNat
    <3>3. executed[i].number + 1 = range[1] + i
      BY <1>1, <1>3 DEF InOrder
    <3>4. \A a, x \in Nat : a + 1 = range[1] + x => a = range[1] + x - 1
      BY <1>3
    <3>5. QED
      BY <1>3, <3>2, <3>3, <3>4
  <2>2. hchunk.first <= range[1] + Len(executed) /\ range[1] <= hchunk.first
    BY <1>1 DEF InOrder
  <2>3. QED
    BY <2>1, <2>2
<1>5. Todo = (range[1] + Len(executed))..hchunk.last
  <2>1. ASSUME NEW n \in hchunk.first..hchunk.last
        PROVE  (\A i \in DOMAIN executed : executed[i].number # n) <=> range[1] + Len(executed) <= n
    <3>1. CASE range[1] + Len(executed) <= n
      BY <1>2, <1>3, <1>4, <3>1
    <3>2. CASE n < range[1] + Len(executed)
      <4>1. (n - range[1] + 1) \in 1..Len(executed)
        BY <1>2, <1>3, <1>4, <3>2
      <4>2. executed[n - range[1] + 1].number = n
        BY <1>2, <1>3, <1>4, <4>1
      <4>3. QED
        BY <1>2, <1>3, <3>2, <4>1, <4>2
    <3>3. QED
      BY <1>2, <1>3, <3>1, <3>2
  <2>2. \A n \in hchunk.first..hchunk.last :
          n \in Todo <=> range[1] + Len(executed) <= n
    BY <1>2, <2>1 DEF Todo
  <2>3. Todo \subseteq hchunk.first..hchunk.last
    BY <1>2 DEF Todo
  <2>4. \A n \in (range[1] + Len(executed))..hchunk.last : n \in hchunk.first..hchunk.last
    BY <1>2, <1>3, <1>4
  <2>5. ASSUME NEW n PROVE n \in Todo <=> n \in (range[1] + Len(executed))..hchunk.last
    <3>1. CASE n \in hchunk.first..hchunk.last
      <4>1. n \in Int /\ n <= hchunk.last /\ hchunk.last \in Int /\ range[1] + Len(executed) \in Int
        BY <1>2, <1>3, <3>1
      <4>2. n \in Todo <=> range[1] + Len(executed) <= n
        BY <2>2, <3>1
      <4>3. QED
        BY <4>1, <4>2
    <3>2. CASE n \notin hchunk.first..hchunk.last
      BY <2>3, <2>4, <3>2
    <3>3. QED
      BY <3>1, <3>2
  <2>6. QED
    BY <2>5
<1>6. Todo # {} => Min(Todo) = range[1] + Len(executed) /\ Min(Todo) \in Todo
  BY <1>2, <1>3, <1>5, MinInterval
<1>7. QED
  BY <1>1, <1>3, <1>5, <1>6

(* A worker's step leaves everything else well typed. *)
LEMMA WorkerType == ASSUME IndexerInv, NEW w \in Workers, WorkerStep(w) PROVE TypeOK'
<1> USE DEF fetchVars, handlerVars
<1>0. TypeOK /\ InFlight
  BY DEF IndexerInv
<1>1. CASE TakeChunk(w)
  <2> DEFINE c == [first |-> iter, last |-> ChunkEnd(iter), src |-> "Db", data |-> <<>>]
  <2>1. iter \in Nat /\ iter + ChunkSize + 1 \in Nat /\ iter \in Blocks /\ ChunkEnd(iter) \in Blocks
    <3>1. iter \in Nat /\ range[1] <= iter /\ iter <= range[2]
      BY <1>0, <1>1, RangeFacts DEF TypeOK, TakeChunk, IndexerInv, InOrder
    <3>2. QED
      BY <1>0, <3>1, RangeFacts, ChunkEndFacts, SizesAssumption
  <2>2. c \in Chunk
    <3>1. <<>> \in UNION {[S -> Content] : S \in SUBSET Blocks}
      <4>1. <<>> \in [{} -> Content] /\ {} \in SUBSET Blocks
        OBVIOUS
      <4>2. QED
        BY <4>1
    <3>2. QED
      BY <2>1, <3>1 DEF Chunk
  <2>3. wchunk' \in [Workers -> Chunk \cup {NoChunk}]
    BY <1>0, <1>1, <2>2 DEF TakeChunk, TypeOK
  <2>4. QED
    BY <1>0, <1>1, <2>1, <2>3 DEF TakeChunk, TypeOK
<1>2. ASSUME NEW src \in {"Rpc", "Db"}, NEW data, AtWorker(w, "fetch"), Fetched(w, src, data),
             data \in [Span(wchunk[w]) -> Content]
      PROVE  TypeOK'
  <2>1. Span(wchunk[w]) \in SUBSET Blocks /\ wchunk[w].first \in Blocks /\ wchunk[w].last \in Blocks
    <3>1. /\ wchunk[w].first \in Nat /\ wchunk[w].last \in Nat
          /\ range[1] <= wchunk[w].first /\ wchunk[w].first <= wchunk[w].last /\ wchunk[w].last <= range[2]
      BY <1>0, <1>2, RangeFacts DEF AtWorker, InFlight, Busy, Ahead, IndexerInv, InOrder, TypeOK
    <3>2. QED
      BY <1>0, <3>1, RangeFacts DEF Span
  <2>2. wchunk[w] \in Chunk \cup {NoChunk}
    BY <1>0 DEF TypeOK
  <2>3. [wchunk[w] EXCEPT !.src = src, !.data = data] \in Chunk
    <3>1. data \in UNION {[S -> Content] : S \in SUBSET Blocks}
      BY <1>2, <2>1
    <3>2. wchunk[w] \in Chunk
      <4>1. CASE wchunk[w] = NoChunk
        <5>1. 0 \in Blocks
          BY <2>1, <4>1 DEF NoChunk
        <5>2. <<>> \in UNION {[S -> Content] : S \in SUBSET Blocks}
          <6>1. <<>> \in [{} -> Content] /\ {} \in SUBSET Blocks
            OBVIOUS
          <6>2. QED
            BY <6>1
        <5> DEFINE D == UNION {[S -> Content] : S \in SUBSET Blocks}
        <5>3. Chunk = [first : Blocks, last : Blocks, src : {"Rpc", "Db"}, data : D] /\ <<>> \in D
          BY <5>2 DEF Chunk
        <5> HIDE DEF D
        <5>4. QED
          BY <4>1, <5>1, <5>3 DEF NoChunk
      <4>2. QED
        BY <2>2, <4>1
    <3>3. QED
      BY <1>2, <3>1, <3>2 DEF Chunk
  <2>4. wchunk' \in [Workers -> Chunk \cup {NoChunk}]
    BY <1>0, <1>2, <2>3 DEF Fetched, TypeOK
  <2>5. QED
    BY <1>0, <1>2, <2>4 DEF Fetched, TypeOK
<1>3. CASE FetchFromDb(w)
  <2>1. Span(wchunk[w]) \subseteq Blocks
    <3>1. /\ wchunk[w].first \in Nat /\ wchunk[w].last \in Nat
          /\ range[1] <= wchunk[w].first /\ wchunk[w].first <= wchunk[w].last /\ wchunk[w].last <= range[2]
      BY <1>0, <1>3, RangeFacts DEF FetchFromDb, AtWorker, InFlight, Busy, Ahead, IndexerInv, InOrder, TypeOK
    <3>2. QED
      BY <1>0, <3>1, RangeFacts DEF Span
  <2>2. FoundRows(wchunk[w]) = Span(wchunk[w])
    BY <1>3 DEF FetchFromDb, AllStored, FoundRows
  <2>3. [n \in FoundRows(wchunk[w]) |-> db[n]] \in [Span(wchunk[w]) -> Content]
    BY <1>0, <1>3, <2>1, <2>2 DEF FetchFromDb, AllStored, TypeOK
  <2>4. QED
    BY <1>2, <1>3, <2>3 DEF FetchFromDb
<1>4. CASE FetchFromRpc(w)
  <2>1. PICK content \in {"trades", "hollow"} : Fetched(w, "Rpc", [n \in Span(wchunk[w]) |-> content])
    BY <1>4 DEF FetchFromRpc
  <2>2. [n \in Span(wchunk[w]) |-> content] \in [Span(wchunk[w]) -> Content]
    BY DEF Content
  <2>3. QED
    BY <1>2, <1>4, <2>1, <2>2 DEF FetchFromRpc, AskRpc
<1>5. CASE Send(w)
  <2>1. wchunk[w] \in Chunk
    BY <1>0, <1>5 DEF Send, AtWorker, InFlight, Filled
  <2>2. channel' \in Seq(Chunk) /\ Len(channel') <= Capacity
    BY <1>0, <1>5, <2>1, SizesAssumption DEF Send, TypeOK
  <2>3. QED
    BY <1>0, <1>5, <2>2 DEF Send, TypeOK
<1>6. CASE RangeExhausted(w) \/ FetchPanics(w) \/ FetchFails(w) \/ SendFails(w) \/ Abort(w)
  BY <1>0, <1>6 DEF RangeExhausted, FetchPanics, FetchFails, SendFails, Abort, TypeOK
<1>7. QED
  BY <1>1, <1>3, <1>4, <1>5, <1>6 DEF WorkerStep

LEMMA HandlerType == ASSUME IndexerInv, HandlerStep PROVE TypeOK'
<1> USE DEF fetchVars, handlerVars
<1>0. /\ TypeOK /\ InFlight /\ channel \in Seq(Chunk) /\ buffer \subseteq Chunk
      /\ executed \in Seq([number : Blocks, content : Content])
  BY DEF IndexerInv, TypeOK
<1>1. ASSUME InHand PROVE hchunk \in Chunk /\ Filled(hchunk)
  BY <1>0, <1>1 DEF InFlight, Owned, Filled
<1>2. CASE Recv
  <2>1. Head(channel) \in Chunk /\ channel' \in Seq(Chunk) /\ Len(channel') <= Capacity
    BY <1>0, <1>2, SizesAssumption DEF Recv, TypeOK
  <2>2. QED
    BY <1>0, <1>2, <2>1 DEF Recv, TypeOK
<1>3. CASE Persist
  <2>1. DOMAIN hchunk.data \subseteq Blocks /\ hchunk.data \in [DOMAIN hchunk.data -> Content]
    BY <1>1, <1>3 DEF Persist, AtHandler, InHand, Chunk
  <2>2. db' \in [Blocks -> Content \cup {"absent"}]
    BY <1>0, <1>3, <2>1 DEF Persist, Inserted, Rows, TypeOK
  <2>3. QED
    BY <1>0, <1>3, <2>2 DEF Persist, TypeOK
<1>4. CASE PlaceLater
  BY <1>0, <1>1, <1>4 DEF PlaceLater, AtHandler, InHand, TypeOK
<1>5. CASE ExecuteBlock
  <2>1. /\ hpc = "exec" /\ Todo # {}
        /\ executed' = Append(executed, [number |-> Min(Todo), content |-> hchunk.data[Min(Todo)]])
    BY <1>5 DEF ExecuteBlock, AtHandler
  <2>2. Min(Todo) \in DOMAIN hchunk.data /\ hchunk \in Chunk
    BY <2>1, <1>1, TodoFacts DEF Todo, InHand
  <2>3. Min(Todo) \in Blocks /\ hchunk.data[Min(Todo)] \in Content
    BY <2>2 DEF Chunk
  <2>4. executed' \in Seq([number : Blocks, content : Content])
    BY <1>0, <2>1, <2>3
  <2>5. QED
    BY <1>0, <1>5, <2>4 DEF ExecuteBlock, TypeOK
<1>6. CASE ChunkDone
  <2>1. Filled(hchunk)
    BY <1>1, <1>6 DEF ChunkDone, AtHandler, InHand
  <2>2. After(hchunk) \in Nat
    BY <2>1, FilledFacts DEF After
  <2>3. QED
    BY <1>0, <1>6, <2>2 DEF ChunkDone, TypeOK
<1>7. CASE DrainNext
  BY <1>0, <1>7 DEF DrainNext, TypeOK
<1>8. CASE RecvNone \/ PersistFails \/ PlaceNext \/ ExecuteFails \/ DrainEnds
  BY <1>0, <1>8 DEF RecvNone, PersistFails, PlaceNext, ExecuteFails, DrainEnds, TypeOK
<1>9. QED
  BY <1>2, <1>3, <1>4, <1>5, <1>6, <1>7, <1>8 DEF HandlerStep

LEMMA OthersIndexerType ==
  ASSUME TypeOK, ParserReturns \/ ExecReturns \/ Crash \/ Rerun \/ UNCHANGED vars PROVE TypeOK'
<1> USE DEF fetchVars, handlerVars
<1>1. CASE Rerun
  <2>1. range' \in Ranges /\ range'[1] \in Nat /\ runs' \in 1..MaxRuns
    BY <1>1, RangesAssumption, SizesAssumption DEF Rerun, TypeOK
  <2>2. QED
    BY <1>1, <2>1, SizesAssumption DEF Rerun, TypeOK
<1>2. CASE ParserReturns \/ ExecReturns \/ UNCHANGED vars
  BY <1>2 DEF ParserReturns, ExecReturns, vars, TypeOK
<1>3. CASE Crash
  BY <1>3 DEF Crash, AfterCrash, TypeOK
<1>4. QED
  BY <1>1, <1>2, <1>3
-----------------------------------------------------------------------------
(* The flow of the chunks, step by step *)

FlowInv == InFlight /\ AllApart /\ NothingLost /\ InOrder /\ BufferWaits /\ Stopping

(* A worker stops, with or without a chunk. *)
LEMMA StopFlow ==
  ASSUME IndexerInv, NEW w \in Workers,
         RangeExhausted(w) \/ FetchPanics(w) \/ FetchFails(w) \/ SendFails(w) \/ Abort(w)
  PROVE  FlowInv'
<1> USE DEF fetchVars, handlerVars
<1>1. /\ UNCHANGED <<range, iter, wchunk, parser, channel, hpc, hchunk, next, buffer, executed>>
      /\ wpc' \in [Workers -> {"take", "fetch", "send", "done", "failed", "aborted"}]
      /\ \/ wpc[w] = "take" /\ wpc'[w] = "done" /\ iter > range[2]
         \/ wpc[w] # "done" /\ wpc'[w] = "failed"
         \/ wpc[w] # "done" /\ wpc'[w] = "aborted" /\ parser = "err"
      /\ \A v \in Workers : v # w => wpc'[v] = wpc[v]
  <2>1. wpc \in [Workers -> {"take", "fetch", "send", "done", "failed", "aborted"}]
    BY DEF IndexerInv, TypeOK
  <2>2. CASE RangeExhausted(w)
    BY <2>1, <2>2 DEF RangeExhausted, AtWorker
  <2>3. CASE FetchPanics(w) \/ FetchFails(w) \/ SendFails(w)
    BY <2>1, <2>3 DEF FetchPanics, FetchFails, AskRpc, SendFails, AtWorker
  <2>4. CASE Abort(w)
    BY <2>1, <2>4 DEF Abort
  <2>5. QED
    BY <2>2, <2>3, <2>4
<1>2. \A v \in Workers : Busy(v)' => Busy(v)
  BY <1>1 DEF Busy
<1>3. Owned' = Owned /\ InHand' = InHand
  BY <1>1 DEF Owned, InHand
<1>4. InFlight'
  BY <1>1, <1>2, <1>3 DEF IndexerInv, InFlight, Ahead, Filled, Span
<1>5. AllApart'
  BY <1>1, <1>2, <1>3 DEF IndexerInv, AllApart, Apart
<1>6. NothingLost'
  <2>1. CASE wpc'[w] \in {"failed", "aborted"}
    BY <2>1 DEF NothingLost
  <2>2. CASE wpc[w] = "take" /\ wpc'[w] = "done"
    <3>1. \A v \in Workers : Busy(v)' = Busy(v)
      BY <1>1, <2>2 DEF Busy
    <3>2. \A n : InChunk(n)' = InChunk(n)
      BY <1>1, <1>3, <3>1 DEF InChunk, Span
    <3>3. QED
      BY <1>1, <2>2, <3>2 DEF IndexerInv, NothingLost
  <2>3. QED
    BY <1>1, <2>1, <2>2
<1>7. InOrder' /\ BufferWaits'
  BY <1>1 DEF IndexerInv, InOrder, BufferWaits
<1>8. Stopping'
  BY <1>1 DEF IndexerInv, Stopping
<1>9. QED
  BY <1>4, <1>5, <1>6, <1>7, <1>8 DEF FlowInv

(* A worker takes the next chunk: it lies behind all others. *)
LEMMA TakeFlow == ASSUME IndexerInv, NEW w \in Workers, TakeChunk(w) PROVE FlowInv'
<1> USE DEF fetchVars, handlerVars
<1> DEFINE c == [first |-> iter, last |-> ChunkEnd(iter), src |-> "Db", data |-> <<>>]
<1>0. TypeOK /\ InFlight /\ AllApart /\ NothingLost /\ InOrder /\ BufferWaits /\ Stopping
  BY DEF IndexerInv
<1>1. /\ UNCHANGED <<range, parser, channel, hpc, hchunk, next, buffer, executed>>
      /\ wpc[w] = "take" /\ wpc'[w] = "fetch" /\ wchunk'[w] = c
      /\ \A v \in Workers : v # w => wpc'[v] = wpc[v] /\ wchunk'[v] = wchunk[v]
      /\ iter <= range[2] /\ iter' = iter + ChunkSize + 1
  BY <1>0 DEF TakeChunk, TypeOK, AtWorker
<1>2. /\ iter \in Nat /\ next \in Nat /\ next <= iter /\ range[2] \in Nat /\ iter' \in Nat /\ iter < iter'
  BY <1>0, <1>1, RangeFacts, SizesAssumption DEF TypeOK, InOrder
<1>3. /\ c.first = iter /\ c.last \in Nat /\ iter <= c.last /\ c.last < iter' /\ c.last <= range[2]
      /\ \A k \in Nat : k < iter' /\ k <= range[2] => k <= c.last
  <2>1. \A k \in Nat : k < iter' => k <= iter + ChunkSize
    BY <1>1, <1>2, SizesAssumption
  <2>2. QED
    BY <1>0, <1>1, <1>2, <2>1, ChunkEndFacts
<1> HIDE DEF c
<1>4. Owned' = Owned /\ InHand' = InHand /\ \A v \in Workers : v # w => (Busy(v)' <=> Busy(v))
  BY <1>1 DEF Owned, InHand, Busy
<1>5. ASSUME NEW d, d.last \in Nat, Ahead(d) PROVE Ahead(d)' /\ d.last < iter
  <2>1. d.last < iter => d.last < iter'
    BY <1>2, <1>5
  <2>2. QED
    BY <1>1, <1>5, <2>1 DEF Ahead
<1>6. ASSUME NEW d, Filled(d) PROVE Filled(d)' /\ d.last < iter
  BY <1>5, <1>6, FilledFacts DEF Filled, Span
<1>7. InFlight'
  <2>1. Ahead(wchunk[w])'
    BY <1>1, <1>2, <1>3 DEF Ahead
  <2>2. ASSUME NEW v \in Workers, Busy(v)'
        PROVE  wchunk'[v].first \in Nat /\ wchunk'[v].last \in Nat /\ Ahead(wchunk[v])'
    <3>1. CASE v = w
      BY <1>1, <1>2, <1>3, <2>1, <3>1
    <3>2. CASE v # w
      BY <1>0, <1>1, <1>4, <1>5, <2>2, <3>2 DEF InFlight, Ahead
    <3>3. QED
      BY <3>1, <3>2
  <2>3. ASSUME NEW v \in Workers, wpc'[v] = "send" PROVE Filled(wchunk[v])'
    <3>1. v # w /\ wchunk'[v] = wchunk[v] /\ Filled(wchunk[v])
      BY <1>0, <1>1, <2>3 DEF InFlight
    <3>2. QED
      BY <1>6, <3>1 DEF Filled, Ahead, Span
  <2>4. \A i \in DOMAIN channel' : Filled(channel[i])'
    BY <1>0, <1>1, <1>6 DEF InFlight, Filled, Ahead, Span
  <2>5. \A d \in Owned' : Filled(d)'
    BY <1>0, <1>4, <1>6 DEF InFlight
  <2>6. QED
    BY <2>2, <2>3, <2>4, <2>5 DEF InFlight
<1>8. AllApart'
  <2>1. /\ \A v \in Workers : v # w /\ Busy(v) => Apart(wchunk[v], c) /\ Apart(c, wchunk[v])
        /\ \A i \in DOMAIN channel : Apart(c, channel[i])
        /\ \A d \in Owned : Apart(c, d)
    BY <1>0, <1>3, <1>5, <1>6 DEF Apart, InFlight
  <2>2. QED
    BY <1>0, <1>1, <1>4, <2>1 DEF AllApart, Apart
<1>9. NothingLost'
  <2>1. \A n : InChunk(n) => InChunk(n)'
    <3>1. ~ Busy(w)
      BY <1>1 DEF Busy
    <3>2. QED
      BY <1>1, <1>4, <3>1 DEF InChunk, Span
  <2>2. \A n \in Nat : iter <= n /\ n < iter' /\ n <= range[2] => InChunk(n)'
    <3>1. Busy(w)' /\ \A n \in Nat : iter <= n /\ n < iter' /\ n <= range[2] => n \in Span(c)
      BY <1>1, <1>2, <1>3 DEF Busy, Span
    <3>2. QED
      BY <1>1, <3>1 DEF InChunk, Span
  <2>3. QED
    BY <1>0, <1>1, <1>2, <2>1, <2>2 DEF NothingLost
<1>10. InOrder'
  BY <1>0, <1>1, <1>2 DEF InOrder
<1>11. BufferWaits' /\ Stopping'
  BY <1>0, <1>1, <1>2 DEF BufferWaits, Stopping
<1>12. QED
  BY <1>7, <1>8, <1>9, <1>10, <1>11 DEF FlowInv

(* A worker's chunk gets its blocks. *)
LEMMA FetchedFlow ==
  ASSUME IndexerInv, TypeOK', NEW w \in Workers, FetchFromDb(w) \/ FetchFromRpc(w)
  PROVE  /\ FlowInv'
         /\ UNCHANGED <<channel, hpc, hchunk, buffer, executed, db>>
         /\ \A v \in Workers : v # w => wpc'[v] = wpc[v] /\ wchunk'[v] = wchunk[v]
         /\ wchunk'[w].src = "Db" => \A n \in DOMAIN wchunk'[w].data : wchunk'[w].data[n] = db[n]
<1> USE DEF fetchVars, handlerVars
<1>0. TypeOK /\ InFlight /\ AllApart /\ NothingLost /\ InOrder /\ BufferWaits /\ Stopping
  BY DEF IndexerInv
<1>1. PICK src, data :
        /\ src \in {"Rpc", "Db"}
        /\ AtWorker(w, "fetch") /\ Fetched(w, src, data)
        /\ DOMAIN data = Span(wchunk[w])
        /\ src = "Db" => \A n \in DOMAIN data : data[n] = db[n]
  <2>1. CASE FetchFromDb(w)
    <3> DEFINE data == [n \in FoundRows(wchunk[w]) |-> db[n]]
    <3>1. FoundRows(wchunk[w]) = Span(wchunk[w])
      BY <2>1 DEF FetchFromDb, AllStored, FoundRows
    <3>2. DOMAIN data = Span(wchunk[w]) /\ \A n \in DOMAIN data : data[n] = db[n]
      BY <3>1
    <3>3. AtWorker(w, "fetch") /\ Fetched(w, "Db", data)
      BY <2>1 DEF FetchFromDb
    <3> HIDE DEF data
    <3>4. QED
      BY <3>2, <3>3
  <2>2. CASE FetchFromRpc(w)
    <3>1. PICK content : Fetched(w, "Rpc", [n \in Span(wchunk[w]) |-> content])
      BY <2>2 DEF FetchFromRpc
    <3> DEFINE data == [n \in Span(wchunk[w]) |-> content]
    <3>2. DOMAIN data = Span(wchunk[w]) /\ Fetched(w, "Rpc", data) /\ AtWorker(w, "fetch")
      BY <2>2, <3>1 DEF FetchFromRpc, AskRpc
    <3> HIDE DEF data
    <3>3. QED
      BY <3>2
  <2>3. QED
    BY <2>1, <2>2
<1>2. /\ UNCHANGED <<range, iter, parser, channel, hpc, hchunk, next, buffer, executed, db>>
      /\ wpc[w] = "fetch" /\ wpc'[w] = "send"
      /\ \A v \in Workers : v # w => wpc'[v] = wpc[v] /\ wchunk'[v] = wchunk[v]
      /\ wchunk[w] \in Chunk \cup {NoChunk}
      /\ wchunk'[w] = [wchunk[w] EXCEPT !.src = src, !.data = data]
  BY <1>0, <1>1 DEF Fetched, AtWorker, TypeOK
<1>3. /\ wchunk'[w].first = wchunk[w].first /\ wchunk'[w].last = wchunk[w].last
      /\ wchunk'[w].src = src /\ wchunk'[w].data = data
  BY <1>2 DEF Chunk, NoChunk
<1>4. Owned' = Owned /\ InHand' = InHand /\ \A v \in Workers : Busy(v)' <=> Busy(v)
  BY <1>2 DEF Owned, InHand, Busy
<1>5. Busy(w) /\ Ahead(wchunk[w])
  BY <1>0, <1>2 DEF Busy, InFlight
<1>6. InFlight'
  <2>1. \A v \in Workers : Busy(v)' => /\ wchunk'[v].first \in Nat /\ wchunk'[v].last \in Nat
                                       /\ Ahead(wchunk[v])'
    BY <1>0, <1>2, <1>3, <1>4 DEF InFlight, Ahead
  <2>2. ASSUME NEW v \in Workers, wpc'[v] = "send" PROVE Filled(wchunk[v])'
    <3>1. CASE v = w
      <4>1. wchunk'[w] \in Chunk
        <5>1. wchunk'[w] \in Chunk \cup {NoChunk}
          BY DEF TypeOK
        <5>2. wchunk[w].first \in DOMAIN data
          BY <1>0, <1>1, <1>5 DEF Span, Ahead, InFlight
        <5>3. wchunk'[w] # NoChunk
          BY <1>3, <5>2 DEF NoChunk
        <5>4. QED
          BY <5>1, <5>3
      <4>2. QED
        BY <1>1, <1>2, <1>3, <1>5, <3>1, <4>1 DEF Filled, Ahead, Span
    <3>2. CASE v # w
      BY <1>0, <1>2, <2>2, <3>2 DEF InFlight, Filled, Ahead, Span
    <3>3. QED
      BY <3>1, <3>2
  <2>3. \A i \in DOMAIN channel' : Filled(channel[i])'
    BY <1>0, <1>2 DEF InFlight, Filled, Ahead, Span
  <2>4. \A d \in Owned' : Filled(d)'
    BY <1>0, <1>2, <1>4 DEF InFlight, Filled, Ahead, Span
  <2>5. QED
    BY <2>1, <2>2, <2>3, <2>4 DEF InFlight
<1>7. \A v \in Workers : wchunk'[v].first = wchunk[v].first /\ wchunk'[v].last = wchunk[v].last
  BY <1>2, <1>3
<1>8. AllApart'
  BY <1>0, <1>2, <1>4, <1>7 DEF AllApart, Apart
<1>9. NothingLost'
  <2>1. \A n : InChunk(n)' <=> InChunk(n)
    BY <1>2, <1>4, <1>7 DEF InChunk, Span
  <2>2. QED
    BY <1>0, <1>2, <2>1 DEF NothingLost
<1>10. InOrder' /\ BufferWaits' /\ Stopping'
  BY <1>0, <1>2 DEF InOrder, BufferWaits, Stopping
<1>11. QED
  BY <1>1, <1>2, <1>3, <1>6, <1>8, <1>9, <1>10 DEF FlowInv

(* A chunk goes into the channel. *)
LEMMA SendFlow == ASSUME IndexerInv, NEW w \in Workers, Send(w) PROVE FlowInv'
<1> USE DEF fetchVars, handlerVars
<1> DEFINE c == wchunk[w]
<1>0. TypeOK /\ InFlight /\ AllApart /\ NothingLost /\ InOrder /\ BufferWaits /\ Stopping
  BY DEF IndexerInv
<1>1. /\ UNCHANGED <<range, iter, parser, hpc, hchunk, next, buffer, executed>>
      /\ wpc[w] = "send" /\ wpc'[w] = "take" /\ wchunk'[w] = NoChunk /\ hpc # "ok"
      /\ \A v \in Workers : v # w => wpc'[v] = wpc[v] /\ wchunk'[v] = wchunk[v]
  BY <1>0 DEF Send, TypeOK, AtWorker, ReceiverGone
<1>2. Busy(w) /\ Filled(c) /\ c \in Chunk /\ channel \in Seq(Chunk)
  BY <1>0, <1>1 DEF InFlight, Busy, Filled, TypeOK
<1>3. /\ DOMAIN channel = 1..Len(channel) /\ Len(channel) \in Nat
      /\ DOMAIN channel' = 1..(Len(channel) + 1)
      /\ channel'[Len(channel) + 1] = c
      /\ \A i \in DOMAIN channel : channel'[i] = channel[i]
  BY <1>2 DEF Send
<1>4. \A i \in DOMAIN channel' : i \in DOMAIN channel \/ (i = Len(channel) + 1 /\ i \notin DOMAIN channel)
  BY <1>3
<1>5. /\ Owned' = Owned /\ InHand' = InHand
      /\ \A v \in Workers : Busy(v)' <=> Busy(v) /\ v # w
  BY <1>1, <1>2 DEF Owned, InHand, Busy
<1>6. InFlight'
  <2>1. \A d : Filled(d) => /\ d \in Chunk /\ DOMAIN d.data = d.first..d.last /\ next' <= d.first
                            /\ d.first <= d.last /\ d.last < iter' /\ d.last <= range'[2]
    BY <1>1 DEF Filled, Ahead, Span
  <2>2. \A i \in DOMAIN channel' : Filled(channel[i])'
    BY <1>0, <1>2, <1>3, <1>4, <2>1 DEF InFlight, Filled, Ahead, Span
  <2>3. QED
    BY <1>0, <1>1, <1>5, <2>2 DEF InFlight, Filled, Ahead, Span
<1>7. AllApart'
  <2>1. /\ \A i \in DOMAIN channel : Apart(c, channel[i]) /\ Apart(channel[i], c)
        /\ \A d \in Owned : Apart(c, d)
        /\ \A v \in Workers : Busy(v) /\ v # w => Apart(wchunk[v], c)
    BY <1>0, <1>2 DEF AllApart, Apart
  <2>2. \A i, j \in DOMAIN channel' : i # j => Apart(channel'[i], channel'[j])
    BY <1>0, <1>3, <1>4, <2>1 DEF AllApart
  <2>3. \A v \in Workers : Busy(v)' => \A i \in DOMAIN channel' : Apart(wchunk'[v], channel'[i])
    BY <1>0, <1>1, <1>3, <1>4, <1>5, <2>1 DEF AllApart
  <2>4. \A i \in DOMAIN channel' : \A d \in Owned : Apart(channel'[i], d)
    BY <1>0, <1>3, <1>4, <2>1 DEF AllApart
  <2>5. QED
    BY <1>0, <1>1, <1>5, <2>2, <2>3, <2>4 DEF AllApart, Apart
<1>8. NothingLost'
  <2>1. ASSUME NEW n, InChunk(n) PROVE InChunk(n)'
    <3>1. CASE n \in Span(c)
      BY <1>3, <3>1 DEF InChunk, Span
    <3>2. CASE \E v \in Workers : v # w /\ Busy(v) /\ n \in Span(wchunk[v])
      BY <1>1, <1>5, <3>2 DEF InChunk, Span
    <3>3. CASE \E i \in DOMAIN channel : n \in Span(channel[i])
      BY <1>3, <3>3 DEF InChunk, Span
    <3>4. CASE \E d \in Owned : n \in Span(d)
      BY <1>5, <3>4 DEF InChunk, Span
    <3>5. QED
      BY <2>1, <3>1, <3>2, <3>3, <3>4 DEF InChunk
  <2>2. QED
    BY <1>0, <1>1, <2>1 DEF NothingLost
<1>9. InOrder' /\ BufferWaits'
  BY <1>0, <1>1 DEF InOrder, BufferWaits
<1>10. Stopping'
  BY <1>0, <1>1 DEF Stopping
<1>11. QED
  BY <1>6, <1>7, <1>8, <1>9, <1>10 DEF FlowInv

(* The first failure, or the end of the last worker, ends the task. *)
LEMMA ParserFlow == ASSUME IndexerInv, ParserReturns PROVE FlowInv'
<1> USE DEF fetchVars, handlerVars
<1>0. InFlight /\ AllApart /\ NothingLost /\ InOrder /\ BufferWaits /\ Stopping
  BY DEF IndexerInv
<1>1. /\ UNCHANGED <<range, iter, wpc, wchunk, channel, hpc, hchunk, next, buffer, executed>>
      /\ parser = "running"
      /\ parser' = "err" \/ (parser' = "ok" /\ \A w \in Workers : wpc[w] = "done")
  BY DEF ParserReturns
<1>2. Owned' = Owned /\ InHand' = InHand /\ \A v \in Workers : Busy(v)' <=> Busy(v)
  BY <1>1 DEF Owned, InHand, Busy
<1>3. InFlight' /\ AllApart'
  BY <1>0, <1>1, <1>2 DEF InFlight, AllApart, Filled, Ahead, Span, Apart
<1>4. NothingLost'
  BY <1>0, <1>1, <1>2 DEF NothingLost, InChunk, Span
<1>5. InOrder' /\ BufferWaits' /\ Stopping'
  BY <1>0, <1>1 DEF InOrder, BufferWaits, Stopping
<1>6. QED
  BY <1>3, <1>4, <1>5 DEF FlowInv

(* The handler takes a chunk from the channel. *)
LEMMA RecvFlow == ASSUME IndexerInv, Recv PROVE FlowInv'
<1> USE DEF fetchVars, handlerVars
<1> DEFINE c == Head(channel)
<1>0. TypeOK /\ InFlight /\ AllApart /\ NothingLost /\ InOrder /\ BufferWaits /\ Stopping
  BY DEF IndexerInv
<1>1. /\ UNCHANGED <<range, iter, wpc, wchunk, parser, next, buffer, executed>>
      /\ hpc = "recv" /\ hpc' \in {"persist", "place"} /\ hchunk' = c
      /\ channel # <<>> /\ channel \in Seq(Chunk) /\ channel' = Tail(channel)
  BY <1>0 DEF Recv, TypeOK, AtHandler
<1>2. /\ Len(channel) \in Nat \ {0} /\ DOMAIN channel = 1..Len(channel) /\ c = channel[1]
      /\ DOMAIN channel' = 1..(Len(channel) - 1)
      /\ \A i \in DOMAIN channel' : channel'[i] = channel[i + 1]
  BY <1>1
<1>3. \A i \in DOMAIN channel' : i + 1 \in DOMAIN channel /\ i + 1 # 1
  BY <1>2
<1>a. /\ \A i, j \in DOMAIN channel' : i # j => i + 1 # j + 1
      /\ 1 \in DOMAIN channel
  BY <1>2
<1>4. /\ Owned = buffer /\ Owned' = buffer \cup {c} /\ InHand' = TRUE
      /\ \A v \in Workers : Busy(v)' <=> Busy(v)
  BY <1>1 DEF Owned, InHand, Busy
<1>5. Filled(c)
  BY <1>0, <1>2, <1>a DEF InFlight
<1>6. InFlight'
  <2>1. \A i \in DOMAIN channel' : Filled(channel[i])'
    BY <1>0, <1>1, <1>2, <1>3 DEF InFlight, Filled, Ahead, Span
  <2>2. \A d \in Owned' : Filled(d)'
    BY <1>0, <1>1, <1>4, <1>5 DEF InFlight, Filled, Ahead, Span
  <2>3. QED
    BY <1>0, <1>1, <1>4, <2>1, <2>2 DEF InFlight, Filled, Ahead, Span
<1>7. AllApart'
  <2>1. /\ \A d \in buffer : Apart(c, d) /\ Apart(d, c)
        /\ \A i \in DOMAIN channel' : Apart(channel'[i], c)
        /\ \A v \in Workers : Busy(v) => Apart(wchunk[v], c)
    BY <1>0, <1>2, <1>3, <1>a, <1>4 DEF AllApart, Apart
  <2>2. c \notin buffer
    BY <2>1, <1>5, FilledFacts DEF Apart, Filled, Ahead
  <2>3. \A i, j \in DOMAIN channel' : i # j => Apart(channel'[i], channel'[j])
    BY <1>0, <1>2, <1>3, <1>a DEF AllApart
  <2>4. \A d, e \in Owned' : d # e => Apart(d, e)
    BY <1>0, <1>4, <2>1 DEF AllApart
  <2>5. \A v \in Workers : Busy(v) => /\ \A i \in DOMAIN channel' : Apart(wchunk[v], channel'[i])
                                      /\ \A d \in Owned' : Apart(wchunk[v], d)
    BY <1>0, <1>2, <1>3, <1>4, <2>1 DEF AllApart
  <2>6. \A i \in DOMAIN channel' : \A d \in Owned' : Apart(channel'[i], d)
    BY <1>0, <1>2, <1>3, <1>4, <2>1 DEF AllApart
  <2>7. QED
    BY <1>0, <1>1, <1>4, <2>2, <2>3, <2>4, <2>5, <2>6 DEF AllApart, Apart
<1>8. NothingLost'
  <2>1. ASSUME NEW n, InChunk(n) PROVE InChunk(n)'
    <3>1. CASE \E v \in Workers : Busy(v) /\ n \in Span(wchunk[v])
      BY <1>1, <1>4, <3>1 DEF InChunk, Span
    <3>2. ASSUME NEW i \in DOMAIN channel, n \in Span(channel[i]) PROVE InChunk(n)'
      <4>1. CASE i = 1
        BY <1>2, <1>4, <3>2, <4>1 DEF InChunk, Span
      <4>2. CASE i # 1
        <5>1. i - 1 \in DOMAIN channel' /\ channel'[i - 1] = channel[i]
          BY <1>2, <4>2
        <5>2. QED
          BY <3>2, <5>1 DEF InChunk, Span
      <4>3. QED
        BY <4>1, <4>2
    <3>3. CASE \E d \in Owned : n \in Span(d)
      BY <1>4, <3>3 DEF InChunk, Span
    <3>4. QED
      BY <2>1, <3>1, <3>2, <3>3 DEF InChunk
  <2>2. QED
    BY <1>0, <1>1, <2>1 DEF NothingLost
<1>9. InOrder' /\ BufferWaits' /\ Stopping'
  BY <1>0, <1>1 DEF InOrder, BufferWaits, Stopping
<1>10. QED
  BY <1>6, <1>7, <1>8, <1>9 DEF FlowInv

(* The handler ends, well or badly; its tasks see it in hpc alone. *)
LEMMA HandlerEndsFlow == ASSUME IndexerInv, RecvNone \/ PersistFails \/ ExecuteFails PROVE FlowInv'
<1> USE DEF fetchVars, handlerVars
<1>0. InFlight /\ AllApart /\ NothingLost /\ InOrder /\ BufferWaits /\ Stopping
  BY DEF IndexerInv
<1>1. /\ UNCHANGED <<range, iter, wpc, wchunk, parser, channel, hchunk, next, buffer, executed>>
      /\ \/ hpc = "recv" /\ hpc' = "ok" /\ channel = <<>> /\ parser # "running"
         \/ hpc \in {"persist", "exec"} /\ hpc' = "err"
  BY DEF RecvNone, SendersGone, PersistFails, ExecuteFails, AtHandler
<1>2. /\ Owned' \subseteq Owned /\ InHand' = FALSE /\ \A v \in Workers : Busy(v)' <=> Busy(v)
      /\ hpc' = "ok" => Owned' = Owned
  BY <1>1 DEF Owned, InHand, Busy
<1>3. InFlight' /\ AllApart'
  BY <1>0, <1>1, <1>2 DEF InFlight, AllApart, Filled, Ahead, Span, Apart
<1>4. NothingLost'
  BY <1>0, <1>1, <1>2 DEF NothingLost, InChunk, Span
<1>5. InOrder' /\ BufferWaits' /\ Stopping'
  BY <1>0, <1>1 DEF InOrder, BufferWaits, Stopping
<1>6. QED
  BY <1>3, <1>4, <1>5 DEF FlowInv

(* The chunk in hand is stored, or turns out to be the next one. *)
LEMMA InHandFlow == ASSUME IndexerInv, Persist \/ PlaceNext PROVE FlowInv'
<1> USE DEF fetchVars, handlerVars
<1>0. InFlight /\ AllApart /\ NothingLost /\ InOrder /\ BufferWaits /\ Stopping
  BY DEF IndexerInv
<1>1. /\ UNCHANGED <<range, iter, wpc, wchunk, parser, channel, hchunk, next, buffer, executed>>
      /\ \/ hpc = "persist" /\ hpc' = "place"
         \/ hpc = "place" /\ hpc' = "exec" /\ IsNext(hchunk)
  BY DEF Persist, PlaceNext, AtHandler
<1>2. Owned' = Owned /\ InHand /\ InHand' /\ \A v \in Workers : Busy(v)' <=> Busy(v)
  BY <1>1 DEF Owned, InHand, Busy
<1>3. Filled(hchunk)
  BY <1>0, <1>2 DEF InFlight, Owned
<1>4. InFlight' /\ AllApart'
  BY <1>0, <1>1, <1>2 DEF InFlight, AllApart, Filled, Ahead, Span, Apart
<1>5. NothingLost'
  BY <1>0, <1>1, <1>2 DEF NothingLost, InChunk, Span
<1>6. InOrder'
  <2>1. hpc' = "exec" => next = hchunk.first /\ hchunk.first <= hchunk.last + 1
    BY <1>1, <1>3, FilledFacts DEF IsNext, Filled, Ahead
  <2>2. hpc = "place" => next = range[1] + Len(executed)
    BY <1>0 DEF InOrder
  <2>3. next \in Nat
    BY DEF IndexerInv, TypeOK
  <2>4. QED
    BY <1>0, <1>1, <2>1, <2>2, <2>3 DEF InOrder
<1>7. BufferWaits' /\ Stopping'
  BY <1>0, <1>1 DEF BufferWaits, Stopping
<1>8. QED
  BY <1>4, <1>5, <1>6, <1>7 DEF FlowInv

(* A chunk that is not the next one is kept for later. *)
LEMMA PlaceLaterFlow == ASSUME IndexerInv, PlaceLater PROVE FlowInv'
<1> USE DEF fetchVars, handlerVars
<1>0. TypeOK /\ InFlight /\ AllApart /\ NothingLost /\ InOrder /\ BufferWaits /\ Stopping
  BY DEF IndexerInv
<1>1. /\ UNCHANGED <<range, iter, wpc, wchunk, parser, channel, next, executed>>
      /\ hpc = "place" /\ hpc' = "recv" /\ ~ IsNext(hchunk) /\ buffer' = buffer \cup {hchunk}
  BY DEF PlaceLater, AtHandler
<1>2. Owned' = Owned /\ hchunk \in Owned /\ InHand' = FALSE /\ \A v \in Workers : Busy(v)' <=> Busy(v)
  BY <1>1 DEF Owned, InHand, Busy
<1>3. hchunk.first # next
  BY <1>0, <1>1, <1>2, FilledFacts DEF InFlight, IsNext
<1>4. InFlight' /\ AllApart'
  BY <1>0, <1>1, <1>2 DEF InFlight, AllApart, Filled, Ahead, Span, Apart
<1>5. NothingLost'
  BY <1>0, <1>1, <1>2 DEF NothingLost, InChunk, Span
<1>6. InOrder' /\ Stopping'
  BY <1>0, <1>1 DEF InOrder, Stopping
<1>7. BufferWaits'
  BY <1>0, <1>1, <1>3 DEF BufferWaits
<1>8. QED
  BY <1>4, <1>5, <1>6, <1>7 DEF FlowInv

(* One block of the chunk is executed: the one that is due. *)
LEMMA ExecuteFlow ==
  ASSUME IndexerInv, ExecuteBlock
  PROVE  /\ FlowInv' /\ UNCHANGED <<wpc, wchunk, channel, hpc, hchunk, buffer, db, range>>
         /\ executed' = Append(executed, [number |-> range[1] + Len(executed),
                                          content |-> hchunk.data[range[1] + Len(executed)]])
         /\ range[1] + Len(executed) \in DOMAIN hchunk.data
<1> USE DEF fetchVars, handlerVars
<1> DEFINE n == range[1] + Len(executed)
           e == [number |-> n, content |-> hchunk.data[n]]
<1>0. TypeOK /\ InFlight /\ AllApart /\ NothingLost /\ InOrder /\ BufferWaits /\ Stopping
  BY DEF IndexerInv
<1>1. /\ UNCHANGED <<range, iter, wpc, wchunk, parser, channel, hpc, hchunk, next, buffer, db>>
      /\ hpc = "exec" /\ Todo # {}
      /\ executed' = Append(executed, [number |-> Min(Todo), content |-> hchunk.data[Min(Todo)]])
  BY DEF ExecuteBlock, AtHandler
<1>2. /\ Filled(hchunk) /\ executed' = Append(executed, e)
      /\ n \in DOMAIN hchunk.data /\ n <= hchunk.last /\ n \in Nat
  <2>1. Min(Todo) = n /\ n \in Todo /\ Todo = n..hchunk.last /\ Filled(hchunk)
    BY <1>1, TodoFacts
  <2>2. n \in DOMAIN hchunk.data
    BY <2>1 DEF Todo
  <2>3. QED
    BY <1>1, <2>1, <2>2, FilledFacts
<1>3. /\ Len(executed) \in Nat /\ DOMAIN executed = 1..Len(executed)
      /\ DOMAIN executed' = 1..(Len(executed) + 1) /\ Len(executed') = Len(executed) + 1
      /\ executed'[Len(executed) + 1] = e
      /\ \A i \in DOMAIN executed : executed'[i] = executed[i]
  <2>1. executed \in Seq([number : Blocks, content : Content])
    BY <1>0 DEF TypeOK
  <2> HIDE DEF e
  <2>2. QED
    BY <1>2, <2>1
<1>4. Owned' = Owned /\ InHand' = InHand /\ \A v \in Workers : Busy(v)' <=> Busy(v)
  BY <1>1 DEF Owned, InHand, Busy
<1>5. InFlight' /\ AllApart'
  BY <1>0, <1>1, <1>4 DEF InFlight, AllApart, Filled, Ahead, Span, Apart
<1>6. NothingLost'
  BY <1>0, <1>1, <1>4 DEF NothingLost, InChunk, Span
<1>7. InOrder'
  <2>1. ASSUME NEW i \in DOMAIN executed' PROVE executed'[i].number + 1 = range[1] + i
    <3>1. CASE i \in DOMAIN executed
      BY <1>0, <1>3, <3>1 DEF InOrder
    <3>2. CASE i = Len(executed) + 1
      <4>1. executed'[i].number = n
        BY <1>3, <3>2
      <4>2. n = range[1] + Len(executed) /\ range[1] \in Nat /\ Len(executed) \in Nat
        BY <1>0, <1>2, <1>3, RangeFacts
      <4>3. QED
        BY <3>2, <4>1, <4>2
    <3>3. QED
      BY <1>3, <3>1, <3>2
  <2>2. n + 1 = range[1] + Len(executed') /\ n + 1 <= hchunk.last + 1 /\ next <= n + 1
    <3>1. hchunk.last \in Nat /\ range[1] \in Nat /\ next \in Nat
      BY <1>0, <1>2, FilledFacts, RangeFacts DEF TypeOK
    <3>2. next <= n
      BY <1>0, <1>1 DEF InOrder
    <3>3. n <= hchunk.last /\ Len(executed) \in Nat /\ Len(executed') = Len(executed) + 1
      BY <1>2, <1>3
    <3> HIDE DEF e
    <3>4. QED
      BY <3>1, <3>2, <3>3
  <2>3. QED
    BY <1>0, <1>1, <2>1, <2>2 DEF InOrder
<1>8. BufferWaits' /\ Stopping'
  BY <1>0, <1>1 DEF BufferWaits, Stopping
<1>9. QED
  BY <1>1, <1>2, <1>5, <1>6, <1>7, <1>8 DEF FlowInv

(* All blocks of the chunk are executed: the one after them is next. *)
LEMMA ChunkDoneFlow == ASSUME IndexerInv, ChunkDone PROVE FlowInv'
<1> USE DEF fetchVars, handlerVars
<1>0. TypeOK /\ InFlight /\ AllApart /\ NothingLost /\ InOrder /\ BufferWaits /\ Stopping
  BY DEF IndexerInv
<1>1. /\ UNCHANGED <<range, iter, wpc, wchunk, parser, channel, buffer, executed>>
      /\ hpc = "exec" /\ hpc' = "drain" /\ Todo = {} /\ next' = After(hchunk)
  BY DEF ChunkDone, AtHandler
<1>2. /\ Filled(hchunk) /\ next' = hchunk.last + 1 /\ hchunk.first \in Nat /\ hchunk.last \in Nat
      /\ next = hchunk.first /\ hchunk.first <= hchunk.last /\ hchunk.last < iter
      /\ hchunk.last <= range[2]
      /\ hchunk \notin buffer /\ Owned = buffer \cup {hchunk} /\ Owned' = buffer
      /\ InHand' = FALSE
  <2>1. Filled(hchunk) /\ hchunk \notin buffer /\ Owned = buffer \cup {hchunk} /\ Owned' = buffer
        /\ InHand' = FALSE
    BY <1>0, <1>1 DEF InFlight, Owned, InHand, AllApart
  <2>2. QED
    BY <1>0, <1>1, <2>1, FilledFacts DEF After, Filled, Ahead, InOrder
<1>3. /\ \A v \in Workers : Busy(v)' <=> Busy(v)
      /\ iter \in Nat /\ range[1] \in Nat /\ range[2] \in Nat /\ Len(executed) \in Nat
  BY <1>0, <1>1, RangeFacts DEF Busy, TypeOK
<1>4. ASSUME NEW d, d.first \in Nat, d.last \in Nat, Ahead(d), Apart(d, hchunk) \/ Apart(hchunk, d)
      PROVE  next' <= d.first /\ Ahead(d)'
  <2>1. next' <= d.first
    BY <1>2, <1>4 DEF Ahead, Apart
  <2>2. QED
    BY <1>1, <1>4, <2>1 DEF Ahead
<1>5. InFlight'
  <2>1. \A d : Filled(d) /\ (Apart(d, hchunk) \/ Apart(hchunk, d)) => Filled(d)'
    BY <1>4, FilledFacts DEF Filled, Span
  <2>2. \A v \in Workers : Busy(v) => Apart(wchunk[v], hchunk)
    BY <1>0, <1>2 DEF AllApart
  <2>3. \A i \in DOMAIN channel : Apart(channel[i], hchunk)
    BY <1>0, <1>2 DEF AllApart
  <2>4. \A d \in buffer : Apart(d, hchunk)
    BY <1>0, <1>2 DEF AllApart
  <2>5. \A v \in Workers : Busy(v)' => wchunk'[v].first \in Nat /\ wchunk'[v].last \in Nat /\ Ahead(wchunk[v])'
    BY <1>0, <1>1, <1>3, <1>4, <2>2 DEF InFlight, Ahead
  <2>6. ASSUME NEW v \in Workers, wpc'[v] = "send" PROVE Filled(wchunk[v])'
    <3>1. Filled(wchunk[v]) /\ Busy(v)' /\ wchunk'[v] = wchunk[v]
      BY <1>0, <1>1, <2>6 DEF InFlight, Busy
    <3>2. QED
      BY <2>5, <3>1 DEF Filled, Span
  <2>7. ASSUME NEW i \in DOMAIN channel' PROVE Filled(channel[i])'
    <3>1. Filled(channel[i]) /\ Apart(channel[i], hchunk) /\ channel'[i] = channel[i]
      BY <1>0, <1>1, <2>3, <2>7 DEF InFlight
    <3>2. channel[i].first \in Nat /\ channel[i].last \in Nat /\ Ahead(channel[i])
      BY <3>1, FilledFacts DEF Filled
    <3>3. Ahead(channel[i])'
      BY <1>1, <1>4, <3>1, <3>2 DEF Ahead
    <3>4. QED
      BY <3>1, <3>3 DEF Filled, Span
  <2>8. \A d \in Owned' : Filled(d)'
    BY <1>0, <1>2, <2>1, <2>4 DEF InFlight
  <2>9. QED
    BY <2>5, <2>6, <2>7, <2>8 DEF InFlight
<1>6. AllApart'
  BY <1>0, <1>1, <1>2, <1>3 DEF AllApart, Apart
<1>7. NothingLost'
  <2>1. ASSUME NEW n \in Nat, next' <= n, InChunk(n) PROVE InChunk(n)'
    <3>1. n \notin Span(hchunk) /\ next <= n
      BY <1>2, <2>1 DEF Span
    <3>2. QED
      BY <1>1, <1>2, <1>3, <2>1, <3>1 DEF InChunk, Span
  <2>2. next \in Nat /\ next' \in Nat /\ next <= next'
    BY <1>0, <1>2 DEF TypeOK
  <2>3. QED
    BY <1>0, <1>1, <1>3, <2>1, <2>2 DEF NothingLost
<1>8. InOrder'
  <2>1. Todo = (range[1] + Len(executed))..hchunk.last
    BY <1>1, TodoFacts
  <2>2. range[1] + Len(executed) = hchunk.last + 1
    <3>1. (range[1] + Len(executed))..hchunk.last = {}
      BY <1>1, <2>1
    <3>2. range[1] + Len(executed) <= hchunk.last + 1
      BY <1>0, <1>1 DEF InOrder
    <3>3. range[1] \in Nat /\ Len(executed) \in Nat /\ hchunk.last \in Nat
      BY <1>0, <1>2, RangeFacts, LenProperties DEF TypeOK
    <3>4. QED
      BY <3>1, <3>2, <3>3
  <2>3. range[1] <= next' /\ next' <= iter /\ next' <= range[2] + 1
    BY <1>0, <1>2, <1>3 DEF InOrder
  <2>4. QED
    BY <1>0, <1>1, <1>2, <2>2, <2>3 DEF InOrder
<1>9. BufferWaits' /\ Stopping'
  BY <1>0, <1>1 DEF BufferWaits, Stopping
<1>10. QED
  BY <1>5, <1>6, <1>7, <1>8, <1>9 DEF FlowInv

(* The next chunk is taken out of the buffer. *)
LEMMA DrainNextFlow == ASSUME IndexerInv, DrainNext PROVE FlowInv'
<1> USE DEF fetchVars, handlerVars
<1>0. TypeOK /\ InFlight /\ AllApart /\ NothingLost /\ InOrder /\ BufferWaits /\ Stopping
  BY DEF IndexerInv
<1>1. /\ UNCHANGED <<range, iter, wpc, wchunk, parser, channel, next, executed>>
      /\ hpc = "drain" /\ hpc' = "exec" /\ hchunk' \in buffer /\ IsNext(hchunk')
      /\ buffer' = buffer \ {hchunk'}
  BY DEF DrainNext, AtHandler
<1>2. /\ Owned = buffer /\ Owned' = buffer /\ InHand' = TRUE
      /\ \A v \in Workers : Busy(v)' <=> Busy(v)
  BY <1>1 DEF Owned, InHand, Busy
<1>3. Filled(hchunk')
  BY <1>0, <1>1, <1>2 DEF InFlight
<1>4. InFlight' /\ AllApart'
  BY <1>0, <1>1, <1>2 DEF InFlight, AllApart, Filled, Ahead, Span, Apart
<1>5. NothingLost'
  BY <1>0, <1>1, <1>2 DEF NothingLost, InChunk, Span
<1>6. InOrder'
  <2>1. /\ next = hchunk'.first /\ hchunk'.first \in Nat /\ hchunk'.last \in Nat
        /\ hchunk'.first <= hchunk'.last
    BY <1>1, <1>3, FilledFacts DEF IsNext, Filled, Ahead
  <2>2. next = range[1] + Len(executed) /\ next <= hchunk'.last + 1 /\ next <= next
    BY <1>0, <1>1, <2>1 DEF InOrder
  <2>3. QED
    BY <1>0, <1>1, <2>1, <2>2 DEF InOrder
<1>7. BufferWaits' /\ Stopping'
  BY <1>0, <1>1 DEF BufferWaits, Stopping
<1>8. QED
  BY <1>4, <1>5, <1>6, <1>7 DEF FlowInv

(* The lowest chunk of the buffer is not the next one: no chunk of it is. *)
LEMMA DrainEndsFlow == ASSUME IndexerInv, DrainEnds PROVE FlowInv'
<1> USE DEF fetchVars, handlerVars
<1>0. TypeOK /\ InFlight /\ AllApart /\ NothingLost /\ InOrder /\ BufferWaits /\ Stopping
  BY DEF IndexerInv
<1>1. /\ UNCHANGED <<range, iter, wpc, wchunk, parser, channel, hchunk, next, buffer, executed>>
      /\ hpc = "drain" /\ hpc' = "recv"
      /\ \A c \in buffer : (\A d \in buffer : First(c) <= First(d)) => ~ IsNext(c)
  BY DEF DrainEnds, AtHandler
<1>2. Owned' = Owned /\ Owned = buffer /\ InHand' = FALSE /\ \A v \in Workers : Busy(v)' <=> Busy(v)
  BY <1>1 DEF Owned, InHand, Busy
<1>3. \A c \in buffer : First(c) = c.first /\ next <= c.first
  BY <1>0, <1>2, FilledFacts DEF InFlight, Filled, Ahead
<1>4. InFlight' /\ AllApart'
  BY <1>0, <1>1, <1>2 DEF InFlight, AllApart, Filled, Ahead, Span, Apart
<1>5. NothingLost'
  BY <1>0, <1>1, <1>2 DEF NothingLost, InChunk, Span
<1>6. InOrder' /\ Stopping'
  BY <1>0, <1>1 DEF InOrder, Stopping
<1>7. BufferWaits'
  BY <1>1, <1>3 DEF BufferWaits, IsNext
<1>8. QED
  BY <1>4, <1>5, <1>6, <1>7 DEF FlowInv

(* The end of a run leaves the chunks where they are. *)
LEMMA EndFlow == ASSUME IndexerInv, ExecReturns \/ Crash \/ UNCHANGED vars PROVE FlowInv'
<1>1. UNCHANGED <<range, iter, wpc, wchunk, parser, channel, hpc, hchunk, next, buffer, executed>>
  BY DEF ExecReturns, Crash, vars, fetchVars, handlerVars
<1>2. Owned' = Owned /\ InHand' = InHand /\ \A v \in Workers : Busy(v)' <=> Busy(v)
  BY <1>1 DEF Owned, InHand, Busy
<1>3. InFlight' /\ AllApart'
  BY <1>1, <1>2 DEF IndexerInv, InFlight, AllApart, Filled, Ahead, Span, Apart
<1>4. NothingLost'
  BY <1>1, <1>2 DEF IndexerInv, NothingLost, InChunk, Span
<1>5. InOrder' /\ BufferWaits' /\ Stopping'
  BY <1>1 DEF IndexerInv, InOrder, BufferWaits, Stopping
<1>6. QED
  BY <1>3, <1>4, <1>5 DEF FlowInv

(* The state of a run that has just started. *)
Fresh ==
  /\ range \in Ranges /\ iter = range[1] /\ next = range[1]
  /\ wpc = [w \in Workers |-> "take"]
  /\ channel = <<>> /\ parser = "running" /\ hpc = "recv" /\ buffer = {} /\ executed = <<>>

LEMMA FreshInv == Fresh => FlowInv /\ RowsKept
<1> SUFFICES ASSUME Fresh PROVE FlowInv /\ RowsKept
  OBVIOUS
<1>1. /\ \A w \in Workers : ~ Busy(w) /\ wpc[w] = "take"
      /\ Owned = {} /\ ~ InHand /\ hpc = "recv"
  BY DEF Fresh, Busy, Owned, InHand
<1>2. /\ range[1] \in Nat /\ range[2] \in Nat /\ range[1] < range[2]
      /\ iter = range[1] /\ next = range[1]
      /\ channel = <<>> /\ parser = "running" /\ buffer = {} /\ executed = <<>>
  BY RangesAssumption DEF Fresh
<1>3. InFlight /\ AllApart
  BY <1>1, <1>2 DEF InFlight, AllApart
<1>4. NothingLost
  BY <1>1, <1>2 DEF NothingLost
<1>5. InOrder /\ BufferWaits /\ Stopping
  BY <1>1, <1>2 DEF InOrder, BufferWaits, Stopping
<1>6. RowsKept
  BY <1>1, <1>2 DEF RowsKept
<1>7. QED
  BY <1>3, <1>4, <1>5, <1>6 DEF FlowInv

LEMMA FreshNext == Fresh' => FlowInv' /\ RowsKept'
BY FreshInv, PTL

(* Every step keeps the flow. *)
LEMMA FlowNext == ASSUME IndexerInv, TypeOK', [Next]_vars PROVE FlowInv'
<1>1. CASE \E w \in Workers : WorkerStep(w)
  BY <1>1, StopFlow, TakeFlow, FetchedFlow, SendFlow DEF WorkerStep
<1>2. CASE ParserReturns
  BY <1>2, ParserFlow
<1>3. CASE HandlerStep
  BY <1>3, RecvFlow, HandlerEndsFlow, InHandFlow, PlaceLaterFlow, ExecuteFlow, ChunkDoneFlow,
     DrainNextFlow, DrainEndsFlow DEF HandlerStep
<1>4. CASE ExecReturns \/ Crash \/ UNCHANGED vars
  BY <1>4, EndFlow
<1>5. CASE Rerun
  <2>1. Fresh'
    BY <1>5 DEF Rerun, Fresh
  <2>2. QED
    BY <2>1, FreshNext
<1>6. QED
  BY <1>1, <1>2, <1>3, <1>4, <1>5 DEF Next, Finished
-----------------------------------------------------------------------------
(* The rows in the database, step by step *)

(* What agrees with the database agrees with it as long as no row changes. *)
LEMMA StoredStays ==
  ASSUME NEW c \in Chunk, \A n \in DOMAIN c.data : c.data[n] = db[n],
         \A n \in Blocks : db[n] # "absent" => db'[n] = db[n]
  PROVE  \A n \in DOMAIN c.data : c.data[n] = db'[n]
<1>1. \A n \in DOMAIN c.data : n \in Blocks /\ c.data[n] \in Content
  BY DEF Chunk
<1>2. QED
  BY <1>1 DEF Content

(* The steps that neither fetch nor move nor store nor execute a chunk. *)
LEMMA RowsSame ==
  ASSUME RowsKept, UNCHANGED <<channel, executed, db>>, Owned' \subseteq Owned,
         hpc' = "persist" => UNCHANGED <<hpc, hchunk>>,
         hpc = "persist" => UNCHANGED <<hpc, hchunk>> \/ hchunk \notin Owned',
         \A w \in Workers : wpc'[w] = "send" => wpc[w] = "send" /\ wchunk'[w] = wchunk[w]
  PROVE  RowsKept'
<1>1. ASSUME NEW c \in Owned', c.src = "Db" \/ hpc' # "persist" \/ c # hchunk' PROVE AsStored(c)'
  <2>1. c.src = "Db" \/ hpc # "persist" \/ c # hchunk
    BY <1>1
  <2>2. AsStored(c)
    BY <1>1, <2>1 DEF RowsKept
  <2>3. QED
    BY <2>2 DEF AsStored
<1>2. QED
  BY <1>1 DEF RowsKept, AsStored

(* Rows read from the database are as stored. *)
LEMMA FetchedRows ==
  ASSUME IndexerInv, TypeOK', NEW w \in Workers, FetchFromDb(w) \/ FetchFromRpc(w) PROVE RowsKept'
<1>1. /\ UNCHANGED <<channel, hpc, hchunk, buffer, executed, db>>
      /\ \A v \in Workers : v # w => wpc'[v] = wpc[v] /\ wchunk'[v] = wchunk[v]
      /\ wchunk'[w].src = "Db" => \A n \in DOMAIN wchunk'[w].data : wchunk'[w].data[n] = db[n]
  BY FetchedFlow
<1>2. Owned' = Owned /\ RowsKept
  BY <1>1 DEF Owned, InHand, IndexerInv
<1>3. QED
  BY <1>1, <1>2 DEF RowsKept, AsStored

(* A chunk keeps its rows on its way through the channel, ... *)
LEMMA SendRows == ASSUME IndexerInv, NEW w \in Workers, Send(w) PROVE RowsKept'
<1>1. /\ UNCHANGED <<hpc, hchunk, buffer, executed, db>> /\ wpc[w] = "send"
      /\ channel' = Append(channel, wchunk[w])
      /\ wpc' = [wpc EXCEPT ![w] = "take"] /\ wchunk' = [wchunk EXCEPT ![w] = NoChunk]
  BY DEF Send, AtWorker, handlerVars
<1>2. Owned' = Owned /\ RowsKept /\ TypeOK /\ InFlight
  BY <1>1 DEF Owned, InHand, IndexerInv
<1>3. wchunk[w] \in Chunk /\ channel \in Seq(Chunk)
  BY <1>1, <1>2 DEF InFlight, Filled, TypeOK
<1>4. \A i \in DOMAIN channel' : \/ i \in DOMAIN channel /\ channel'[i] = channel[i]
                                 \/ channel'[i] = wchunk[w]
  BY <1>1, <1>3
<1>5. \A v \in Workers : wpc'[v] = "send" => wpc[v] = "send" /\ wchunk'[v] = wchunk[v]
  BY <1>1, <1>2 DEF TypeOK
<1>6. QED
  BY <1>1, <1>2, <1>4, <1>5 DEF RowsKept, AsStored

LEMMA RecvRows == ASSUME IndexerInv, Recv PROVE RowsKept'
<1>1. /\ UNCHANGED <<wpc, wchunk, buffer, executed, db>> /\ hpc = "recv" /\ channel # <<>>
      /\ channel' = Tail(channel) /\ hchunk' = Head(channel)
      /\ hpc' = IF Head(channel).src = "Rpc" THEN "persist" ELSE "place"
  BY DEF Recv, AtHandler, fetchVars
<1>2. RowsKept /\ channel \in Seq(Chunk) /\ Owned = buffer /\ Owned' = buffer \cup {hchunk'}
  BY <1>1 DEF Owned, InHand, IndexerInv, TypeOK
<1>3. /\ 1 \in DOMAIN channel /\ hchunk' = channel[1] /\ hchunk' \in Chunk
      /\ \A i \in DOMAIN channel' : i + 1 \in DOMAIN channel /\ channel'[i] = channel[i + 1]
  BY <1>1, <1>2
<1>4. hchunk'.src \in {"Rpc", "Db"}
  BY <1>3 DEF Chunk
<1>5. /\ hchunk'.src = "Db" => AsStored(hchunk')
      /\ hpc' = "persist" <=> hchunk'.src = "Rpc"
  BY <1>1, <1>2, <1>3, <1>4 DEF RowsKept
<1>6. \A c \in Owned' : (c.src = "Db" \/ hpc' # "persist" \/ c # hchunk') => AsStored(c)
  BY <1>1, <1>2, <1>4, <1>5 DEF RowsKept
<1>7. QED
  BY <1>1, <1>2, <1>3, <1>5, <1>6 DEF RowsKept, AsStored

(* ... is stored without changing a row that was there, ... *)
LEMMA PersistRows == ASSUME IndexerInv, Persist PROVE RowsKept'
<1>1. /\ UNCHANGED <<wpc, wchunk, channel, hchunk, buffer, executed>>
      /\ hpc = "persist" /\ hpc' = "place" /\ ~ Conflict(hchunk) /\ db' = Inserted(hchunk.data)
  BY DEF Persist, AtHandler, fetchVars, Rows
<1>2. /\ RowsKept /\ TypeOK /\ InFlight /\ Owned' = Owned /\ hchunk \in Owned
  BY <1>1 DEF Owned, InHand, IndexerInv
<1>3. hchunk \in Chunk /\ DOMAIN hchunk.data \subseteq Blocks
  BY <1>2 DEF InFlight, Filled, Chunk
<1>4. \A n \in Blocks : db[n] # "absent" => db'[n] = db[n]
  BY <1>1 DEF Conflict, Inserted
<1>5. \A n \in DOMAIN hchunk.data : hchunk.data[n] = db'[n]
  BY <1>1, <1>3 DEF Inserted
<1>6. \A w \in Workers : wpc[w] = "send" => wchunk[w] \in Chunk
  BY <1>2 DEF InFlight, Filled
<1>7. \A i \in DOMAIN channel : channel[i] \in Chunk
  BY <1>2 DEF InFlight, Filled
<1>8. \A c \in Owned : c \in Chunk
  BY <1>2 DEF InFlight, Filled
<1>9. \A w \in Workers : wpc[w] = "send" /\ wchunk[w].src = "Db" =>
        \A n \in DOMAIN wchunk[w].data : wchunk[w].data[n] = db'[n]
  BY <1>2, <1>4, <1>6, StoredStays DEF RowsKept, AsStored
<1>10. \A i \in DOMAIN channel : channel[i].src = "Db" =>
        \A n \in DOMAIN channel[i].data : channel[i].data[n] = db'[n]
  BY <1>2, <1>4, <1>7, StoredStays DEF RowsKept, AsStored
<1>11. \A c \in Owned : \A n \in DOMAIN c.data : c.data[n] = db'[n]
  BY <1>1, <1>2, <1>4, <1>5, <1>8, StoredStays DEF RowsKept, AsStored
<1>12. \A i \in DOMAIN executed : executed[i].number \in Blocks
  <2>1. executed \in Seq([number : Blocks, content : Content])
    BY <1>2 DEF TypeOK
  <2>2. \A i \in DOMAIN executed : executed[i] \in [number : Blocks, content : Content]
    <3>1. DOMAIN executed = 1..Len(executed)
      BY <2>1
    <3>2. QED
      BY <2>1, <3>1, ElementOfSeq
  <2>3. QED
    BY <2>2
<1>13. \A i \in DOMAIN executed : /\ executed[i].content = db'[executed[i].number]
                                 /\ db'[executed[i].number] # "absent"
  BY <1>2, <1>4, <1>12 DEF RowsKept
<1>14. QED
  BY <1>1, <1>2, <1>9, <1>10, <1>11, <1>13 DEF RowsKept, AsStored

(* ... and is executed with them. *)
LEMMA ExecuteRows == ASSUME IndexerInv, ExecuteBlock PROVE RowsKept'
<1> DEFINE n == range[1] + Len(executed)
           e == [number |-> n, content |-> hchunk.data[n]]
<1>1. /\ UNCHANGED <<wpc, wchunk, channel, hpc, hchunk, buffer, db>>
      /\ executed' = Append(executed, e) /\ n \in DOMAIN hchunk.data
  BY ExecuteFlow
<1>2. /\ RowsKept /\ TypeOK /\ InFlight /\ Owned' = Owned
      /\ hpc = "exec" /\ hchunk \in Owned
  BY <1>1 DEF Owned, InHand, IndexerInv, ExecuteBlock, AtHandler
<1>3. e.number = n /\ e.content = db[n] /\ db[n] # "absent"
  <2>1. hchunk \in Chunk /\ AsStored(hchunk)
    BY <1>2 DEF InFlight, Filled, RowsKept
  <2>2. hchunk.data[n] = db[n] /\ hchunk.data[n] \in Content
    BY <1>1, <2>1 DEF AsStored, Chunk
  <2>3. QED
    BY <2>2 DEF Content
<1>4. executed \in Seq([number : Blocks, content : Content])
  BY <1>2 DEF TypeOK
<1> HIDE DEF e
<1>5. \A i \in DOMAIN executed' : (i \in DOMAIN executed /\ executed'[i] = executed[i]) \/ executed'[i] = e
  BY <1>1, <1>4
<1>6. QED
  BY <1>1, <1>2, <1>3, <1>5 DEF RowsKept, AsStored

LEMMA RowsNext == ASSUME IndexerInv, TypeOK', [Next]_vars PROVE RowsKept'
<1> USE DEF fetchVars, handlerVars
<1>0. RowsKept /\ wpc \in [Workers -> {"take", "fetch", "send", "done", "failed", "aborted"}]
  BY DEF IndexerInv, TypeOK
<1>1. ASSUME NEW w \in Workers, WorkerStep(w) PROVE RowsKept'
  <2>1. CASE TakeChunk(w) \/ RangeExhausted(w) \/ FetchPanics(w) \/ FetchFails(w) \/ SendFails(w) \/ Abort(w)
    <3>1. /\ UNCHANGED <<channel, hpc, hchunk, buffer, executed, db>>
          /\ \A v \in Workers : wpc'[v] = "send" => wpc[v] = "send" /\ wchunk'[v] = wchunk[v]
      <4>1. CASE TakeChunk(w)
        <5>1. \A v \in Workers : wpc'[v] = "send" => v # w /\ wpc[v] = "send"
          BY <1>0, <4>1 DEF TakeChunk
        <5>2. \A v \in Workers : v # w => wchunk'[v] = wchunk[v]
          BY <4>1 DEF TakeChunk, IndexerInv, TypeOK
        <5>3. QED
          BY <4>1, <5>1, <5>2 DEF TakeChunk
      <4>2. CASE ~ TakeChunk(w)
        BY <1>0, <2>1, <4>2 DEF RangeExhausted, FetchPanics, FetchFails, SendFails, Abort
      <4>3. QED
        BY <4>1, <4>2
    <3>2. Owned' = Owned
      BY <3>1 DEF Owned, InHand
    <3>3. QED
      BY <1>0, <3>1, <3>2, RowsSame
  <2>2. QED
    BY <1>1, <2>1, FetchedRows, SendRows DEF WorkerStep
<1>2. CASE RecvNone \/ PersistFails \/ PlaceNext \/ PlaceLater \/ ExecuteFails \/ ChunkDone \/ DrainNext \/ DrainEnds
  <2>1. UNCHANGED <<wpc, wchunk, channel, executed, db>>
    BY <1>2 DEF RecvNone, PersistFails, PlaceNext, PlaceLater, ExecuteFails, ChunkDone, DrainNext, DrainEnds
  <2>2. hpc' # "persist" /\ Owned' \subseteq Owned /\ (hpc = "persist" => hchunk \notin Owned')
    <3>1. CASE PersistFails
      <4>1. hchunk \notin buffer /\ Owned' = buffer /\ buffer \subseteq Owned /\ hpc' = "err"
        BY <3>1 DEF PersistFails, AtHandler, Owned, InHand, IndexerInv, AllApart
      <4>2. QED
        BY <4>1
    <3>2. CASE RecvNone \/ PlaceNext \/ PlaceLater \/ ExecuteFails \/ ChunkDone \/ DrainNext \/ DrainEnds
      BY <3>2 DEF RecvNone, PlaceNext, PlaceLater, ExecuteFails, ChunkDone, DrainNext, DrainEnds,
                  AtHandler, Owned, InHand
    <3>3. QED
      BY <1>2, <3>1, <3>2
  <2>3. QED
    BY <1>0, <2>1, <2>2, RowsSame
<1>3. CASE HandlerStep
  BY <1>2, <1>3, RecvRows, PersistRows, ExecuteRows DEF HandlerStep
<1>4. CASE ParserReturns \/ ExecReturns \/ Crash \/ UNCHANGED vars
  <2>1. UNCHANGED <<wpc, wchunk, channel, hpc, hchunk, buffer, executed, db>>
    BY <1>4 DEF ParserReturns, ExecReturns, Crash, AfterCrash, vars
  <2>2. Owned' = Owned
    BY <2>1 DEF Owned, InHand
  <2>3. QED
    BY <1>0, <2>1, <2>2, RowsSame
<1>5. CASE Rerun
  <2>1. Fresh'
    BY <1>5 DEF Rerun, Fresh
  <2>2. QED
    BY <2>1, FreshNext
<1>6. QED
  BY <1>1, <1>3, <1>4, <1>5 DEF Next, Finished
-----------------------------------------------------------------------------
(* The invariant, and what follows from it *)

LEMMA IndexerStart == Init => IndexerInv
<1> SUFFICES ASSUME Init PROVE IndexerInv
  OBVIOUS
<1>1. TypeOK
  <2>1. range[1] \in Nat /\ db \in [Blocks -> Content \cup {"absent"}]
    BY RangesAssumption, StoredAssumption DEF Init
  <2>2. runs \in 1..MaxRuns
    BY SizesAssumption DEF Init
  <2>3. channel \in Seq(Chunk) /\ Len(channel) <= Capacity
    BY SizesAssumption DEF Init
  <2>4. executed \in Seq([number : Blocks, content : Content])
    BY DEF Init
  <2>5. QED
    BY <2>1, <2>2, <2>3, <2>4 DEF Init, TypeOK
<1>2. Fresh
  BY DEF Init, Fresh
<1>3. QED
  BY <1>1, <1>2, FreshInv DEF FlowInv, IndexerInv

LEMMA IndexerNext == ASSUME IndexerInv, [Next]_vars PROVE IndexerInv'
<1>1. TypeOK'
  BY WorkerType, HandlerType, OthersIndexerType DEF Next, IndexerInv, Finished
<1>2. FlowInv' /\ RowsKept'
  BY <1>1, FlowNext, RowsNext
<1>3. QED
  BY <1>1, <1>2 DEF FlowInv, IndexerInv

(* In every reachable state of the pipeline, whatever fails and however     *)
(* often the program was started, the chunks in flight are disjoint, lie    *)
(* ahead of the block expected next, cover what was taken from the iterator *)
(* unless a task failed, and agree with the database.                       *)
THEOREM IndexerInvariant == Spec => []IndexerInv
<1>1. Init => IndexerInv
  BY IndexerStart
<1>2. IndexerInv /\ [Next]_vars => IndexerInv'
  BY IndexerNext
<1>3. QED
  BY <1>1, <1>2, PTL DEF Spec

(* The variables of the pipeline keep their types; in particular the        *)
(* channel never holds more than its capacity.                              *)
THEOREM IndexerTypeCorrect == Spec => []TypeOK
<1>1. IndexerInv => TypeOK
  BY DEF IndexerInv
<1>2. QED
  BY <1>1, IndexerInvariant, PTL

(* A block is executed with exactly what the database holds for it, whether *)
(* it came from there or over rpc, also after failures and restarts.        *)
THEOREM ExecutesWhatIsStored == Spec => []ExecutedAsStored
<1>1. IndexerInv => ExecutedAsStored
  BY DEF IndexerInv, RowsKept, ExecutedAsStored
<1>2. QED
  BY <1>1, IndexerInvariant, PTL

-----------------------------------------------------------------------------
(* The indexer implements OrderedDelivery, and stores a row only once *)

(* What the strategy saw is a sequence as long as the list of blocks. *)
LEMMA DeliveredFacts ==
  ASSUME NEW s, s \in Seq([number : Blocks, content : Content])
  PROVE  /\ [i \in DOMAIN s |-> s[i].number] \in Seq(Nat)
         /\ Len([i \in DOMAIN s |-> s[i].number]) = Len(s)
         /\ \A i \in 1..Len(s) : [j \in DOMAIN s |-> s[j].number][i] = s[i].number
<1> DEFINE d == [i \in DOMAIN s |-> s[i].number]
<1>1. Len(s) \in Nat /\ DOMAIN s = 1..Len(s)
  BY LenProperties
<1>2. \A i \in 1..Len(s) : s[i] \in [number : Blocks, content : Content]
  BY ElementOfSeq
<1>3. \A i \in 1..Len(s) : s[i].number \in Nat
  BY <1>2, BlocksNat
<1>4. d \in [1..Len(s) -> Nat]
  BY <1>1, <1>3
<1>5. d \in Seq(Nat)
  BY <1>1, <1>4, SeqDef
<1>6. Len(d) = Len(s)
  BY <1>1, <1>4, <1>5, LenProperties
<1>7. QED
  BY <1>1, <1>5, <1>6

LEMMA DeliveredType ==
  ASSUME TypeOK PROVE deliveredBlocks \in Seq(Nat) /\ Len(deliveredBlocks) = Len(executed)
BY DeliveredFacts DEF TypeOK, deliveredBlocks

(* One more block executed is one more delivered. *)
LEMMA DeliveredAppend ==
  ASSUME TypeOK, NEW n \in Blocks, NEW content \in Content,
         executed' = Append(executed, [number |-> n, content |-> content])
  PROVE  deliveredBlocks' = Append(deliveredBlocks, n)
<1> DEFINE R == [number : Blocks, content : Content]
           e == [number |-> n, content |-> content]
<1>1. executed \in Seq(R) /\ e \in R /\ n \in Nat /\ e.number = n
  BY BlocksNat DEF TypeOK
<1> HIDE DEF e, R
<1>2. /\ executed' \in Seq(R) /\ Len(executed') = Len(executed) + 1 /\ Len(executed) \in Nat
      /\ \A i \in 1..Len(executed) : executed'[i] = executed[i]
      /\ executed'[Len(executed) + 1] = e
  BY <1>1, AppendProperties, LenProperties DEF e
<1>3. /\ deliveredBlocks \in Seq(Nat) /\ Len(deliveredBlocks) = Len(executed)
      /\ \A i \in 1..Len(executed) : deliveredBlocks[i] = executed[i].number
  BY <1>1, DeliveredFacts DEF deliveredBlocks, R
<1>4. /\ deliveredBlocks' \in Seq(Nat) /\ Len(deliveredBlocks') = Len(executed')
      /\ \A i \in 1..Len(executed') : deliveredBlocks'[i] = executed'[i].number
  <2>1. deliveredBlocks' = [i \in DOMAIN executed' |-> executed'[i].number]
    BY DEF deliveredBlocks
  <2>2. executed' \in Seq([number : Blocks, content : Content])
    BY <1>2 DEF R
  <2>3. QED
    BY <2>1, <2>2, DeliveredFacts
<1>5. /\ Append(deliveredBlocks, n) \in Seq(Nat)
      /\ Len(Append(deliveredBlocks, n)) = Len(executed) + 1
      /\ \A i \in 1..Len(executed) : Append(deliveredBlocks, n)[i] = deliveredBlocks[i]
      /\ Append(deliveredBlocks, n)[Len(executed) + 1] = n
  BY <1>1, <1>3, AppendProperties
<1>6. \A i \in 1..Len(executed') : deliveredBlocks'[i] = Append(deliveredBlocks, n)[i]
  <2>1. \A i \in 1..Len(executed') : i \in 1..Len(executed) \/ i = Len(executed) + 1
    BY <1>2
  <2>2. \A i \in 1..Len(executed) : i \in 1..Len(executed')
    BY <1>2
  <2>3. \A i \in 1..Len(executed) : deliveredBlocks'[i] = Append(deliveredBlocks, n)[i]
    BY <1>2, <1>3, <1>4, <1>5, <2>2
  <2>4. Len(executed) + 1 \in 1..Len(executed')
    BY <1>2
  <2>5. deliveredBlocks'[Len(executed) + 1] = n
    BY <1>1, <1>2, <1>4, <2>4
  <2>6. QED
    BY <1>5, <2>1, <2>3, <2>5
<1>7. QED
  BY <1>2, <1>4, <1>5, <1>6, SeqEqual

(* When both tasks succeed, the whole range was executed: the workers took  *)
(* every chunk, none is in the channel, and a chunk that is still buffered  *)
(* would leave the block before it in nobody's hands.                       *)
LEMMA AllDelivered ==
  ASSUME IndexerInv, hpc = "ok", parser = "ok"
  PROVE  range[1] + Len(executed) = range[2] + 1
<1>0. TypeOK /\ InFlight /\ NothingLost /\ InOrder /\ BufferWaits /\ Stopping
  BY DEF IndexerInv
<1>1. /\ \A w \in Workers : wpc[w] = "done" /\ ~ Busy(w)
      /\ iter > range[2] /\ channel = <<>> /\ Owned = buffer
  BY <1>0, WorkersAssumption DEF Stopping, Busy, Owned, InHand
<1>2. /\ next \in Nat /\ iter \in Nat /\ range[1] \in Nat /\ range[2] \in Nat /\ Len(executed) \in Nat
      /\ next = range[1] + Len(executed) /\ next <= range[2] + 1
  BY <1>0, RangeFacts DEF InOrder, TypeOK
<1>3. ASSUME next <= range[2] PROVE FALSE
  <2>1. InChunk(next)
    BY <1>0, <1>1, <1>2, <1>3 DEF NothingLost
  <2>2. PICK c \in buffer : next \in Span(c)
    BY <1>1, <2>1 DEF InChunk
  <2>3. c.first \in Nat /\ c.last \in Nat /\ next <= c.first
    BY <1>0, <1>1, FilledFacts DEF InFlight, Filled, Ahead
  <2>4. c.first = next
    BY <1>2, <2>2, <2>3 DEF Span
  <2>5. QED
    BY <1>0, <2>4 DEF BufferWaits
<1>4. QED
  BY <1>2, <1>3

(* Every step of the pipeline is a step of the delivery, or invisible. *)
LEMMA DeliveryStep ==
  IndexerInv /\ [Next]_vars => [Delivery!DeliveryNext]_(Delivery!deliveryVars)
<1> SUFFICES ASSUME IndexerInv, [Next]_vars
             PROVE  Delivery!DeliveryNext \/ UNCHANGED <<range, deliveredBlocks, deliveryStatus>>
  BY DEF Delivery!deliveryVars
<1> USE DEF fetchVars, handlerVars
<1>0. TypeOK
  BY DEF IndexerInv
<1>1. ASSUME UNCHANGED <<range, executed, result>>
      PROVE  UNCHANGED <<range, deliveredBlocks, deliveryStatus>>
  BY <1>1 DEF deliveredBlocks, deliveryStatus
<1>2. CASE \E w \in Workers : WorkerStep(w)
  <2>1. UNCHANGED <<range, executed, result>>
    BY <1>2 DEF WorkerStep, TakeChunk, RangeExhausted, FetchFromDb, FetchPanics, FetchFromRpc, FetchFails,
                Fetched, Send, SendFails, Abort
  <2>2. QED
    BY <1>1, <2>1
<1>3. CASE ExecuteBlock
  <2> DEFINE n == range[1] + Len(executed)
  <2>1. /\ range' = range /\ result = "none" /\ result' = "none"
        /\ hpc = "exec" /\ InFlight /\ hchunk \in Owned
        /\ executed' = Append(executed, [number |-> n, content |-> hchunk.data[n]])
        /\ n \in DOMAIN hchunk.data
    BY <1>3, ExecuteFlow DEF ExecuteBlock, AtHandler, Running, IndexerInv, Owned, InHand
  <2>2. Filled(hchunk) /\ hchunk \in Chunk
    BY <2>1 DEF InFlight, Filled
  <2>3. n \in Blocks /\ hchunk.data[n] \in Content
    BY <2>1, <2>2 DEF Chunk
  <2>4. n <= range[2]
    <3>1. hchunk.first \in Nat /\ hchunk.last \in Nat /\ n \in hchunk.first..hchunk.last
          /\ hchunk.last <= range[2] /\ range[2] \in Nat
      BY <1>0, <2>1, <2>2, FilledFacts, RangeFacts DEF Filled, Ahead
    <3>2. QED
      BY <3>1
  <2>5. deliveredBlocks' = Append(deliveredBlocks, n) /\ Len(deliveredBlocks) = Len(executed)
    BY <1>0, <2>1, <2>3, DeliveredAppend, DeliveredType
  <2>6. deliveryStatus = "running" /\ deliveryStatus' = "running"
    BY <2>1 DEF deliveryStatus
  <2>7. Delivery!Deliver
    BY <2>1, <2>4, <2>5, <2>6 DEF Delivery!Deliver, Delivery!NextBlock
  <2>8. QED
    BY <2>7 DEF Delivery!DeliveryNext
<1>4. CASE HandlerStep /\ ~ ExecuteBlock
  <2>1. UNCHANGED <<range, executed, result>>
    BY <1>4 DEF HandlerStep, Recv, RecvNone, Persist, PersistFails, PlaceNext, PlaceLater, ExecuteFails,
                ChunkDone, DrainNext, DrainEnds
  <2>2. QED
    BY <1>1, <2>1
<1>5. CASE ParserReturns \/ UNCHANGED vars
  <2>1. UNCHANGED <<range, executed, result>>
    BY <1>5 DEF ParserReturns, vars
  <2>2. QED
    BY <1>1, <2>1
<1>6. CASE ExecReturns
  <2>1. /\ UNCHANGED <<range, executed>> /\ result = "none"
        /\ \/ result' = "ok" /\ hpc = "ok" /\ parser = "ok"
           \/ result' = "err"
    BY <1>6 DEF ExecReturns, Running, BothOk
  <2>2. deliveryStatus = "running" /\ UNCHANGED <<range, deliveredBlocks>>
    BY <2>1 DEF deliveryStatus, deliveredBlocks
  <2>3. CASE result' = "ok" /\ hpc = "ok" /\ parser = "ok"
    <3>1. range[1] + Len(deliveredBlocks) = range[2] + 1
      BY <1>0, <2>3, AllDelivered, DeliveredType
    <3>2. deliveryStatus' = "ok"
      BY <2>3 DEF deliveryStatus
    <3>3. Delivery!Succeed
      BY <2>2, <3>1, <3>2 DEF Delivery!Succeed, Delivery!NextBlock
    <3>4. QED
      BY <3>3 DEF Delivery!DeliveryNext
  <2>4. CASE result' = "err"
    <3>1. deliveryStatus' = "failed"
      BY <2>4 DEF deliveryStatus
    <3>2. Delivery!Fail
      BY <2>2, <3>1 DEF Delivery!Fail
    <3>3. QED
      BY <3>2 DEF Delivery!DeliveryNext
  <2>5. QED
    BY <2>1, <2>3, <2>4
<1>7. CASE Crash
  <2>1. UNCHANGED <<range, deliveredBlocks>> /\ deliveryStatus = "running" /\ deliveryStatus' = "failed"
    BY <1>7 DEF Crash, Running, deliveryStatus, deliveredBlocks
  <2>2. Delivery!Fail
    BY <2>1 DEF Delivery!Fail
  <2>3. QED
    BY <2>2 DEF Delivery!DeliveryNext
<1>8. CASE Rerun
  <2>1. range' \in Ranges /\ executed' = <<>> /\ result # "none" /\ result' = "none"
    BY <1>8 DEF Rerun, Running
  <2>2. deliveredBlocks' = <<>>
    BY <2>1 DEF deliveredBlocks
  <2>3. deliveryStatus # "running" /\ deliveryStatus' = "running"
    BY <2>1 DEF deliveryStatus
  <2>4. Delivery!StartOver
    BY <2>1, <2>2, <2>3 DEF Delivery!StartOver
  <2>5. QED
    BY <2>4 DEF Delivery!DeliveryNext
<1>9. QED
  BY <1>2, <1>3, <1>4, <1>5, <1>6, <1>7, <1>8 DEF Next, Finished

LEMMA DeliveryStart == Init => Delivery!DeliveryInit
<1> SUFFICES ASSUME Init PROVE Delivery!DeliveryInit
  OBVIOUS
<1>1. range \in Ranges /\ executed = <<>> /\ result = "none"
  BY DEF Init
<1>2. deliveredBlocks = <<>> /\ deliveryStatus = "running"
  BY <1>1 DEF deliveredBlocks, deliveryStatus
<1>3. QED
  BY <1>1, <1>2 DEF Delivery!DeliveryInit

(* The pipeline implements in-order delivery: the strategy sees the blocks  *)
(* of the range in order, each once, and exec reports success only after    *)
(* the last of them, whichever worker is first and whatever fails.          *)
THEOREM DeliversInOrder == Spec => InOrderDelivery
<1>1. Spec => Delivery!DeliverySpec
  BY DeliveryStart, DeliveryStep, IndexerInvariant, PTL DEF Spec, Delivery!DeliverySpec
<1>2. QED
  BY <1>1 DEF InOrderDelivery
-----------------------------------------------------------------------------
(* Chunks of one range, stored whole *)

(* Chunk starts of one range are a whole chunk apart. *)
LEMMA GridApart ==
  ASSUME TypeOK, NEW m \in Nat, NEW n \in Nat, OnGrid(m), OnGrid(n), m < n
  PROVE  m + ChunkSize + 1 <= n
<1>1. PICK j \in Nat, k \in Nat : m = range[1] + j * (ChunkSize + 1) /\ n = range[1] + k * (ChunkSize + 1)
  BY DEF OnGrid
<1> DEFINE s == ChunkSize + 1
<1>2. s \in Nat /\ range[1] \in Nat /\ j * s \in Nat /\ k * s \in Nat
  BY RangeFacts, SizesAssumption
<1>3. m = range[1] + j * s /\ n = range[1] + k * s
  BY <1>1
<1> HIDE DEF s
<1>4. ASSUME k <= j PROVE k * s <= j * s
  BY <1>2, <1>4
<1>5. j + 1 <= k
  BY <1>2, <1>3, <1>4
<1>6. (j + 1) * s <= k * s /\ (j + 1) * s = j * s + s
  BY <1>2, <1>5
<1>7. j * s + s <= k * s
  BY <1>6
<1>8. m + s <= n
  BY <1>2, <1>3, <1>7
<1>9. QED
  BY <1>8, SizesAssumption DEF s

(* The start after a start. *)
LEMMA GridNext ==
  ASSUME TypeOK, NEW n \in Nat, OnGrid(n) PROVE OnGrid(n + ChunkSize + 1)
<1>1. PICK k \in 0..n : n = range[1] + k * (ChunkSize + 1)
  BY DEF OnGrid
<1> DEFINE s == ChunkSize + 1
<1>2. s \in Nat \ {0} /\ range[1] \in Nat /\ k \in Nat /\ k * s \in Nat /\ n = range[1] + k * s
  BY <1>1, RangeFacts, SizesAssumption
<1> HIDE DEF s
<1>3. (k + 1) * s = k * s + s
  BY <1>2
<1>4. n + s = range[1] + (k + 1) * s /\ k + 1 \in 0..(n + s)
  BY <1>1, <1>2, <1>3
<1>5. n + s = n + ChunkSize + 1
  BY SizesAssumption DEF s
<1>6. QED
  BY <1>4, <1>5 DEF OnGrid, s

(* Two cells are the same one, or apart. *)
LEMMA CellsApart ==
  ASSUME TypeOK, NEW m \in Nat, NEW n \in Nat, OnGrid(m), OnGrid(n), m <= range[2], n <= range[2]
  PROVE  m = n \/ ChunkEnd(m) < n \/ ChunkEnd(n) < m
<1>1. /\ ChunkEnd(m) < m + ChunkSize + 1 /\ ChunkEnd(n) < n + ChunkSize + 1
      /\ ChunkEnd(m) \in Nat /\ ChunkEnd(n) \in Nat
  BY ChunkEndFacts
<1>2. m < n => m + ChunkSize + 1 <= n
  BY GridApart
<1>3. n < m => n + ChunkSize + 1 <= m
  BY GridApart
<1>4. QED
  BY <1>1, <1>2, <1>3, SizesAssumption

(* The steps that neither take nor move nor store a chunk. *)
LEMMA CellsSame ==
  ASSUME CellsInv, UNCHANGED <<range, iter, channel, db>>,
         hpc' = "persist" => UNCHANGED <<hpc, hchunk>>,
         \A w \in Workers : /\ Busy(w)' => Busy(w) /\ wchunk'[w].first = wchunk[w].first
                                                  /\ wchunk'[w].last = wchunk[w].last
                            /\ wpc'[w] = "send" /\ wchunk'[w].src = "Rpc" => Unstored(wchunk[w])
  PROVE  CellsInv'
<1>1. \A n : OnGrid(n)' <=> OnGrid(n)
  BY DEF OnGrid
<1>2. \A n : ChunkEnd(n)' = ChunkEnd(n)
  BY DEF ChunkEnd
<1>3. WholeCells(db)'
  BY <1>1, <1>2 DEF CellsInv, WholeCells
<1>4. \A w \in Workers : Busy(w)' => Cell(wchunk[w])'
  BY <1>1, <1>2 DEF CellsInv, Cell
<1>5. \A w \in Workers : (wpc[w] = "send")' => Busy(w)'
  BY DEF Busy
<1>6. \A w \in Workers : (wpc[w] = "send" /\ wchunk[w].src = "Rpc")' => Unstored(wchunk[w])'
  BY <1>5 DEF Unstored, Span
<1>7. \A i \in DOMAIN channel' : Cell(channel[i])' /\ ((channel[i].src = "Rpc")' => Unstored(channel[i])')
  BY <1>1, <1>2 DEF CellsInv, Cell, Unstored, Span
<1>8. (hpc = "persist")' => Cell(hchunk)' /\ Unstored(hchunk)'
  BY <1>1, <1>2 DEF CellsInv, Cell, Unstored, Span
<1>9. OnGrid(iter)'
  BY <1>1 DEF CellsInv
<1>10. QED
  BY <1>3, <1>4, <1>6, <1>7, <1>8, <1>9 DEF CellsInv

(* The iterator yields the cells of the range. *)
LEMMA TakeCells == ASSUME IndexerInv, CellsInv, NEW w \in Workers, TakeChunk(w) PROVE CellsInv'
<1>0. TypeOK /\ iter \in Nat
  BY DEF IndexerInv, TypeOK
<1>1. /\ UNCHANGED <<range, channel, hpc, hchunk, db>>
      /\ wpc'[w] = "fetch" /\ wchunk'[w].first = iter /\ wchunk'[w].last = ChunkEnd(iter)
      /\ \A v \in Workers : v # w => wpc'[v] = wpc[v] /\ wchunk'[v] = wchunk[v]
      /\ iter' = iter + ChunkSize + 1
  BY <1>0 DEF TakeChunk, TypeOK, handlerVars
<1>2. \A n : (OnGrid(n)' <=> OnGrid(n)) /\ ChunkEnd(n)' = ChunkEnd(n)
  BY <1>1 DEF OnGrid, ChunkEnd
<1>3. OnGrid(iter)'
  BY <1>0, <1>1, <1>2, GridNext DEF CellsInv
<1>4. WholeCells(db)'
  BY <1>1, <1>2 DEF CellsInv, WholeCells
<1>5. ASSUME NEW v \in Workers, Busy(v)' PROVE Cell(wchunk[v])'
  <2>1. CASE v = w
    BY <1>1, <1>2, <2>1 DEF CellsInv, Cell
  <2>2. CASE v # w
    BY <1>1, <1>2, <1>5, <2>2 DEF CellsInv, Cell, Busy
  <2>3. QED
    BY <2>1, <2>2
<1>6. \A v \in Workers : (wpc[v] = "send" /\ wchunk[v].src = "Rpc")' => Unstored(wchunk[v])'
  BY <1>1 DEF CellsInv, Unstored, Span
<1>7. \A i \in DOMAIN channel' : Cell(channel[i])' /\ ((channel[i].src = "Rpc")' => Unstored(channel[i])')
  BY <1>1, <1>2 DEF CellsInv, Cell, Unstored, Span
<1>8. (hpc = "persist")' => Cell(hchunk)' /\ Unstored(hchunk)'
  BY <1>1, <1>2 DEF CellsInv, Cell, Unstored, Span
<1>9. QED
  BY <1>3, <1>4, <1>5, <1>6, <1>7, <1>8 DEF CellsInv

(* A chunk is fetched over rpc only when a row of it is missing: then all   *)
(* of them are.                                                             *)
LEMMA FetchedCells ==
  ASSUME IndexerInv, CellsInv, "dbRead" \notin Faults,
         NEW w \in Workers, FetchFromDb(w) \/ FetchFromRpc(w)
  PROVE  CellsInv'
<1>0. TypeOK /\ InFlight
  BY DEF IndexerInv
<1>1. PICK src, data :
        /\ src \in {"Rpc", "Db"}
        /\ AtWorker(w, "fetch") /\ Fetched(w, src, data)
        /\ src = "Rpc" => ~ AllStored(wchunk[w])
  BY DEF FetchFromDb, FetchFromRpc, AskRpc
<1>2. /\ UNCHANGED <<range, iter, channel, hpc, hchunk, db>>
      /\ wpc[w] = "fetch" /\ wpc'[w] = "send"
      /\ \A v \in Workers : v # w => wpc'[v] = wpc[v] /\ wchunk'[v] = wchunk[v]
      /\ wchunk[w] \in Chunk \cup {NoChunk}
      /\ wchunk'[w] = [wchunk[w] EXCEPT !.src = src, !.data = data]
  BY <1>0, <1>1 DEF Fetched, AtWorker, TypeOK, handlerVars
<1>3. /\ wchunk'[w].first = wchunk[w].first /\ wchunk'[w].last = wchunk[w].last
      /\ wchunk'[w].src = src
  BY <1>2 DEF Chunk, NoChunk
<1>4. Busy(w) /\ \A v \in Workers : Busy(v)' <=> Busy(v)
  BY <1>2 DEF Busy
<1>5. src = "Rpc" => Unstored(wchunk[w])
  <2>1. /\ Cell(wchunk[w]) /\ Ahead(wchunk[w])
        /\ wchunk[w].first \in Nat /\ wchunk[w].last \in Nat
    BY <1>0, <1>4 DEF CellsInv, InFlight
  <2>2. wchunk[w].first \in {n \in range[1]..range[2] : OnGrid(n)}
    <3>1. range[1] <= next /\ next <= wchunk[w].first /\ wchunk[w].first <= range[2]
      BY <1>0, <2>1, RangeFacts DEF IndexerInv, InOrder, Ahead
    <3>2. next \in Nat
      BY <1>0 DEF TypeOK
    <3>3. QED
      BY <1>0, <2>1, <3>1, <3>2, RangeFacts DEF Cell
  <2>3. \/ \A n \in Span(wchunk[w]) : db[n] # "absent"
        \/ \A n \in Span(wchunk[w]) : db[n] = "absent"
    BY <2>1, <2>2 DEF CellsInv, WholeCells, Cell, Span
  <2>4. QED
    BY <1>1, <2>3 DEF AllStored, Unstored
<1>6. \A v \in Workers : wpc'[v] = "send" /\ wchunk'[v].src = "Rpc" => Unstored(wchunk[v])
  BY <1>2, <1>3, <1>5 DEF CellsInv
<1>7. \A v \in Workers : Busy(v)' => Busy(v) /\ wchunk'[v].first = wchunk[v].first
                                            /\ wchunk'[v].last = wchunk[v].last
  BY <1>2, <1>3, <1>4
<1>8. QED
  BY <1>2, <1>6, <1>7, CellsSame

LEMMA SendCells == ASSUME IndexerInv, CellsInv, NEW w \in Workers, Send(w) PROVE CellsInv'
<1>1. /\ UNCHANGED <<range, iter, hpc, hchunk, db>> /\ wpc[w] = "send"
      /\ channel' = Append(channel, wchunk[w])
      /\ wpc' = [wpc EXCEPT ![w] = "take"] /\ wchunk' = [wchunk EXCEPT ![w] = NoChunk]
  BY DEF Send, AtWorker, handlerVars
<1>2. /\ TypeOK /\ InFlight /\ wpc \in [Workers -> {"take", "fetch", "send", "done", "failed", "aborted"}]
      /\ wchunk \in [Workers -> Chunk \cup {NoChunk}]
  BY DEF IndexerInv, TypeOK
<1>3. wchunk[w] \in Chunk /\ channel \in Seq(Chunk)
  BY <1>1, <1>2 DEF InFlight, Filled, TypeOK
<1>4. \A i \in DOMAIN channel' : \/ i \in DOMAIN channel /\ channel'[i] = channel[i]
                                 \/ channel'[i] = wchunk[w]
  BY <1>1, <1>3
<1>5. \A n : (OnGrid(n)' <=> OnGrid(n)) /\ ChunkEnd(n)' = ChunkEnd(n)
  BY <1>1 DEF OnGrid, ChunkEnd
<1>6. OnGrid(iter)' /\ WholeCells(db)'
  BY <1>1, <1>5 DEF CellsInv, WholeCells
<1>7. \A v \in Workers : wpc'[v] \in {"fetch", "send"} => wpc'[v] = wpc[v] /\ wchunk'[v] = wchunk[v]
  BY <1>1, <1>2
<1>8. \A v \in Workers : Busy(v)' => Cell(wchunk[v])'
  BY <1>5, <1>7 DEF CellsInv, Cell, Busy
<1>9. \A v \in Workers : (wpc[v] = "send" /\ wchunk[v].src = "Rpc")' => Unstored(wchunk[v])'
  BY <1>1, <1>7 DEF CellsInv, Unstored, Span
<1>10. \A i \in DOMAIN channel' : Cell(channel[i])' /\ ((channel[i].src = "Rpc")' => Unstored(channel[i])')
  <2>1. Cell(wchunk[w]) /\ (wchunk[w].src = "Rpc" => Unstored(wchunk[w]))
    BY <1>1 DEF CellsInv, Busy
  <2>2. QED
    BY <1>1, <1>4, <1>5, <2>1 DEF CellsInv, Cell, Unstored, Span
<1>11. (hpc = "persist")' => Cell(hchunk)' /\ Unstored(hchunk)'
  BY <1>1, <1>5 DEF CellsInv, Cell, Unstored, Span
<1>12. QED
  BY <1>6, <1>8, <1>9, <1>10, <1>11 DEF CellsInv

LEMMA RecvCells == ASSUME IndexerInv, CellsInv, Recv PROVE CellsInv'
<1>1. /\ UNCHANGED <<range, iter, wpc, wchunk, db>> /\ channel # <<>>
      /\ channel' = Tail(channel) /\ hchunk' = Head(channel)
      /\ hpc' = IF Head(channel).src = "Rpc" THEN "persist" ELSE "place"
  BY DEF Recv, AtHandler, fetchVars
<1>2. channel \in Seq(Chunk)
  BY DEF IndexerInv, TypeOK
<1>3. /\ 1 \in DOMAIN channel /\ hchunk' = channel[1]
      /\ \A i \in DOMAIN channel' : i + 1 \in DOMAIN channel /\ channel'[i] = channel[i + 1]
  BY <1>1, <1>2
<1>4. \A n : (OnGrid(n)' <=> OnGrid(n)) /\ ChunkEnd(n)' = ChunkEnd(n)
  BY <1>1 DEF OnGrid, ChunkEnd
<1>5. OnGrid(iter)' /\ WholeCells(db)'
  BY <1>1, <1>4 DEF CellsInv, WholeCells
<1>6. \A v \in Workers : Busy(v)' => Cell(wchunk[v])'
  BY <1>1, <1>4 DEF CellsInv, Cell, Busy
<1>7. \A v \in Workers : (wpc[v] = "send" /\ wchunk[v].src = "Rpc")' => Unstored(wchunk[v])'
  BY <1>1 DEF CellsInv, Unstored, Span
<1>8. \A i \in DOMAIN channel' : Cell(channel[i])' /\ ((channel[i].src = "Rpc")' => Unstored(channel[i])')
  BY <1>1, <1>3, <1>4 DEF CellsInv, Cell, Unstored, Span
<1>9. (hpc = "persist")' => Cell(hchunk)' /\ Unstored(hchunk)'
  BY <1>1, <1>3, <1>4 DEF CellsInv, Cell, Unstored, Span
<1>10. QED
  BY <1>5, <1>6, <1>7, <1>8, <1>9 DEF CellsInv

(* Storing a chunk fills its cell, and no other. *)
LEMMA PersistCells == ASSUME IndexerInv, CellsInv, Persist PROVE CellsInv'
<1>0. TypeOK /\ InFlight /\ AllApart
  BY DEF IndexerInv
<1>1. /\ UNCHANGED <<range, iter, wpc, wchunk, channel, hchunk>>
      /\ hpc = "persist" /\ hpc' = "place" /\ db' = Inserted(hchunk.data)
  BY DEF Persist, AtHandler, fetchVars, Rows
<1>2. /\ Filled(hchunk) /\ hchunk \in Owned
  BY <1>0, <1>1 DEF Owned, InHand, InFlight
<1>3. /\ hchunk \in Chunk /\ hchunk.first \in Nat /\ hchunk.last \in Nat
      /\ DOMAIN hchunk.data = hchunk.first..hchunk.last /\ Cell(hchunk)
      /\ hchunk.first <= hchunk.last /\ hchunk.last <= range[2]
  BY <1>1, <1>2, FilledFacts DEF CellsInv, Filled, Ahead
<1>4. /\ \A n \in Blocks : n \notin DOMAIN hchunk.data => db'[n] = db[n]
      /\ \A n \in DOMAIN hchunk.data : db'[n] # "absent"
  <2>1. \A n \in DOMAIN hchunk.data : n \in Blocks /\ hchunk.data[n] \in Content
    BY <1>3 DEF Chunk
  <2>2. QED
    BY <1>1, <2>1 DEF Inserted, Content
<1>5. \A n : (OnGrid(n)' <=> OnGrid(n)) /\ ChunkEnd(n)' = ChunkEnd(n)
  BY <1>1 DEF OnGrid, ChunkEnd
<1>6. /\ range[1] \in Nat /\ range[2] \in Nat /\ range[1]..range[2] \subseteq Blocks
      /\ hchunk.first <= range[2]
  BY <1>0, <1>3, RangeFacts
<1>7. WholeCells(db)'
  <2>1. ASSUME NEW first \in range[1]..range[2], OnGrid(first)
        PROVE  \/ \A n \in first..ChunkEnd(first) : db'[n] # "absent"
               \/ \A n \in first..ChunkEnd(first) : db'[n] = "absent"
    <3>1. /\ first \in Nat /\ ChunkEnd(first) \in Nat /\ ChunkEnd(first) <= range[2]
          /\ \A n \in first..ChunkEnd(first) : n \in Blocks
      BY <1>0, <1>6, ChunkEndFacts
    <3>2. CASE first = hchunk.first
      BY <1>3, <1>4, <3>2 DEF Cell
    <3>3. CASE first # hchunk.first
      <4>1. ChunkEnd(first) < hchunk.first \/ hchunk.last < first
        BY <1>0, <1>3, <1>6, <2>1, <3>1, <3>3, CellsApart DEF Cell
      <4>2. \A n \in first..ChunkEnd(first) : n \notin DOMAIN hchunk.data
        BY <1>3, <3>1, <4>1
      <4>3. \A n \in first..ChunkEnd(first) : db'[n] = db[n]
        BY <1>4, <3>1, <4>2
      <4>4. \/ \A n \in first..ChunkEnd(first) : db[n] # "absent"
            \/ \A n \in first..ChunkEnd(first) : db[n] = "absent"
        BY <2>1 DEF CellsInv, WholeCells
      <4>5. QED
        BY <4>3, <4>4
    <3>4. QED
      BY <3>2, <3>3
  <2>2. \A first \in {n \in range'[1]..range'[2] : OnGrid(n)'} :
          \/ \A n \in first..ChunkEnd(first)' : db'[n] # "absent"
          \/ \A n \in first..ChunkEnd(first)' : db'[n] = "absent"
    BY <1>1, <1>5, <2>1
  <2>3. QED
    BY <2>2 DEF WholeCells
<1>8. ASSUME NEW c, Filled(c), Apart(c, hchunk) PROVE \A n \in Span(c) : db'[n] = db[n]
  <2>1. c.first \in Nat /\ c.last \in Nat /\ DOMAIN c.data = c.first..c.last /\ c \in Chunk
    BY <1>8, FilledFacts
  <2>2. \A n \in Span(c) : n \in Blocks
    BY <2>1 DEF Chunk, Span
  <2>3. \A n \in Span(c) : n \notin DOMAIN hchunk.data
    BY <1>3, <1>8, <2>1 DEF Apart, Span
  <2>4. QED
    BY <1>4, <2>2, <2>3
<1>9. \A v \in Workers : Busy(v)' => Cell(wchunk[v])'
  BY <1>1, <1>5 DEF CellsInv, Cell, Busy
<1>10. ASSUME NEW v \in Workers, wpc[v] = "send", wchunk[v].src = "Rpc" PROVE Unstored(wchunk[v])'
  <2>1. Filled(wchunk[v]) /\ Apart(wchunk[v], hchunk)
    BY <1>0, <1>2, <1>10 DEF InFlight, AllApart, Busy
  <2>2. \A n \in Span(wchunk[v]) : db'[n] = db[n]
    BY <1>8, <2>1
  <2>3. QED
    BY <1>1, <1>10, <2>2 DEF CellsInv, Unstored, Span
<1>11. ASSUME NEW i \in DOMAIN channel
       PROVE  Cell(channel[i])' /\ ((channel[i].src = "Rpc")' => Unstored(channel[i])')
  <2>1. Filled(channel[i]) /\ Apart(channel[i], hchunk)
    BY <1>0, <1>2 DEF InFlight, AllApart
  <2>2. \A n \in Span(channel[i]) : db'[n] = db[n]
    BY <1>8, <2>1
  <2>3. QED
    BY <1>1, <1>5, <2>2 DEF CellsInv, Cell, Unstored, Span
<1>12. OnGrid(iter)' /\ hpc' # "persist"
  BY <1>1, <1>5 DEF CellsInv
<1>13. QED
  BY <1>1, <1>7, <1>9, <1>10, <1>11, <1>12 DEF CellsInv

(* A run starts with no chunk in flight, at the first cell of its range. *)
LEMMA FreshCells == ASSUME Fresh, WholeCells(db) PROVE CellsInv
<1>1. iter = range[1] /\ range[1] \in Nat
  BY RangesAssumption DEF Fresh
<1>2. 0 \in 0..iter /\ iter = range[1] + 0 * (ChunkSize + 1)
  BY <1>1, SizesAssumption
<1>3. OnGrid(iter)
  BY <1>1, <1>2 DEF OnGrid
<1>4. (\A w \in Workers : ~ Busy(w) /\ wpc[w] = "take") /\ channel = <<>> /\ hpc = "recv"
  BY DEF Fresh, Busy
<1>5. QED
  BY <1>3, <1>4 DEF CellsInv

LEMMA FreshCellsNext == Fresh' /\ WholeCells(db)' => CellsInv'
<1>1. Fresh /\ WholeCells(db) => CellsInv
  BY FreshCells
<1>2. QED
  BY <1>1, PTL

LEMMA CellsNext ==
  ASSUME IndexerInv, CellsInv, "dbRead" \notin Faults, [Next]_vars, range' = range
  PROVE  CellsInv'
<1> USE DEF fetchVars, handlerVars
<1>0. wpc \in [Workers -> {"take", "fetch", "send", "done", "failed", "aborted"}]
  BY DEF IndexerInv, TypeOK
<1>1. ASSUME UNCHANGED <<iter, channel, db, wchunk>>, hpc' = "persist" => UNCHANGED <<hpc, hchunk>>,
             \A w \in Workers : wpc'[w] \in {"fetch", "send"} => wpc'[w] = wpc[w]
      PROVE  CellsInv'
  <2>1. \A w \in Workers : /\ Busy(w)' => Busy(w) /\ wchunk'[w].first = wchunk[w].first
                                                 /\ wchunk'[w].last = wchunk[w].last
                           /\ wpc'[w] = "send" /\ wchunk'[w].src = "Rpc" => Unstored(wchunk[w])
    BY <1>1 DEF Busy, CellsInv
  <2>2. QED
    BY <1>1, <2>1, CellsSame
<1>2. ASSUME NEW w \in Workers, WorkerStep(w) PROVE CellsInv'
  <2>1. CASE RangeExhausted(w) \/ FetchPanics(w) \/ FetchFails(w) \/ SendFails(w) \/ Abort(w)
    <3>1. /\ UNCHANGED <<iter, channel, db, wchunk, hpc, hchunk>>
          /\ \A v \in Workers : wpc'[v] \in {"fetch", "send"} => wpc'[v] = wpc[v]
      BY <1>0, <2>1 DEF RangeExhausted, FetchPanics, FetchFails, SendFails, Abort
    <3>2. QED
      BY <1>1, <3>1
  <2>2. QED
    BY <1>2, <2>1, TakeCells, FetchedCells, SendCells DEF WorkerStep
<1>3. CASE HandlerStep
  <2>1. CASE RecvNone \/ PersistFails \/ PlaceNext \/ PlaceLater \/ ExecuteBlock \/ ExecuteFails
             \/ ChunkDone \/ DrainNext \/ DrainEnds
    <3>1. UNCHANGED <<iter, channel, db, wchunk, wpc>> /\ hpc' # "persist"
      BY <2>1 DEF RecvNone, PersistFails, PlaceNext, PlaceLater, ExecuteBlock, ExecuteFails, ChunkDone,
                  DrainNext, DrainEnds, AtHandler
    <3>2. QED
      BY <1>1, <3>1
  <2>2. QED
    BY <1>3, <2>1, RecvCells, PersistCells DEF HandlerStep
<1>4. CASE ParserReturns \/ ExecReturns \/ Crash \/ UNCHANGED vars
  <2>1. UNCHANGED <<iter, channel, db, wchunk, wpc, hpc, hchunk>>
    BY <1>4 DEF ParserReturns, ExecReturns, Crash, AfterCrash, vars
  <2>2. QED
    BY <1>1, <2>1
<1>5. CASE Rerun
  <2>1. Fresh' /\ db' = db
    BY <1>5 DEF Rerun, Fresh
  <2>2. WholeCells(db)'
    BY <2>1 DEF CellsInv, WholeCells, OnGrid, ChunkEnd
  <2>3. QED
    BY <2>1, <2>2, FreshCellsNext
<1>6. QED
  BY <1>2, <1>3, <1>4, <1>5 DEF Next, Finished

(* When every run is over the same range, the rows there at first are those *)
(* of whole chunks of it, and the range query does not fail, then no row is *)
(* ever inserted twice, whatever else fails and wherever the process dies:  *)
(* the insert's primary key never aborts a run.                             *)
THEOREM StoresOnce ==
  ASSUME NEW r, Ranges = {r}, "dbRead" \notin Faults
  PROVE  Spec /\ WholeCells(db) => []NoConflict
<1>1. Init /\ WholeCells(db) => CellsInv
  <2>1. Init => Fresh
    BY DEF Init, Fresh
  <2>2. QED
    BY <2>1, FreshCells
<1>2. IndexerInv /\ IndexerInv' /\ CellsInv /\ [Next]_vars => CellsInv'
  <2>1. TypeOK => range = r
    BY DEF TypeOK
  <2>2. TypeOK' => range' = r
    BY DEF TypeOK
  <2>3. QED
    BY <2>1, <2>2, CellsNext DEF IndexerInv
<1>3. IndexerInv /\ CellsInv => NoConflict
  <2> SUFFICES ASSUME IndexerInv, CellsInv, hpc = "persist" PROVE ~ Conflict(hchunk)
    BY DEF NoConflict
  <2>1. Filled(hchunk)
    BY DEF IndexerInv, InFlight, Owned, InHand
  <2>2. QED
    BY <2>1 DEF CellsInv, Unstored, Filled, Conflict
<1>4. QED
  BY <1>1, <1>2, <1>3, IndexerInvariant, PTL DEF Spec
=============================================================================
