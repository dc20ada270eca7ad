-------------------------- MODULE BlockRangeIndexer --------------------------
(***************************************************************************)
(* The backtest's indexing pipeline: worker tasks take chunks of the block  *)
(* range from a shared iterator, read them from the database or fetch them  *)
(* over rpc, and send them over a bounded channel; one handler task stores  *)
(* what came over rpc, puts the chunks back in order and executes the       *)
(* strategy block by block; exec joins both.  The database outlives the     *)
(* process, so a run may be repeated, over the same range or another.       *)
(***************************************************************************)
EXTENDS Naturals, Sequences, FiniteSets, FiniteSetsExt

CONSTANTS
  Ranges,      \* the <<first, last>> ranges a run may be started with
  ChunkSize,   \* BLOCK_PARSER_CHUNK_SIZE: a chunk has one block more
  Workers,     \* BLOCK_PARSER_CONCURRENCY tasks
  Capacity,    \* PARSED_BLOCK_CHANNEL_CAPACITY
  Stored,      \* rows the database may hold before the first run
  Faults,      \* the failures that may happen, see below
  MaxRuns      \* bound: how often the program is started

ASSUME RangesAssumption ==
  Ranges # {} /\ \A r \in Ranges : r \in Nat \X Nat /\ r[1] < r[2]
ASSUME SizesAssumption == ChunkSize \in Nat /\ Capacity \in Nat \ {0} /\ MaxRuns \in Nat \ {0}
ASSUME WorkersAssumption == Workers # {} /\ IsFiniteSet(Workers)

(* rpc: no header for the first block, or the pairs cannot be resolved;     *)
(* logs: get_logs fails; dbRead: the range query fails; dbWrite: no         *)
(* connection or no commit; strategy: insert_block or the executor fails;   *)
(* crash: the process stops.                                                *)
ASSUME FaultsAssumption ==
  Faults \subseteq {"rpc", "logs", "dbRead", "dbWrite", "strategy", "crash"}

(* Every block number a run can touch. *)
Blocks == UNION {r[1]..r[2] : r \in Ranges}

(* What a block holds: its trades; nothing, because the logs request of its *)
(* chunk failed; or (a database row only) something that does not parse.    *)
Content == {"trades", "hollow", "unreadable"}

ASSUME StoredAssumption == Stored \subseteq [Blocks -> Content \cup {"absent"}]

(* A chunk of the range and the blocks that were found for it. *)
Chunk == [first : Blocks, last : Blocks, src : {"Rpc", "Db"},
          data : UNION {[S -> Content] : S \in SUBSET Blocks}]

VARIABLES
  range,      \* start_block_number and end_block_number
  iter,       \* the next chunk start the shared iterator yields
  wpc,        \* wpc[w], wchunk[w]: where worker w is and the chunk it works on
  wchunk,
  channel,    \* chunks in flight, in sending order
  parser,     \* fetch_block_chunks_task: "running", "ok", "err"
  hpc,        \* hpc, hchunk: where the handler is and the chunk it works on
  hchunk,
  next,       \* next_block_number
  buffer,     \* chunk_buffer: chunks that came too early
  executed,   \* the blocks the strategy was executed for, in this run
  db,         \* the blocks table
  result,     \* exec's result: "none", "ok", "err", or "crashed"
  runs        \* how often the program was started

fetchVars   == <<iter, wpc, wchunk, parser>>
handlerVars == <<hpc, hchunk, next, buffer, executed, db>>
vars == <<range, fetchVars, channel, handlerVars, result, runs>>

NoChunk == [first |-> 0, last |-> 0, src |-> "Db", data |-> <<>>]

TypeOK ==
  /\ range \in Ranges
  /\ iter \in Nat
  /\ wpc \in [Workers -> {"take", "fetch", "send", "done", "failed", "aborted"}]
  /\ wchunk \in [Workers -> Chunk \cup {NoChunk}]
  /\ channel \in Seq(Chunk) /\ Len(channel) <= Capacity
  /\ parser \in {"running", "ok", "err"}
  /\ hpc \in {"recv", "persist", "place", "exec", "drain", "ok", "err"}
  /\ hchunk = NoChunk \/ hchunk \in Chunk
  /\ next \in Nat
  /\ buffer \subseteq Chunk
  /\ executed \in Seq([number : Blocks, content : Content])
  /\ db \in [Blocks -> Content \cup {"absent"}]
  /\ result \in {"none", "ok", "err", "crashed"}
  /\ runs \in 1..MaxRuns

(* BlockRangeIndexer::new and the start of exec. *)
Init == /\ range \in Ranges
        /\ iter = range[1]
        /\ wpc = [w \in Workers |-> "take"]
        /\ wchunk = [w \in Workers |-> NoChunk]
        /\ channel = <<>>
        /\ parser = "running"
        /\ hpc = "recv" /\ hchunk = NoChunk /\ next = range[1]
        /\ buffer = {}
        /\ executed = <<>>
        /\ db \in Stored
        /\ result = "none"
        /\ runs = 1
-----------------------------------------------------------------------------
(* A worker of fetch_block_chunks_task.                                     *)
(*                                                                          *)
(* Definitions named X_Something, here and below, are plausible bugs in the *)
(* definition X that follows them; the project's mutation runs put one in   *)
(* the place of X to show that a property notices.  No action uses them.    *)

Running == result = "none"

AtWorker(w, pc) == Running /\ wpc[w] = pc

(* The end of the range is forgotten. *)
ChunkEnd_Unclamped(first) == first + ChunkSize

(* (first + BLOCK_PARSER_CHUNK_SIZE).min(end_block_number) *)
ChunkEnd(first) == Min({first + ChunkSize, range[2]})

(* iter.next() on the stepped range, under the mutex. *)
TakeChunk(w) ==
  /\ AtWorker(w, "take") /\ iter <= range[2]
  /\ wchunk' = [wchunk EXCEPT ![w] = [first |-> iter, last |-> ChunkEnd(iter),
                                     src |-> "Db", data |-> <<>>]]
  /\ wpc' = [wpc EXCEPT ![w] = "fetch"]
  /\ iter' = iter + ChunkSize + 1
  /\ UNCHANGED <<range, parser, channel, handlerVars, result, runs>>

RangeExhausted(w) ==
  /\ AtWorker(w, "take") /\ iter > range[2]
  /\ wpc' = [wpc EXCEPT ![w] = "done"]
  /\ UNCHANGED <<range, iter, wchunk, parser, channel, handlerVars, result, runs>>

Fetched(w, src, data) ==
  /\ wchunk' = [wchunk EXCEPT ![w].src = src, ![w].data = data]
  /\ wpc' = [wpc EXCEPT ![w] = "send"]
  /\ UNCHANGED <<range, iter, parser, channel, handlerVars, result, runs>>

Span(c) == c.first..c.last

(* The range query found every row it was asked for. *)
AllStored(c) == \A n \in Span(c) : db[n] # "absent"

(* The blocks of rows that can be read back. *)
FoundRows(c) == {n \in Span(c) : db[n] # "absent"}
Readable(c)  == \A n \in FoundRows(c) : db[n] # "unreadable"

(* fetch_from_db: all rows or none. *)
FetchFromDb(w) ==
  /\ AtWorker(w, "fetch") /\ AllStored(wchunk[w]) /\ Readable(wchunk[w])
  /\ Fetched(w, "Db", [n \in FoundRows(wchunk[w]) |-> db[n]])

(* A row whose ticks do not deserialize panics the worker. *)
FetchPanics(w) ==
  /\ AtWorker(w, "fetch") /\ AllStored(wchunk[w]) /\ ~ Readable(wchunk[w])
  /\ wpc' = [wpc EXCEPT ![w] = "failed"]
  /\ UNCHANGED <<range, iter, wchunk, parser, channel, handlerVars, result, runs>>

(* fetch_from_db failed for whatever reason: get_logs and the header of the *)
(* first block.  Failed logs are logged, and taken for no logs at all.      *)
AskRpc(w) == /\ AtWorker(w, "fetch")
             /\ AllStored(wchunk[w]) => "dbRead" \in Faults

FetchFromRpc(w) ==
  /\ AskRpc(w)
  /\ \E content \in {"trades"} \cup (IF "logs" \in Faults THEN {"hollow"} ELSE {}) :
       Fetched(w, "Rpc", [n \in Span(wchunk[w]) |-> content])

FetchFails(w) ==
  /\ AskRpc(w) /\ "rpc" \in Faults
  /\ wpc' = [wpc EXCEPT ![w] = "failed"]
  /\ UNCHANGED <<range, iter, wchunk, parser, channel, handlerVars, result, runs>>

(* The receiver lives until the handler returns. *)
ReceiverGone == hpc \in {"ok", "err"}

Send(w) ==
  /\ AtWorker(w, "send") /\ ~ ReceiverGone /\ Len(channel) < Capacity
  /\ channel' = Append(channel, wchunk[w])
  /\ wpc' = [wpc EXCEPT ![w] = "take"]
  /\ wchunk' = [wchunk EXCEPT ![w] = NoChunk]
  /\ UNCHANGED <<range, iter, parser, handlerVars, result, runs>>

SendFails(w) ==
  /\ AtWorker(w, "send") /\ ReceiverGone
  /\ wpc' = [wpc EXCEPT ![w] = "failed"]
  /\ UNCHANGED <<range, iter, wchunk, parser, channel, handlerVars, result, runs>>

(* Dropping the JoinSet aborts a worker at its next await. *)
Abort(w) ==
  /\ Running /\ parser = "err" /\ wpc[w] \notin {"done", "failed", "aborted"}
  /\ wpc' = [wpc EXCEPT ![w] = "aborted"]
  /\ UNCHANGED <<range, iter, wchunk, parser, channel, handlerVars, result, runs>>

(* join_next: the first failure ends the task, or every worker is done. *)
ParserReturns ==
  /\ Running /\ parser = "running"
  /\ \/ (\E w \in Workers : wpc[w] = "failed") /\ parser' = "err"
     \/ (\A w \in Workers : wpc[w] = "done") /\ parser' = "ok"
  /\ UNCHANGED <<range, iter, wpc, wchunk, channel, handlerVars, result, runs>>
-----------------------------------------------------------------------------
(* handle_block_chunk_task *)

AtHandler(pc) == Running /\ hpc = pc

Recv ==
  /\ AtHandler("recv") /\ channel # <<>>
  /\ hchunk' = Head(channel)
  /\ channel' = Tail(channel)
  /\ hpc' = IF Head(channel).src = "Rpc" THEN "persist" ELSE "place"
  /\ UNCHANGED <<range, fetchVars, next, buffer, executed, db, result, runs>>

(* Whoever spawned the tasks keeps a sender of its own. *)
SendersGone_OneKept == FALSE

(* The channel is closed when the task and every worker dropped a sender. *)
SendersGone == parser # "running" /\ \A w \in Workers : wpc[w] \in {"done", "failed", "aborted"}

RecvNone ==
  /\ AtHandler("recv") /\ channel = <<>> /\ SendersGone
  /\ hpc' = "ok"
  /\ UNCHANGED <<range, fetchVars, channel, hchunk, next, buffer, executed, db, result, runs>>

Conflict(c) == \E n \in DOMAIN c.data : db[n] # "absent"

(* Blocks without a trade are not worth a row. *)
Rows_TradesOnly(c) == [n \in {k \in DOMAIN c.data : c.data[k] = "trades"} |-> c.data[n]]

(* BlockModel's for every block of the chunk. *)
Rows(c) == c.data

(* The table with these rows in it. *)
Inserted(rows) == [n \in Blocks |-> IF n \in DOMAIN rows THEN rows[n] ELSE db[n]]

(* All rows of the chunk in one transaction; the primary key is unique. *)
Persist ==
  /\ AtHandler("persist") /\ ~ Conflict(hchunk)
  /\ db' = Inserted(Rows(hchunk))
  /\ hpc' = "place"
  /\ UNCHANGED <<range, fetchVars, channel, hchunk, next, buffer, executed, result, runs>>

PersistFails ==
  /\ AtHandler("persist") /\ (~ Conflict(hchunk) => "dbWrite" \in Faults)
  /\ hpc' = "err"
  /\ UNCHANGED <<range, fetchVars, channel, hchunk, next, buffer, executed, db, result, runs>>

First(c) == Min(DOMAIN c.data)
Last(c)  == Max(DOMAIN c.data)

(* A chunk is taken up whenever it starts at or after the block expected. *)
IsNext_OrLater(c) == First(c) >= next

(* The BTreeMap key of a chunk, and next_block_number. *)
IsNext(c) == First(c) = next

(* The chunk that starts at next_block_number is executed now, ... *)
PlaceNext ==
  /\ AtHandler("place") /\ IsNext(hchunk)
  /\ hpc' = "exec"
  /\ UNCHANGED <<range, fetchVars, channel, hchunk, next, buffer, executed, db, result, runs>>

(* any other is buffered (one without blocks, if there were any, dropped). *)
PlaceLater ==
  /\ AtHandler("place") /\ ~ IsNext(hchunk)
  /\ buffer' = buffer \cup {hchunk}
  /\ hpc' = "recv"
  /\ hchunk' = NoChunk
  /\ UNCHANGED <<range, fetchVars, channel, next, executed, db, result, runs>>

(* The blocks of the chunk in hand that are still to be executed. *)
Todo == {n \in DOMAIN hchunk.data : \A i \in DOMAIN executed : executed[i].number # n}

(* execute_strategy_for_block, for the chunk's blocks in their order. *)
ExecuteBlock ==
  /\ AtHandler("exec") /\ Todo # {}
  /\ LET n == Min(Todo)
     IN executed' = Append(executed, [number |-> n, content |-> hchunk.data[n]])
  /\ UNCHANGED <<range, fetchVars, channel, hpc, hchunk, next, buffer, db, result, runs>>

ExecuteFails ==
  /\ AtHandler("exec") /\ Todo # {} /\ "strategy" \in Faults
  /\ hpc' = "err"
  /\ UNCHANGED <<range, fetchVars, channel, hchunk, next, buffer, executed, db, result, runs>>

(* next_block_number is left at the last block executed. *)
After_Last(c) == Last(c)

(* The block expected once c is executed. *)
After(c) == Last(c) + 1

ChunkDone ==
  /\ AtHandler("exec") /\ Todo = {}
  /\ next' = After(hchunk)
  /\ hpc' = "drain"
  /\ hchunk' = NoChunk
  /\ UNCHANGED <<range, fetchVars, channel, buffer, executed, db, result, runs>>

(* The buffered chunk with the lowest key, when it is the next one. *)
DrainNext ==
  /\ AtHandler("drain")
  /\ \E c \in buffer :
       /\ \A d \in buffer : First(c) <= First(d)
       /\ IsNext(c)
       /\ hchunk' = c
       /\ buffer' = buffer \ {c}
  /\ hpc' = "exec"
  /\ UNCHANGED <<range, fetchVars, channel, next, executed, db, result, runs>>

DrainEnds ==
  /\ AtHandler("drain")
  /\ \A c \in buffer : (\A d \in buffer : First(c) <= First(d)) => ~ IsNext(c)
  /\ hpc' = "recv"
  /\ UNCHANGED <<range, fetchVars, channel, hchunk, next, buffer, executed, db, result, runs>>
-----------------------------------------------------------------------------
(* exec, and the process around it *)

BothOk(h, p) == h = "ok" /\ p = "ok"

(* exec waits for both tasks and succeeds if both did. *)
ExecReturns ==
  /\ Running /\ parser # "running" /\ hpc \in {"ok", "err"}
  /\ result' = IF BothOk(hpc, parser) THEN "ok" ELSE "err"
  /\ UNCHANGED <<range, fetchVars, channel, handlerVars, runs>>

(* Every row is committed by itself. *)
AfterCrash_RowByRow ==
  IF hpc = "persist" THEN {Inserted([n \in {k \in Span(hchunk) : k <= m} |-> hchunk.data[n]]) : m \in Span(hchunk)}
                     ELSE {db}

(* An open transaction is rolled back by a crash. *)
AfterCrash == {db}

Crash ==
  /\ Running /\ "crash" \in Faults
  /\ result' = "crashed"
  /\ db' \in AfterCrash
  /\ UNCHANGED <<range, fetchVars, channel, hpc, hchunk, next, buffer, executed, runs>>

(* The program is started again; only the database is left of the old run. *)
Rerun ==
  /\ ~ Running /\ runs < MaxRuns
  /\ runs' = runs + 1
  /\ range' \in Ranges
  /\ iter' = range'[1]
  /\ wpc' = [w \in Workers |-> "take"]
  /\ wchunk' = [w \in Workers |-> NoChunk]
  /\ channel' = <<>>
  /\ parser' = "running"
  /\ hpc' = "recv" /\ hchunk' = NoChunk /\ next' = range'[1]
  /\ buffer' = {}
  /\ executed' = <<>>
  /\ result' = "none"
  /\ UNCHANGED db

Finished == ~ Running /\ runs = MaxRuns /\ UNCHANGED vars

WorkerStep(w) ==
  \/ TakeChunk(w) \/ RangeExhausted(w)
  \/ FetchFromDb(w) \/ FetchPanics(w) \/ FetchFromRpc(w) \/ FetchFails(w)
  \/ Send(w) \/ SendFails(w) \/ Abort(w)

HandlerStep ==
  \/ Recv \/ RecvNone \/ Persist \/ PersistFails \/ PlaceNext \/ PlaceLater
  \/ ExecuteBlock \/ ExecuteFails \/ ChunkDone \/ DrainNext \/ DrainEnds

Next == \/ \E w \in Workers : WorkerStep(w)
        \/ ParserReturns \/ HandlerStep \/ ExecReturns
        \/ Crash \/ Rerun \/ Finished

(* Tasks that can run are run, and rpc and database calls return. *)
Fairness == /\ \A w \in Workers : WF_vars(WorkerStep(w))
            /\ WF_vars(ParserReturns)
            /\ WF_vars(HandlerStep)
            /\ WF_vars(ExecReturns)

Spec == Init /\ [][Next]_vars /\ Fairness
-----------------------------------------------------------------------------
(* Properties *)

(* A block is executed with what the database holds for it: a backtest that *)
(* is repeated from the database sees what the first one saw.               *)
ExecutedAsStored ==
  \A i \in DOMAIN executed : executed[i].content = db[executed[i].number]

(* Chunks are stored whole or not at all, so that a run over the same range *)
(* as the runs before it, however they ended, never inserts a row twice.    *)
NoConflict == hpc = "persist" /\ Running => ~ Conflict(hchunk)

(* The chunks of the range are stored whole, and can be read, or not at all. *)
WholeChunks ==
  \A first \in {n \in range[1]..range[2] : (n - range[1]) % (ChunkSize + 1) = 0} :
    \E rows \in {{"trades", "hollow"}, {"absent"}} :
      \A n \in first..ChunkEnd(first) : db[n] \in rows

(* A run that cannot fail, over chunks as earlier runs leave them, executes *)
(* its whole range and returns: no chunk is stuck in the channel or the     *)
(* buffer, and no worker waits for a reader for ever.                       *)
Completes ==
  WholeChunks => <>(/\ result = "ok"
                    /\ {executed[i].number : i \in DOMAIN executed} = range[1]..range[2])

(* Whatever fails, exec returns: a failing worker, or a failing handler, is *)
(* noticed by the others.                                                   *)
AlwaysReturns == Running ~> ~ Running

(* What the strategy sees of a run. *)
deliveredBlocks == [i \in DOMAIN executed |-> executed[i].number]

deliveryStatus == CASE result = "none" -> "running"
                    [] result = "ok"   -> "ok"
                    [] OTHER           -> "failed"

Delivery == INSTANCE OrderedDelivery
            WITH asked <- range, delivered <- deliveredBlocks, status <- deliveryStatus

(* The pipeline implements in-order delivery: whichever rows the database   *)
(* has, and in whichever order the workers finish, no block is executed     *)
(* early, twice or not at all, and success means all of them were.          *)
InOrderDelivery == Delivery!DeliverySpec
-----------------------------------------------------------------------------
(* The inductive invariant behind the safety properties *)

Busy(w) == wpc[w] \in {"fetch", "send"}
InHand  == hpc \in {"persist", "place", "exec"}

(* The chunks the handler owns. *)
Owned == buffer \cup (IF InHand THEN {hchunk} ELSE {})

(* A chunk the iterator handed out, not executed yet; *)
Ahead(c) == /\ next <= c.first /\ c.first <= c.last
            /\ c.last < iter /\ c.last <= range[2]

(* with all its blocks, once it was fetched. *)
Filled(c) == c \in Chunk /\ DOMAIN c.data = Span(c) /\ Ahead(c)

InFlight ==
  /\ \A w \in Workers : Busy(w) => wchunk[w].first \in Nat /\ wchunk[w].last \in Nat /\ Ahead(wchunk[w])
  /\ \A w \in Workers : wpc[w] = "send" => Filled(wchunk[w])
  /\ \A i \in DOMAIN channel : Filled(channel[i])
  /\ \A c \in Owned : Filled(c)

(* No block is in two chunks. *)
Apart(c, d) == c.last < d.first \/ d.last < c.first

AllApart ==
  /\ \A v, w \in Workers : Busy(v) /\ Busy(w) /\ v # w => Apart(wchunk[v], wchunk[w])
  /\ \A i, j \in DOMAIN channel : i # j => Apart(channel[i], channel[j])
  /\ \A c, d \in Owned : c # d => Apart(c, d)
  /\ \A w \in Workers : Busy(w) => /\ \A i \in DOMAIN channel : Apart(wchunk[w], channel[i])
                                   /\ \A c \in Owned : Apart(wchunk[w], c)
  /\ \A i \in DOMAIN channel : \A c \in Owned : Apart(channel[i], c)
  /\ InHand => hchunk \notin buffer

(* Unless something failed, every block taken from the iterator and not     *)
(* executed is in a chunk somebody still works on.                          *)
InChunk(n) ==
  \/ \E w \in Workers : Busy(w) /\ n \in Span(wchunk[w])
  \/ \E i \in DOMAIN channel : n \in Span(channel[i])
  \/ \E c \in Owned : n \in Span(c)

NothingLost ==
  (parser # "err" /\ hpc # "err" /\ \A w \in Workers : wpc[w] \notin {"failed", "aborted"})
    => \A n \in next..range[2] : n < iter => InChunk(n)

(* What was executed is what precedes next_block_number; while a chunk is   *)
(* executed, it starts there.                                               *)
InOrder ==
  /\ \A i \in DOMAIN executed : executed[i].number + 1 = range[1] + i
  /\ hpc \in {"recv", "persist", "place", "drain", "ok"} => next = range[1] + Len(executed)
  /\ hpc = "exec" => /\ next = hchunk.first
                     /\ next <= range[1] + Len(executed)
                     /\ range[1] + Len(executed) <= hchunk.last + 1
  /\ range[1] <= next /\ next <= iter /\ next <= range[2] + 1

(* A buffered chunk that could be executed is not left behind; *)
BufferWaits == hpc \in {"recv", "persist", "place", "ok"} => \A c \in buffer : c.first # next

(* workers stop at the end of the range, and the handler after the workers. *)
Stopping ==
  /\ \A w \in Workers : wpc[w] = "done" => iter > range[2]
  /\ \A w \in Workers : wpc[w] = "aborted" => parser = "err"
  /\ parser = "ok" => \A w \in Workers : wpc[w] = "done"
  /\ hpc = "ok" => channel = <<>> /\ parser # "running"

(* A chunk read from the database or written to it holds what is stored,    *)
(* and stored rows are never written again.                                 *)
AsStored(c) == \A n \in DOMAIN c.data : c.data[n] = db[n]

RowsKept ==
  /\ \A w \in Workers : wpc[w] = "send" /\ wchunk[w].src = "Db" => AsStored(wchunk[w])
  /\ \A i \in DOMAIN channel : channel[i].src = "Db" => AsStored(channel[i])
  /\ hpc = "persist" => hchunk.src = "Rpc"
  /\ \A c \in Owned : c.src = "Db" \/ hpc # "persist" \/ c # hchunk => AsStored(c)
  /\ \A i \in DOMAIN executed : /\ executed[i].content = db[executed[i].number]
                                /\ db[executed[i].number] # "absent"

IndexerInv == /\ TypeOK /\ InFlight /\ AllApart /\ NothingLost /\ InOrder
              /\ BufferWaits /\ Stopping /\ RowsKept

(* The chunk starts of the range, and the database in whole chunks of it:   *)
OnGrid(n) == \E k \in 0..n : n = range[1] + k * (ChunkSize + 1)

WholeCells(rows) ==
  \A first \in {n \in range[1]..range[2] : OnGrid(n)} :
    \/ \A n \in first..ChunkEnd(first) : rows[n] # "absent"
    \/ \A n \in first..ChunkEnd(first) : rows[n] = "absent"

(* every chunk is such a cell, and what a chunk from rpc is stored under is *)
(* not there yet.                                                           *)
Cell(c)     == OnGrid(c.first) /\ c.last = ChunkEnd(c.first)
Unstored(c) == \A n \in Span(c) : db[n] = "absent"

CellsInv ==
  /\ OnGrid(iter)
  /\ WholeCells(db)
  /\ \A w \in Workers : Busy(w) => Cell(wchunk[w])
  /\ \A w \in Workers : wpc[w] = "send" /\ wchunk[w].src = "Rpc" => Unstored(wchunk[w])
  /\ \A i \in DOMAIN channel : Cell(channel[i]) /\ (channel[i].src = "Rpc" => Unstored(channel[i]))
  /\ hpc = "persist" => Cell(hchunk) /\ Unstored(hchunk)
=============================================================================
