--------------------------- MODULE BacktestReport ---------------------------
(***************************************************************************)
(* From the trade book to the API: what a backtest's closed trades become   *)
(* in the database and what the API server reads there.  The process runs   *)
(* TradeController in backtest mode; main then writes the backtest and one  *)
(* row per closed trade in one transaction.  The process may end at any     *)
(* point, and be started again with an empty book; the database stays.      *)
(*                                                                          *)
(* A block's timestamp is its number here.  SaveClosed of TradeController    *)
(* is this module's transaction: BeginReport, InsertRow, CommitReport.       *)
(***************************************************************************)
EXTENDS TradeController, Picking, Functions

CONSTANTS
  Messages,    \* the pairs that may trade in one block
  MaxRuns,     \* bound: how often the process is started
  MaxTotal     \* bound: how many blocks all runs execute together

ASSUME ReportMode   == Mode = "backtest"
ASSUME MessagesAssumption == Messages \subseteq SUBSET Pairs
ASSUME ReportBounds == MaxRuns \in Nat \ {0} /\ MaxTotal \in Nat

VARIABLES
  minedAt,    \* minedAt[id]: the timestamp of the block trade id was made at
  closings,   \* closings[t]: AddressTrades::closed, in its order
  txn,        \* the transaction main writes the report in
  backtests,  \* table backtests: its rows, whose ids are 1, 2, ...
  rows,       \* table backtest_closed_trades: its rows in the order of their ids
  run,        \* which run of the process this is
  total,      \* how many blocks the runs before this one executed
  filed       \* history: what each backtest closed

dbVars     == <<txn, backtests, rows, filed>>
reportVars == <<vars, minedAt, closings, dbVars, run, total>>
-----------------------------------------------------------------------------
(* What a closed trade says of itself: both tx hashes, the hash the close's  *)
(* op names, both pairs and the timestamps of both.                          *)
Closing == [open : Trade, close : Trade, of : Trade, openTs : Nat, closeTs : Nat]

NoTokens == [t \in Tokens |-> <<>>]
NoTxn    == [backtest |-> 0, rows |-> <<>>, todo |-> NoTokens]

ReportInit ==
  /\ Init
  /\ minedAt = <<>>
  /\ closings = NoTokens
  /\ txn = NoTxn
  /\ backtests = <<>> /\ rows = <<>> /\ filed = <<>>
  /\ run = 1 /\ total = 0

(* Only the latest closing is kept, or it is put in front. *)
Push_Replaced(c, cs) == <<c>>
Push_Front(c, cs)    == <<c>> \o cs

(* AddressTrades::close *)
Push(c, cs) == Append(cs, c)

(* A step of the controller: a confirmed trade gets the block's timestamp,  *)
(* and if it closed a position, that is pushed on the token's closed trades. *)
ControllerStep(step) ==
  /\ step
  /\ minedAt' = IF nextId' = nextId THEN minedAt ELSE Append(minedAt, block)
  /\ closings' =
       [t \in Tokens |->
         LET new == {c \in closed' \ closed : c.token = t} IN
         IF new = {} THEN closings[t]
         ELSE LET c == CHOOSE c \in new : TRUE IN
              Push([open |-> c.open, close |-> c.close, of |-> c.of,
                    openTs |-> minedAt'[c.open.id + 1], closeTs |-> block], closings[t])]
  /\ UNCHANGED <<dbVars, run, total>>
-----------------------------------------------------------------------------
(* main's transaction *)

(* conn.transaction and NewBacktest::insert: the next id of the table. *)
BeginReport ==
  /\ handle = "done" /\ txn = NoTxn
  /\ txn' = [backtest |-> Len(backtests) + 1, rows |-> <<>>, todo |-> closings]
  /\ UNCHANGED <<vars, minedAt, closings, backtests, rows, run, total, filed>>

RowOf(backtest, c) ==
  [backtest |-> backtest, pair |-> c.close.pair, ts |-> c.closeTs, closing |-> c]

Begun(t) == txn.todo[t] # closings[t]

(* insert_backtest_closed_trades: the map's tokens in any order, each one's *)
(* closed trades in theirs.                                                 *)
InsertRow(t) ==
  /\ txn.todo[t] # <<>>
  /\ \A u \in Tokens \ {t} : Begun(u) => txn.todo[u] = <<>>
  /\ txn' = [txn EXCEPT !.rows = Append(@, RowOf(txn.backtest, Head(txn.todo[t]))),
                        !.todo[t] = Tail(@)]
  /\ UNCHANGED <<vars, minedAt, closings, backtests, rows, run, total, filed>>

CommitReport ==
  /\ txn # NoTxn /\ txn.todo = NoTokens
  /\ backtests' = Append(backtests, [end |-> block])
  /\ rows' = rows \o txn.rows
  /\ txn' = NoTxn
  /\ SaveClosed
  /\ filed' = Append(filed, closed)
  /\ UNCHANGED <<minedAt, closings, run, total>>

(* Every statement was committed by itself. *)
LeftBehind_Rows == txn.rows

(* What a transaction that was not committed leaves in the table. *)
LeftBehind == <<>>

(* The process ends, wherever it is: it is killed, its indexer fails, a row *)
(* cannot be inserted, or it is done.  Another run starts with an empty     *)
(* book.                                                                    *)
Rerun ==
  /\ run < MaxRuns
  /\ run' = run + 1
  /\ total' = total + block
  /\ rows' = rows \o LeftBehind
  /\ block' = 0 /\ phase' = "idle" /\ unvisited' = {}
  /\ active' = [t \in Tokens |-> Missing] /\ closed' = {}
  /\ task' = [p \in Pairs |-> IdleTask]
  /\ watch' = {} /\ chain' = {} /\ nextId' = 0
  /\ handle' = "indexing" /\ saved' = {}
  /\ minedAt' = <<>> /\ closings' = NoTokens /\ txn' = NoTxn
  /\ UNCHANGED <<backtests, filed>>

Controller ==
  \/ total + block < MaxTotal /\ \E pairs \in Messages : BeginBlock(pairs)
  \/ \E p \in Pairs : RequestOpen(p) \/ RequestClose(p) \/ Skip(p) \/ TaskStep(p)
  \/ EndDispatch \/ JoinAll
  \/ IndexerDone \/ PollDone

ReportNext ==
  \/ ControllerStep(Controller)
  \/ BeginReport
  \/ \E t \in Tokens : InsertRow(t)
  \/ CommitReport
  \/ Rerun
  \/ Finished /\ UNCHANGED reportVars

ReportSpec == ReportInit /\ [][ReportNext]_reportVars
-----------------------------------------------------------------------------
(* The API's reads, on what is committed *)

(* GET /backtests: query_all *)
ListBacktests == [b \in DOMAIN backtests |-> [id |-> b, end |-> backtests[b].end]]

RowsOf(b) == {i \in DOMAIN rows : rows[i].backtest = b}

(* GET /backtests/:id: rows counted by the pair that closed. *)
PairsOf(b) == {rows[i].pair : i \in RowsOf(b)}

BacktestPairs(b) == [p \in PairsOf(b) |-> Cardinality({i \in RowsOf(b) : rows[i].pair = p})]

(* query_by_backtest_pair_timestamp.  Its ORDER BY comes after a semicolon   *)
(* and is not part of the statement: rows come as the index has them, which  *)
(* for one backtest and one pair is by id.                                   *)
ClosedTrades(b, p, from, to) ==
  Picked(rows, {i \in RowsOf(b) : rows[i].pair = p /\ rows[i].ts >= from /\ rows[i].ts <= to})

(* GET /backtests/:id/pairs/:pair, trade ticks: get_trades folds each row to *)
(* the tick of its opening trade and then that of its closing trade.         *)
OpenTick(c)  == [hash |-> c.open.id, closes |-> NoTrade, ts |-> c.openTs]
CloseTick(c) == [hash |-> c.close.id, closes |-> c.of.id, ts |-> c.closeTs]

Trades(b, p, from, to) ==
  LET found == ClosedTrades(b, p, from, to) IN
  [i \in 1..2 * Len(found) |-> LET c == found[(i + 1) \div 2].closing IN
                               IF i % 2 = 1 THEN OpenTick(c) ELSE CloseTick(c)]
-----------------------------------------------------------------------------
(* Properties *)

ReportTypeOK ==
  /\ \A t \in Tokens : /\ Len(closings[t]) = Cardinality({c \in closed : c.token = t})
                      /\ Range(closings[t]) \subseteq Closing
  /\ Len(minedAt) = nextId
  /\ run \in 1..MaxRuns /\ total \in 0..MaxTotal
  /\ Len(filed) = Len(backtests)

(* A backtest is listed with all of what its run closed, each once, and      *)
(* with nothing else: whatever point a process ends at, the tables hold      *)
(* whole reports, no row belongs to a backtest that was never listed, and    *)
(* the counts by pair add up to the trades that the pairs' pages show.       *)
ReportWhole ==
  /\ \A i \in DOMAIN rows : rows[i].backtest \in DOMAIN ListBacktests
  /\ \A b \in DOMAIN ListBacktests :
       /\ Cardinality(RowsOf(b)) = Cardinality(filed[b])
       /\ {<<rows[i].closing.open, rows[i].closing.close>> : i \in RowsOf(b)}
            = {<<c.open, c.close>> : c \in filed[b]}
       /\ \A p \in PairsOf(b) :
            Len(Trades(b, p, 0, MaxTotal)) = 2 * BacktestPairs(b)[p]

(* A pair's page shows, for any time range, a token that is bought and sold  *)
(* in turns: every opening is followed by the close that names it, each tick *)
(* later than the one before it.  Nothing in the query sorts the rows: it is *)
(* the book that files a token's trades in their order, and the lost ORDER   *)
(* BY that the code relied on.                                               *)
TradesInTurns ==
  \A b \in DOMAIN backtests : \A p \in PairsOf(b) : \A from, to \in 0..MaxTotal :
    LET ticks == Trades(b, p, from, to) IN
    \A i \in 1..Len(ticks) - 1 :
      /\ ticks[i].ts < ticks[i + 1].ts
      /\ i % 2 = 1 => ticks[i + 1].closes = ticks[i].hash
-----------------------------------------------------------------------------
(* The inductive invariant behind the report, on top of the controller's *)

Requesting(p) == task[p].pc \in {"spawned", "claimed", "traced"}
MinedAt(m)    == minedAt[m.id + 1]

(* Every trade has the time of its block; the loop that decides on a block  *)
(* runs before any trade of it.                                             *)
TimesKept ==
  /\ minedAt \in Seq(0..block) /\ Len(minedAt) = nextId
  /\ phase = "dispatch" => \A i \in DOMAIN minedAt : minedAt[i] < block

(* The requests of a block for one token all open or all close: a token is  *)
(* closed and opened again in different blocks.                             *)
OneDecision ==
  \A p, q \in Pairs : Requesting(p) /\ Requesting(q) /\ TokenOf[p] = TokenOf[q] =>
    task[p].op = task[q].op

(* A closing says when its trades were made; the position was opened in an  *)
(* earlier block than the one it was closed in.                             *)
ClosingOf(t, c) ==
  /\ c \in Closing /\ c.of = c.open
  /\ TokenOf[c.open.pair] = t /\ TokenOf[c.close.pair] = t
  /\ c.close.id < nextId /\ MinedAt(c.close) = c.closeTs
  /\ c.openTs < c.closeTs /\ c.closeTs <= block
  /\ phase = "dispatch" => c.closeTs < block

(* Everything that was closed was closed before what is opened later. *)
InOrder(cs) == \A i, j \in DOMAIN cs : i < j => cs[i].closeTs < cs[j].openTs

Before(cs, ts) == \A i \in DOMAIN cs : cs[i].closeTs < ts

ClosingsKept ==
  /\ closings \in [Tokens -> Seq(Closing)]
  /\ \A t \in Tokens : /\ \A i \in DOMAIN closings[t] : ClosingOf(t, closings[t][i])
                       /\ InOrder(closings[t])
                       /\ active[t].st = "open" => Before(closings[t], MinedAt(active[t].trade))

(* A request closes a trade of an earlier block, which was opened after     *)
(* everything that is filed; a request to open is decided after that too.   *)
RequestsKept ==
  \A p \in Pairs : Requesting(p) =>
    /\ task[p].op = "close" => /\ task[p].of \in Trade /\ task[p].of.id < nextId
                               /\ MinedAt(task[p].of) < block
                               /\ Owning(p) => Before(closings[TokenOf[p]], MinedAt(task[p].of))
    /\ task[p].op = "open" => Before(closings[TokenOf[p]], block)

(* The closed trades of the book are those of the ordered ones. *)
Filed(c) == [token |-> TokenOf[c.close.pair], open |-> c.open, close |-> c.close, of |-> c.of]

ClosingsFiled ==
  /\ \A t \in Tokens : \A i \in DOMAIN closings[t] : Filed(closings[t][i]) \in closed
  /\ \A c \in closed : \E i \in DOMAIN closings[c.token] : Filed(closings[c.token][i]) = c

Row == [backtest : Nat, pair : Pairs, ts : Nat, closing : Closing]
Txn == [backtest : Nat, rows : Seq(Row), todo : [Tokens -> Seq(Closing)]]

(* A row says what was closed. *)
IsRow(r) ==
  /\ r = RowOf(r.backtest, r.closing) /\ r.closing.of = r.closing.open
  /\ r.closing.openTs < r.closing.closeTs /\ r.closing.closeTs <= MaxTotal

(* Those of one backtest and token come in turns, *)
RowsInOrder(rs) ==
  \A i, j \in DOMAIN rs :
    i < j /\ rs[i].backtest = rs[j].backtest /\ TokenOf[rs[i].pair] = TokenOf[rs[j].pair] =>
      rs[i].closing.closeTs < rs[j].closing.openTs

(* and no two of a backtest hold the same closing trade. *)
RowsApart(rs) ==
  \A i, j \in DOMAIN rs :
    rs[i].backtest = rs[j].backtest /\ rs[i].closing.close = rs[j].closing.close => i = j

(* How many of a token's closed trades the transaction has inserted. *)
Inserted(t) == Len(closings[t]) - Len(txn.todo[t])

(* The transaction runs once the book is final, and holds a row for every   *)
(* closed trade that is not to be inserted yet.                             *)
TxnKept ==
  /\ txn \in Txn
  /\ txn # NoTxn =>
       /\ handle = "done" /\ txn.backtest = Len(backtests) + 1
       /\ \A t \in Tokens :
            /\ Inserted(t) \in 0..Len(closings[t])
            /\ \A i \in DOMAIN txn.todo[t] : txn.todo[t][i] = closings[t][Inserted(t) + i]
            /\ \A i \in 1..Inserted(t) : \E j \in DOMAIN txn.rows :
                 txn.rows[j] = RowOf(txn.backtest, closings[t][i])
       /\ \A j \in DOMAIN txn.rows : \E t \in Tokens : \E i \in 1..Inserted(t) :
            txn.rows[j] = RowOf(txn.backtest, closings[t][i])
       /\ RowsInOrder(txn.rows) /\ RowsApart(txn.rows)

TablesKept ==
  /\ backtests \in Seq([end : Nat]) /\ rows \in Seq(Row) /\ filed \in Seq(SUBSET ClosedTrade)
  /\ Len(filed) = Len(backtests)
  /\ \A i \in DOMAIN rows : rows[i].backtest \in DOMAIN backtests /\ IsRow(rows[i])
  /\ RowsInOrder(rows) /\ RowsApart(rows)
  /\ \A b \in DOMAIN backtests : filed[b] = {Filed(rows[i].closing) : i \in RowsOf(b)}

ReportInv ==
  /\ BookInv /\ InlineInv /\ FinalInv /\ TradeInv
  /\ TimesKept /\ OneDecision /\ ClosingsKept /\ RequestsKept /\ ClosingsFiled
  /\ TxnKept /\ TablesKept
  /\ run \in 1..MaxRuns /\ total \in Nat /\ total + block <= MaxTotal
=============================================================================
