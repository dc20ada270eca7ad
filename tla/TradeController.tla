--------------------------- MODULE TradeController ---------------------------
(***************************************************************************)
(* The position state machine of bin/strategy: StrategyExecutor takes one   *)
(* block message at a time, decides per pair, and spawns one task per       *)
(* request; TradeController runs open_position and close_position for them; *)
(* send_tx confirms inline (backtest), in a detached task after a           *)
(* transaction was sent (live), or in a detached task without one (the      *)
(* crate's own tests); pending_handle polls until nothing is pending and    *)
(* the closed trades are then written out.                                  *)
(*                                                                          *)
(* The trade book is one RwLock.  Its writers are single actions here; its  *)
(* one long reader, the dispatch loop, holds it from BeginBlock until       *)
(* EndDispatch, and every writer has LockFree as a guard.                   *)
(***************************************************************************)
EXTENDS Naturals, FiniteSets

CONSTANTS
  Tokens,     \* token addresses: the keys of Trades
  Pairs,      \* pair addresses: several pairs may trade one token
  TokenOf,    \* TokenOf[p]: the token side of pair p
  DexOf,      \* DexOf[p]: "v2" or "v3"
  Mode,       \* which arm of send_tx is compiled in or configured
  MaxBlock,   \* bound: how many block messages the indexer delivers at most
  NoTrade

ASSUME TokensAssumption == TokenOf \in [Pairs -> Tokens]
ASSUME DexAssumption    == DexOf \in [Pairs -> {"v2", "v3"}]
ASSUME ModeAssumption   == Mode \in {"test", "backtest", "live"}
ASSUME BoundAssumption  == MaxBlock \in Nat

(* TradeMetadata: an executed trade, its unique tx hash and its pair. *)
Trade == [id : Nat, pair : Pairs]

ASSUME NoTradeAssumption == NoTrade \notin Trade

VARIABLES
  block,      \* how many block messages have been taken
  phase,      \* where on_indexed_block_message is
  unvisited,  \* pairs of the current message the loop has yet to look at
  active,     \* active[t]: the AddressTrades entry of t and its active trade
  closed,     \* the closed trades of every AddressTrades
  task,       \* task[p]: the JoinSet task spawned for p in this block
  watch,      \* the detached confirmation tasks
  chain,      \* transactions the node accepted (live only)
  nextId,     \* source of fresh tx hashes
  handle,     \* main: indexing, awaiting pending_handle, done, saved
  saved       \* what insert_backtest_closed_trades wrote

exec == <<block, phase, unvisited>>
book == <<active, closed>>
vars == <<exec, book, task, watch, chain, nextId, handle, saved>>
-----------------------------------------------------------------------------
MaybeTrade == Trade \cup {NoTrade}

(* Option<Trade> of a token, "missing" when it has no AddressTrades entry. *)
Flat         == [st |-> "flat", trade |-> NoTrade]
PendingOpen  == [st |-> "pendingOpen", trade |-> NoTrade]
PendingClose == [st |-> "pendingClose", trade |-> NoTrade]
Open(m)      == [st |-> "open", trade |-> m]
Missing      == [st |-> "missing", trade |-> NoTrade]

Entry == {e \in [st : {"missing", "flat", "pendingOpen", "open", "pendingClose"},
                  trade : MaybeTrade] : (e.st = "open") <=> (e.trade # NoTrade)}

(* Closed pairs also carry `of`, the trade the closing request named. *)
ClosedTrade == [token : Tokens, open : Trade, close : Trade, of : MaybeTrade]

(* A task knows its request (op, and for a close the open trade it names)  *)
(* and, once it has claimed the token, the open trade it took.             *)
Op      == {"open", "close"}
Task    == [pc : {"idle", "spawned", "claimed", "traced", "done"},
            op : Op, of : MaybeTrade, held : MaybeTrade]
Watcher == [trade : Trade, op : Op, of : MaybeTrade, held : MaybeTrade]
ChainTx == [trade : Trade, op : Op, of : MaybeTrade,
            status : {"mempool", "mined", "reverted"}]

IdleTask == [pc |-> "idle", op |-> "open", of |-> NoTrade, held |-> NoTrade]

TypeOK ==
  /\ block \in 0..MaxBlock
  /\ phase \in {"idle", "dispatch", "join"}
  /\ unvisited \in SUBSET Pairs
  /\ active \in [Tokens -> Entry]
  /\ closed \in SUBSET ClosedTrade
  /\ task \in [Pairs -> Task]
  /\ watch \in SUBSET Watcher
  /\ chain \in SUBSET ChainTx
  /\ nextId \in Nat
  /\ handle \in {"indexing", "polling", "done", "saved"}
  /\ saved \in SUBSET ClosedTrade

Init ==
  /\ block = 0
  /\ phase = "idle"
  /\ unvisited = {}
  /\ active = [t \in Tokens |-> Missing]
  /\ closed = {}
  /\ task = [p \in Pairs |-> IdleTask]
  /\ watch = {}
  /\ chain = {}
  /\ nextId = 0
  /\ handle = "indexing"
  /\ saved = {}
-----------------------------------------------------------------------------
(* Definitions named X_Something, here and below, are plausible bugs in the  *)
(* definition X that follows them; the project's mutation runs put one in    *)
(* the place of X to show that a property notices.  No action uses them.     *)

(* Trades: every write goes through the lock the dispatch loop reads under. *)
LockFree == phase # "dispatch"

(* Trades::set_active: an error, logged by its callers, without an entry. *)
SetActive(t, entry) ==
  active' = [active EXCEPT ![t] = IF @ = Missing THEN Missing ELSE entry]

(* on_confirmed(Ok): the position is opened, or leaves the book closed. *)
Commit(r, m) ==
  LET t == TokenOf[m.pair] IN
  IF r.op = "open"
  THEN SetActive(t, Open(m)) /\ UNCHANGED closed
  ELSE /\ SetActive(t, Flat)
       /\ closed' = IF active[t] = Missing THEN closed
                    ELSE closed \cup {[token |-> t, open |-> r.held, close |-> m, of |-> r.of]}

(* The failure is logged and the entry left pending. *)
Revert_Forgotten(r, t) == UNCHANGED book

(* A failed open gets back what it held as a failed close does. *)
Revert_ToHeld(r, t) == SetActive(t, Open(r.held)) /\ UNCHANGED closed

(* A failed close clears the entry as a failed open does. *)
Revert_ToFlat(r, t) == SetActive(t, Flat) /\ UNCHANGED closed

(* on_confirmed(Err) and every failure before it: undo the claim. *)
Revert(r, t) ==
  /\ SetActive(t, IF r.op = "open" THEN Flat ELSE Open(r.held))
  /\ UNCHANGED closed
-----------------------------------------------------------------------------
(* StrategyExecutor.on_indexed_block_message *)

(* The indexer hands over a block message; the read lock is taken. *)
BeginBlock(pairs) ==
  /\ handle = "indexing" /\ phase = "idle" /\ block < MaxBlock
  /\ block' = block + 1
  /\ phase' = "dispatch"
  /\ unvisited' = pairs
  /\ UNCHANGED <<book, task, watch, chain, nextId, handle, saved>>

Visit(p) == phase = "dispatch" /\ p \in unvisited /\ unvisited' = unvisited \ {p}

Spawn(p, op, of) ==
  /\ task' = [task EXCEPT ![p] = [pc |-> "spawned", op |-> op, of |-> of, held |-> NoTrade]]
  /\ UNCHANGED <<block, phase, book, watch, chain, nextId, handle, saved>>

(* No active trade, and the strategy says should_open_position. *)
RequestOpen(p) == /\ Visit(p)
                  /\ active[TokenOf[p]] \in {Missing, Flat}
                  /\ Spawn(p, "open", NoTrade)

(* An open trade, and should_close_position: the request names that trade. *)
RequestClose(p) == /\ Visit(p)
                   /\ active[TokenOf[p]].st = "open"
                   /\ Spawn(p, "close", active[TokenOf[p]].trade)

(* The strategy declines, or the token's trade is pending: unactionable. *)
Skip(p) == /\ Visit(p)
           /\ UNCHANGED <<block, phase, book, task, watch, chain, nextId, handle, saved>>

(* The read guards are dropped at the end of the loop. *)
EndDispatch ==
  /\ phase = "dispatch" /\ unvisited = {}
  /\ phase' = "join"
  /\ UNCHANGED <<block, unvisited, book, task, watch, chain, nextId, handle, saved>>

(* join_next until the JoinSet is empty, then the block is done. *)
JoinAll ==
  /\ phase = "join"
  /\ \A p \in Pairs : task[p].pc \in {"idle", "done"}
  /\ phase' = "idle"
  /\ task' = [p \in Pairs |-> IdleTask]
  /\ UNCHANGED <<block, unvisited, book, watch, chain, nextId, handle, saved>>
-----------------------------------------------------------------------------
(* TradeController.open_position and close_position, run by a task *)

AtPc(p, pc) == LockFree /\ task[p].pc = pc

Goto(p, pc) == task' = [task EXCEPT ![p].pc = pc]

(* Only an open position counts as a position. *)
HasNoTrade_PendingIgnored(t) == active[t].st # "open"

HasNoTrade(t) == active[t] \in {Missing, Flat}

(* open_position: take the token unless it already has a position. *)
ClaimOpen(p) ==
  /\ AtPc(p, "spawned") /\ task[p].op = "open"
  /\ HasNoTrade(TokenOf[p])
  /\ active' = [active EXCEPT ![TokenOf[p]] = PendingOpen]
  /\ Goto(p, "claimed")
  /\ UNCHANGED <<exec, closed, watch, chain, nextId, handle, saved>>

SwappedOut(t) == active[t].trade

(* close_position: swap PendingClose in, keep the open trade that was there. *)
ClaimClose(p) ==
  /\ AtPc(p, "spawned") /\ task[p].op = "close"
  /\ active[TokenOf[p]].st = "open"
  /\ active' = [active EXCEPT ![TokenOf[p]] = PendingClose]
  /\ task' = [task EXCEPT ![p].pc = "claimed", ![p].held = SwappedOut(TokenOf[p])]
  /\ UNCHANGED <<exec, closed, watch, chain, nextId, handle, saved>>

(* The token is not in the state the request needs: Err, book as it was. *)
RejectClaim(p) ==
  /\ AtPc(p, "spawned")
  /\ IF task[p].op = "open" THEN ~ HasNoTrade(TokenOf[p])
                            ELSE active[TokenOf[p]].st # "open"
  /\ Goto(p, "done")
  /\ UNCHANGED <<exec, book, watch, chain, nextId, handle, saved>>

TraceOk(p) ==
  /\ AtPc(p, "claimed")
  /\ Goto(p, "traced")
  /\ UNCHANGED <<exec, book, watch, chain, nextId, handle, saved>>

(* trace fails, or (live) the transaction cannot be made or sent.  The trait *)
(* lets trace fail and open_position handles it; both DEXes' trace is a stub *)
(* that succeeds (a FIXME), so the failure is the trait's, not theirs.       *)
FailBeforeSend(p) ==
  /\ \/ AtPc(p, "claimed")
     \/ AtPc(p, "traced") /\ Mode = "live"
  /\ Revert(task[p], TokenOf[p])
  /\ Goto(p, "done")
  /\ UNCHANGED <<exec, watch, chain, nextId, handle, saved>>

(* A pair closes whatever trade it is given. *)
Executable_Any(p, r) == TRUE

(* A pair refuses to close a trade that was made on the other DEX. *)
Executable(p, r) == (r.op = "close") => (DexOf[r.of.pair] = DexOf[p])

(* Backtest: the simulation is awaited and on_confirmed runs in the task. *)
SimulateOk(p) ==
  /\ Mode = "backtest" /\ AtPc(p, "traced") /\ Executable(p, task[p])
  /\ nextId' = nextId + 1
  /\ Commit(task[p], [id |-> nextId, pair |-> p])
  /\ Goto(p, "done")
  /\ UNCHANGED <<exec, watch, chain, handle, saved>>

SimulateErr(p) ==
  /\ Mode = "backtest" /\ AtPc(p, "traced")
  /\ Revert(task[p], TokenOf[p])
  /\ Goto(p, "done")
  /\ UNCHANGED <<exec, watch, chain, nextId, handle, saved>>

(* Live: the node took the transaction; test: there is none to take.  The  *)
(* confirmation is awaited by a detached task in both.                      *)
SendTx(p) ==
  LET m == [id |-> nextId, pair |-> p]
      r == task[p]
  IN
  /\ Mode # "backtest" /\ AtPc(p, "traced")
  /\ Mode = "live" => Executable(p, r)
  /\ nextId' = nextId + 1
  /\ watch' = watch \cup {[trade |-> m, op |-> r.op, of |-> r.of, held |-> r.held]}
  /\ chain' = IF Mode = "live"
              THEN chain \cup {[trade |-> m, op |-> r.op, of |-> r.of, status |-> "mempool"]}
              ELSE chain
  /\ Goto(p, "done")
  /\ UNCHANGED <<exec, book, handle, saved>>

(* send_tx: the arm of the mode the controller runs in. *)
Execute(p) == AtPc(p, "traced") /\ (SimulateOk(p) \/ SimulateErr(p) \/ SendTx(p))
-----------------------------------------------------------------------------
(* The detached confirmation tasks and the chain they watch *)

Mined(w) == [trade |-> w.trade, op |-> w.op, of |-> w.of, status |-> "mined"]

(* into_trade_metadata succeeds: the receipt is there and holds the trade. *)
Confirm(w) ==
  /\ LockFree /\ w \in watch
  /\ Mode = "live" => Mined(w) \in chain
  /\ Commit(w, w.trade)
  /\ watch' = watch \ {w}
  /\ UNCHANGED <<exec, task, chain, nextId, handle, saved>>

(* It fails: no receipt within the 10 second timeout, whatever becomes of   *)
(* the transaction later; a reverted one (its receipt holds no trade); or a *)
(* mined one whose block header cannot be fetched.                          *)
ConfirmErr(w) ==
  /\ LockFree /\ w \in watch
  /\ Revert(w, TokenOf[w.trade.pair])
  /\ watch' = watch \ {w}
  /\ UNCHANGED <<exec, task, chain, nextId, handle, saved>>

(* Environment: a pending transaction is included, or fails on chain. *)
Settle(c, status) ==
  /\ c \in chain /\ c.status = "mempool"
  /\ chain' = (chain \ {c}) \cup {[c EXCEPT !.status = status]}
  /\ UNCHANGED <<exec, book, task, watch, nextId, handle, saved>>
-----------------------------------------------------------------------------
(* main, after the indexer returned *)

(* The indexer has delivered its last block. *)
IndexerDone ==
  /\ handle = "indexing" /\ phase = "idle"
  /\ handle' = "polling"
  /\ UNCHANGED <<exec, book, task, watch, chain, nextId, saved>>

(* pending_handle forgets about closes, or waits for open positions too. *)
IsPending_OpenOnly(t) == active[t] = PendingOpen
IsPending_AnyTrade(t) == active[t].st \notin {"missing", "flat"}

IsPending(t) == active[t] \in {PendingOpen, PendingClose}

(* pending_handle: while a trade is pending it sleeps and looks again, *)
PollAgain ==
  /\ handle = "polling"
  /\ \E t \in Tokens : IsPending(t)
  /\ UNCHANGED vars

(* and leaves its loop when none is. *)
PollDone ==
  /\ handle = "polling"
  /\ \A t \in Tokens : ~ IsPending(t)
  /\ handle' = "done"
  /\ UNCHANGED <<exec, book, task, watch, chain, nextId, saved>>

(* insert_backtest_closed_trades, in main's transaction. *)
SaveClosed ==
  /\ handle = "done"
  /\ handle' = "saved"
  /\ saved' = closed
  /\ UNCHANGED <<exec, book, task, watch, chain, nextId>>

(* The process has nothing left to do. *)
Finished == handle = "saved" /\ watch = {} /\ UNCHANGED vars
-----------------------------------------------------------------------------
TaskStep(p) ==
  \/ ClaimOpen(p) \/ ClaimClose(p) \/ RejectClaim(p)
  \/ TraceOk(p) \/ FailBeforeSend(p)
  \/ Execute(p)

Dispatch == \/ \E pairs \in (SUBSET Pairs) \ {{}} : BeginBlock(pairs)
            \/ \E p \in Pairs : RequestOpen(p) \/ RequestClose(p) \/ Skip(p)
            \/ EndDispatch
            \/ JoinAll

Resolve == \E w \in watch : Confirm(w) \/ ConfirmErr(w)

Main == IndexerDone \/ PollDone \/ SaveClosed

Environment == \E c \in chain : Settle(c, "mined") \/ Settle(c, "reverted")

Next == Dispatch \/ (\E p \in Pairs : TaskStep(p)) \/ Resolve \/ Main \/ Environment
        \/ PollAgain \/ Finished

(* The runtime polls every ready task, and a confirmation ends at the       *)
(* latest with its timeout; nothing is asked of the chain.                  *)
Fairness == /\ WF_vars(Dispatch)
            /\ \A p \in Pairs : WF_vars(TaskStep(p))
            /\ WF_vars(Resolve)
            /\ WF_vars(Main)

Spec == Init /\ [][Next]_vars /\ Fairness
-----------------------------------------------------------------------------
(* Properties *)

(* Who is responsible for a pending token: a task past its claim, or the    *)
(* confirmation task it left behind.                                        *)
Owning(p) == task[p].pc \in {"claimed", "traced"}
Watched(w) == TokenOf[w.trade.pair]

Owners(t) == {<<"task", p>> : p \in {q \in Pairs : Owning(q) /\ TokenOf[q] = t}}
             \cup {<<"watch", w>> : w \in {v \in watch : Watched(v) = t}}

(* A pending token has exactly one owner and a token that is not pending    *)
(* has none: no interleaving of the tasks of one block with confirmations   *)
(* left over from earlier blocks puts two writers on one book entry, or     *)
(* leaves an entry pending with nobody to resolve it.                       *)
PendingOwned ==
  \A t \in Tokens : IF IsPending(t) THEN \E o \in Owners(t) : Owners(t) = {o}
                                    ELSE Owners(t) = {}

(* Every closed pair files the trade the closing request named, on a pair   *)
(* of the same token and, outside the mocked tests, of the same DEX: a      *)
(* close decided on one trade never closes the next one.                    *)
ClosedPairsMatch ==
  \A c \in closed :
    /\ c.of = c.open
    /\ TokenOf[c.open.pair] = c.token /\ TokenOf[c.close.pair] = c.token
    /\ Mode # "test" => DexOf[c.open.pair] = DexOf[c.close.pair]

(* In a backtest every confirmation runs inside the block's own tasks, so   *)
(* no token is pending between blocks: the next block's strategy decision   *)
(* is never skipped because of an unfinished trade.                         *)
BacktestQuiescent ==
  Mode = "backtest" /\ phase = "idle" => \A t \in Tokens : ~ IsPending(t)

(* Once the closed trades are written nothing can still change the book:    *)
(* the report is complete.                                                  *)
SavedIsComplete == handle = "saved" => saved = closed /\ watch = {}

(* A pending token is always resolved, whatever fails on the way. *)
PendingResolves == \A t \in Tokens : IsPending(t) ~> ~ IsPending(t)

(* When the indexer has returned without an error (main ends with one,      *)
(* which is not in this module), pending_handle returns and the closed      *)
(* trades are written.                                                      *)
ReportWritten == <>(handle = "saved")

(* Comment at the claim in open_position: "ensure that we do not already    *)
(* have a position for this token".  On chain: at most one opening          *)
(* transaction per token is mined and not closed by a mined close.          *)
OnChainPositions(t) ==
  {c \in chain : /\ c.op = "open" /\ c.status = "mined" /\ TokenOf[c.trade.pair] = t
                 /\ ~ \E d \in chain : d.op = "close" /\ d.status = "mined" /\ d.of = c.trade}
SinglePosition == \A t \in Tokens : Cardinality(OnChainPositions(t)) <= 1
-----------------------------------------------------------------------------
(* The controller implements the ledger: a position is held from its        *)
(* confirmation until the confirmation of its close; while a close is       *)
(* pending its owner still holds the trade.                                 *)
Holding(t) ==
  {active[t].trade} \cup {task[p].held : p \in {q \in Pairs : Owning(q) /\ TokenOf[q] = t}}
                    \cup {w.held : w \in {v \in watch : Watched(v) = t}}

heldTrade == [t \in Tokens |-> IF Holding(t) = {NoTrade} THEN NoTrade
                               ELSE CHOOSE m \in Holding(t) : m # NoTrade]

filedTrades == {[token |-> c.token, open |-> c.open, close |-> c.close] : c \in closed}

Ledger == INSTANCE PositionLedger
          WITH held <- heldTrade, filed <- filedTrades, Trades <- Trade

(* Every step of the controller opens one flat token with a fresh trade,    *)
(* closes one position and files it, or is invisible to the book's readers: *)
(* no failure, retry or race loses, duplicates or swaps a position.         *)
ImplementsLedger == Ledger!LedgerSpec
-----------------------------------------------------------------------------
(* The inductive invariant behind the safety properties *)

PendingOf(op) == IF op = "open" THEN PendingOpen ELSE PendingClose

(* Two owners never share a token, *)
OwnerUnique ==
  /\ \A p, q \in Pairs : Owning(p) /\ Owning(q) /\ TokenOf[p] = TokenOf[q] => p = q
  /\ \A p \in Pairs, w \in watch : Owning(p) => TokenOf[p] # Watched(w)
  /\ \A v, w \in watch : Watched(v) = Watched(w) => v = w

(* the entry of an owned token says what its owner is doing, *)
OwnerState ==
  /\ \A p \in Pairs : Owning(p) => active[TokenOf[p]] = PendingOf(task[p].op)
  /\ \A w \in watch : active[Watched(w)] = PendingOf(w.op)

(* and a pending token has an owner. *)
OwnerExists ==
  \A t \in Tokens : IsPending(t) =>
    \/ \E p \in Pairs : Owning(p) /\ TokenOf[p] = t
    \/ \E w \in watch : Watched(w) = t

(* No task runs between blocks, and none has started during the loop. *)
TaskPhase ==
  /\ phase = "idle" => \A p \in Pairs : task[p].pc = "idle"
  /\ phase = "dispatch" => \A p \in Pairs : task[p].pc \in {"idle", "spawned"}

(* An open position belongs to its token; a closing owner holds the trade   *)
(* its request names.                                                       *)
HeldTrades ==
  /\ \A t \in Tokens : active[t].st = "open" => TokenOf[active[t].trade.pair] = t
  /\ \A p \in Pairs : Owning(p) /\ task[p].op = "close" =>
       /\ task[p].held = task[p].of
       /\ task[p].held \in Trade
       /\ TokenOf[task[p].held.pair] = TokenOf[p]
  /\ \A w \in watch : w.op = "close" =>
       /\ w.held = w.of
       /\ w.held \in Trade
       /\ TokenOf[w.held.pair] = Watched(w)
       /\ Mode # "test" => DexOf[w.held.pair] = DexOf[w.trade.pair]

(* While a request to close waits to be claimed, its token holds the trade  *)
(* it names or has nothing left to close: nobody can have reopened it,      *)
(* since all requests of a block were decided on one reading of the book.   *)
WaitingClose(p) ==
  LET t == TokenOf[p] IN
  /\ task[p].of \in Trade
  /\ active[t].st \in {"flat", "open", "pendingClose"}
  /\ active[t].st = "open" => active[t].trade = task[p].of
  /\ phase = "dispatch" => active[t].st = "open"
  /\ \A q \in Pairs : TokenOf[q] = t =>
       /\ Owning(q) => task[q].held = task[p].of
       /\ task[q].pc = "spawned" => task[q].op = "close" /\ task[q].of = task[p].of
  /\ \A w \in watch : Watched(w) = t => w.held = task[p].of

Requests ==
  \A p \in Pairs : task[p].pc = "spawned" =>
    /\ task[p].op = "close" => WaitingClose(p)
    /\ task[p].op = "open" /\ phase = "dispatch" => HasNoTrade(TokenOf[p])

BookInv == /\ TypeOK
           /\ OwnerUnique /\ OwnerState /\ OwnerExists
           /\ TaskPhase /\ HeldTrades /\ Requests
           /\ ClosedPairsMatch

(* A confirmation is only ever detached outside backtests; *)
InlineInv == Mode = "backtest" => watch = {}

(* after the indexer no task runs, after pending_handle no confirmation is  *)
(* left either, and so the book is final when it is saved.                  *)
FinalInv ==
  /\ handle # "indexing" => phase = "idle"
  /\ handle \in {"done", "saved"} => watch = {}
  /\ handle = "saved" => saved = closed
-----------------------------------------------------------------------------
(* What the refinement needs beyond BookInv *)

(* Every trade that is in the book, in the hands of a task or filed. *)
UsedTrades ==
  ({active[t].trade : t \in Tokens} \cup {task[p].held : p \in Pairs} \cup {w.held : w \in watch}
    \cup {c.open : c \in closed} \cup {c.close : c \in closed}) \ {NoTrade}

(* The trade a confirmation waits for is nobody else's: it is not in use    *)
(* yet, no other confirmation waits for it, and hashes are never reused.    *)
FreshTrades ==
  /\ \A m \in UsedTrades : m.id < nextId
  /\ \A w \in watch : w.trade.id < nextId /\ w.trade \notin UsedTrades
  /\ \A v, w \in watch : v.trade = w.trade => v = w

(* Whoever opens a position holds none. *)
OpenersHoldNone ==
  /\ \A p \in Pairs : task[p].op = "open" => task[p].held = NoTrade
  /\ \A w \in watch : w.op = "open" => w.held = NoTrade

TradeInv == FreshTrades /\ OpenersHoldNone
=============================================================================
