------------------------ MODULE TradeControllerProofs ------------------------
(***************************************************************************)
(* Proofs about TradeController for every set of tokens and pairs, every    *)
(* mode and every number of blocks, and that it implements PositionLedger.  *)
(***************************************************************************)
EXTENDS TradeController, TLAPS

(* The constant entries of the book are entries. *)
LEMMA EntryFacts ==
  /\ Missing \in Entry /\ Flat \in Entry /\ PendingOpen \in Entry /\ PendingClose \in Entry
  /\ \A m \in Trade : Open(m) \in Entry
  /\ \A e \in Entry : e.st = "open" => e.trade \in Trade /\ e = Open(e.trade)
BY NoTradeAssumption DEF Entry, Missing, Flat, PendingOpen, PendingClose, Open, MaybeTrade

(* Writing an entry keeps the book well typed. *)
LEMMA SetActiveType ==
  ASSUME active \in [Tokens -> Entry], NEW t, NEW e \in Entry, SetActive(t, e)
  PROVE  active' \in [Tokens -> Entry]
BY EntryFacts DEF SetActive

(* A revert restores an entry: a closing owner holds a trade. *)
LEMMA RevertType ==
  ASSUME TypeOK, NEW r, NEW t, r.op \in Op, r.op = "close" => r.held \in Trade, Revert(r, t)
  PROVE  active' \in [Tokens -> Entry] /\ closed' = closed
<1>1. (IF r.op = "open" THEN Flat ELSE Open(r.held)) \in Entry
  BY EntryFacts DEF Op
<1>2. QED
  BY <1>1, SetActiveType DEF Revert, TypeOK

(* A commit leaves well typed entries and files well typed closed trades. *)
LEMMA CommitType ==
  ASSUME TypeOK, NEW r, NEW m \in Trade, r.op \in Op, r.of \in MaybeTrade,
         r.op = "close" => r.held \in Trade, Commit(r, m)
  PROVE  active' \in [Tokens -> Entry] /\ closed' \in SUBSET ClosedTrade
<1>1. TokenOf[m.pair] \in Tokens
  BY TokensAssumption DEF Trade
<1>2. CASE r.op = "open"
  BY <1>2, EntryFacts, SetActiveType DEF Commit, TypeOK
<1>3. CASE r.op = "close"
  <2>1. active' \in [Tokens -> Entry]
    BY <1>3, EntryFacts, SetActiveType DEF Commit, TypeOK
  <2>2. [token |-> TokenOf[m.pair], open |-> r.held, close |-> m, of |-> r.of] \in ClosedTrade
    BY <1>1, <1>3 DEF ClosedTrade
  <2>3. QED
    BY <1>3, <2>1, <2>2 DEF Commit, TypeOK
<1>4. QED
  BY <1>2, <1>3 DEF Op

-----------------------------------------------------------------------------
(* Type correctness of every step *)

(* What type correctness says of the pieces the actions read. *)
LEMMA Pieces ==
  ASSUME TypeOK
  PROVE  /\ \A p \in Pairs : /\ TokenOf[p] \in Tokens
                             /\ task[p] \in Task
                             /\ active[TokenOf[p]] \in Entry
         /\ \A w \in watch : /\ w \in Watcher /\ w.trade \in Trade /\ w.trade.pair \in Pairs
                             /\ Watched(w) \in Tokens
BY TokensAssumption DEF TypeOK, Watcher, Trade, Watched

(* A task moves on without touching the rest of its record. *)
LEMMA GotoType ==
  ASSUME TypeOK, NEW p \in Pairs,
         NEW pc \in {"idle", "spawned", "claimed", "traced", "done"}, Goto(p, pc)
  PROVE  /\ task' \in [Pairs -> Task]
         /\ task'[p] = [task[p] EXCEPT !.pc = pc]
         /\ \A q \in Pairs : q # p => task'[q] = task[q]
<1>1. [task[p] EXCEPT !.pc = pc] \in Task
  BY Pieces DEF Task
<1>2. QED
  BY <1>1 DEF Goto, TypeOK

LEMMA DispatchType == ASSUME BookInv, Dispatch PROVE TypeOK'
<1> USE DEF exec, book
<1>1. TypeOK
  BY DEF BookInv
<1>2. ASSUME NEW pairs \in SUBSET Pairs, BeginBlock(pairs) PROVE TypeOK'
  BY <1>1, <1>2, BoundAssumption DEF BeginBlock, TypeOK
<1>3. ASSUME NEW p \in Pairs, NEW op \in Op, NEW of \in MaybeTrade, Visit(p), Spawn(p, op, of)
      PROVE  TypeOK'
  <2>1. [pc |-> "spawned", op |-> op, of |-> of, held |-> NoTrade] \in Task
    BY DEF Task, MaybeTrade
  <2>2. QED
    BY <1>1, <1>3, <2>1 DEF Visit, Spawn, TypeOK
<1>4. ASSUME NEW p \in Pairs, RequestOpen(p) PROVE TypeOK'
  BY <1>3, <1>4 DEF RequestOpen, Op, MaybeTrade
<1>5. ASSUME NEW p \in Pairs, RequestClose(p) PROVE TypeOK'
  <2>1. active[TokenOf[p]].trade \in MaybeTrade
    BY <1>1, Pieces DEF Entry
  <2>2. QED
    BY <1>3, <1>5, <2>1 DEF RequestClose, Op
<1>6. ASSUME NEW p \in Pairs, Skip(p) PROVE TypeOK'
  BY <1>1, <1>6 DEF Skip, Visit, TypeOK
<1>7. CASE EndDispatch
  BY <1>1, <1>7 DEF EndDispatch, TypeOK
<1>8. CASE JoinAll
  <2>1. IdleTask \in Task
    BY DEF IdleTask, Task, Op, MaybeTrade
  <2>2. QED
    BY <1>1, <1>8, <2>1 DEF JoinAll, TypeOK
<1>9. QED
  BY <1>2, <1>4, <1>5, <1>6, <1>7, <1>8 DEF Dispatch

LEMMA TaskStepType == ASSUME BookInv, NEW p \in Pairs, TaskStep(p) PROVE TypeOK'
<1> USE DEF exec, book
<1>0. TypeOK
  BY DEF BookInv
<1>a. /\ task[p] \in Task /\ TokenOf[p] \in Tokens
      /\ Owning(p) /\ task[p].op = "close" => task[p].held \in Trade
  BY Pieces DEF BookInv, HeldTrades
<1>b. task[p].op \in Op /\ task[p].of \in MaybeTrade /\ task[p].held \in MaybeTrade
  BY <1>a DEF Task
<1>c. [id |-> nextId, pair |-> p] \in Trade /\ nextId + 1 \in Nat
  BY <1>0 DEF TypeOK, Trade
<1>1. CASE ClaimOpen(p)
  BY <1>0, <1>1, <1>a, GotoType, EntryFacts DEF ClaimOpen, TypeOK
<1>2. CASE ClaimClose(p)
  <2>1. SwappedOut(TokenOf[p]) \in MaybeTrade
    BY <1>0, Pieces DEF SwappedOut, Entry
  <2>2. [task[p] EXCEPT !.pc = "claimed", !.held = SwappedOut(TokenOf[p])] \in Task
    BY <1>a, <2>1 DEF Task
  <2>3. task' \in [Pairs -> Task]
    BY <1>0, <1>2, <2>2 DEF ClaimClose, TypeOK
  <2>4. QED
    BY <1>0, <1>2, <1>a, <2>3, EntryFacts DEF ClaimClose, TypeOK
<1>3. CASE RejectClaim(p)
  BY <1>0, <1>3, GotoType DEF RejectClaim, TypeOK
<1>4. CASE TraceOk(p)
  BY <1>0, <1>4, GotoType DEF TraceOk, TypeOK
<1>5. CASE FailBeforeSend(p)
  <2>1. Owning(p)
    BY <1>5 DEF FailBeforeSend, AtPc, Owning
  <2>2. active' \in [Tokens -> Entry] /\ closed' = closed
    BY <1>0, <1>5, <1>a, <1>b, <2>1, RevertType DEF FailBeforeSend
  <2>3. QED
    BY <1>0, <1>5, <2>2, GotoType DEF FailBeforeSend, TypeOK
<1>6. CASE SimulateOk(p)
  <2>1. Owning(p)
    BY <1>6 DEF SimulateOk, AtPc, Owning
  <2>2. active' \in [Tokens -> Entry] /\ closed' \in SUBSET ClosedTrade
    BY <1>0, <1>6, <1>a, <1>b, <1>c, <2>1, CommitType DEF SimulateOk
  <2>3. QED
    BY <1>0, <1>6, <1>c, <2>2, GotoType DEF SimulateOk, TypeOK
<1>7. CASE SimulateErr(p)
  <2>1. Owning(p)
    BY <1>7 DEF SimulateErr, AtPc, Owning
  <2>2. active' \in [Tokens -> Entry] /\ closed' = closed
    BY <1>0, <1>7, <1>a, <1>b, <2>1, RevertType DEF SimulateErr
  <2>3. QED
    BY <1>0, <1>7, <2>2, GotoType DEF SimulateErr, TypeOK
<1>8. CASE SendTx(p)
  <2> DEFINE m == [id |-> nextId, pair |-> p]
             w == [trade |-> m, op |-> task[p].op, of |-> task[p].of, held |-> task[p].held]
             c == [trade |-> m, op |-> task[p].op, of |-> task[p].of, status |-> "mempool"]
  <2>1. w \in Watcher /\ c \in ChainTx
    BY <1>b, <1>c DEF Watcher, ChainTx
  <2>2. watch' \in SUBSET Watcher /\ chain' \in SUBSET ChainTx
    BY <1>0, <1>8, <2>1 DEF SendTx, TypeOK
  <2>3. QED
    BY <1>0, <1>8, <1>c, <2>2, GotoType DEF SendTx, TypeOK
<1>9. QED
  BY <1>1, <1>2, <1>3, <1>4, <1>5, <1>6, <1>7, <1>8 DEF TaskStep, Execute

LEMMA ResolveType == ASSUME BookInv, NEW w \in watch, Confirm(w) \/ ConfirmErr(w) PROVE TypeOK'
<1> USE DEF exec, book
<1>0. TypeOK
  BY DEF BookInv
<1>a. /\ w.op \in Op /\ w.of \in MaybeTrade /\ w.trade \in Trade
      /\ w.op = "close" => w.held \in Trade
  BY <1>0, Pieces DEF Watcher, BookInv, HeldTrades
<1>1. CASE Confirm(w)
  <2>1. active' \in [Tokens -> Entry] /\ closed' \in SUBSET ClosedTrade
    BY <1>0, <1>1, <1>a, CommitType DEF Confirm
  <2>2. QED
    BY <1>0, <1>1, <2>1 DEF Confirm, TypeOK
<1>2. CASE ConfirmErr(w)
  <2>1. active' \in [Tokens -> Entry] /\ closed' = closed
    BY <1>0, <1>2, <1>a, RevertType DEF ConfirmErr
  <2>2. QED
    BY <1>0, <1>2, <2>1 DEF ConfirmErr, TypeOK
<1>3. QED
  BY <1>1, <1>2

LEMMA OthersType == ASSUME TypeOK, Main \/ Environment \/ PollAgain \/ Finished \/ UNCHANGED vars PROVE TypeOK'
<1> USE DEF exec, book, vars
<1>1. ASSUME NEW c \in chain, NEW s \in {"mined", "reverted"}, Settle(c, s) PROVE TypeOK'
  <2>1. [c EXCEPT !.status = s] \in ChainTx
    BY DEF TypeOK, ChainTx
  <2>2. QED
    BY <1>1, <2>1 DEF Settle, TypeOK
<1>2. CASE Environment
  BY <1>1, <1>2 DEF Environment
<1>3. CASE Main
  BY <1>3 DEF Main, IndexerDone, PollDone, SaveClosed, TypeOK
<1>4. CASE PollAgain \/ Finished \/ UNCHANGED vars
  BY <1>4 DEF PollAgain, Finished, vars, exec, book, TypeOK
<1>5. QED
  BY <1>2, <1>3, <1>4

-----------------------------------------------------------------------------
(* The rest of the invariant, action by action *)

SafeInv == /\ OwnerUnique /\ OwnerState /\ OwnerExists
           /\ TaskPhase /\ HeldTrades /\ Requests

(* Nothing the invariant reads has changed. *)
LEMMA QuietInv ==
  ASSUME BookInv, UNCHANGED <<phase, active, task, watch>>
  PROVE  SafeInv'
BY DEF BookInv, SafeInv, OwnerUnique, OwnerState, OwnerExists, TaskPhase, HeldTrades, Requests,
       WaitingClose, Owning, Watched, IsPending, HasNoTrade

(* The states of an entry exclude each other. *)
LEMMA Distinct ==
  /\ Missing # Flat /\ PendingOpen # PendingClose
  /\ Missing # PendingOpen /\ Missing # PendingClose
  /\ Flat # PendingOpen /\ Flat # PendingClose
  /\ PendingOpen.st # "open" /\ PendingClose.st # "open" /\ Flat.st # "open" /\ Missing.st # "open"
  /\ \A m : Open(m).st = "open" /\ Open(m).trade = m
  /\ \A m : Open(m) \notin {Missing, Flat, PendingOpen, PendingClose}
BY DEF Missing, Flat, PendingOpen, PendingClose, Open

LEMMA BeginBlockInv ==
  ASSUME BookInv, NEW pairs, BeginBlock(pairs)
  PROVE  SafeInv'
<1>1. /\ phase' = "dispatch" /\ UNCHANGED <<active, task, watch>>
      /\ \A p \in Pairs : task[p].pc = "idle"
  BY DEF BeginBlock, book, BookInv, TaskPhase
<1>2. QED
  BY <1>1 DEF BookInv, SafeInv, OwnerUnique, OwnerState, OwnerExists, TaskPhase, HeldTrades,
     Requests, Owning, Watched, IsPending

LEMMA SpawnInv ==
  ASSUME BookInv, NEW p \in Pairs, NEW op \in Op, NEW of, phase = "dispatch", Spawn(p, op, of),
         op = "open" => HasNoTrade(TokenOf[p]),
         op = "close" => active[TokenOf[p]].st = "open" /\ of = active[TokenOf[p]].trade
  PROVE  SafeInv'
<1> DEFINE t == TokenOf[p]
<1>1. /\ UNCHANGED <<phase, active, watch>>
      /\ task'[p] = [pc |-> "spawned", op |-> op, of |-> of, held |-> NoTrade]
      /\ \A q \in Pairs : q # p => task'[q] = task[q]
  BY DEF Spawn, book, BookInv, TypeOK
<1>2. \A q \in Pairs : task[q].pc \in {"idle", "spawned"} /\ task'[q].pc \in {"idle", "spawned"}
  BY <1>1 DEF BookInv, TaskPhase
<1>3. \A q \in Pairs : ~ Owning(q) /\ ~ Owning(q)'
  BY <1>2 DEF Owning
<1>4. (OwnerUnique /\ OwnerState /\ OwnerExists /\ TaskPhase /\ HeldTrades)'
  BY <1>1, <1>2, <1>3 DEF BookInv, OwnerUnique, OwnerState, OwnerExists, TaskPhase, HeldTrades,
     Watched, IsPending
<1>5. active[t] \in Entry
  BY Pieces DEF BookInv
<1>6. active[t].st = "open" => \A w \in watch : Watched(w) # t
  BY Distinct DEF BookInv, OwnerState, PendingOf
<1>7. ASSUME NEW q \in Pairs, task'[q].pc = "spawned", TokenOf[q] = t
      PROVE  task'[q].op = op /\ (op = "close" => task'[q].of = of)
  <2>1. CASE q = p
    BY <1>1, <2>1
  <2>2. CASE q # p
    <3>1. task[q] = task'[q] /\ task[q].pc = "spawned" /\ task[q].op \in Op
      BY <1>1, <1>7, <2>2, Pieces DEF BookInv, Task
    <3>2. task[q].op = "close" => active[t].st = "open" /\ active[t].trade = task[q].of
      BY <1>7, <3>1 DEF BookInv, Requests, WaitingClose
    <3>3. task[q].op = "open" => HasNoTrade(t)
      BY <1>7, <3>1 DEF BookInv, Requests
    <3>4. QED
      BY <3>1, <3>2, <3>3, Distinct DEF HasNoTrade, Op
  <2>3. QED
    BY <2>1, <2>2
<1>8. ASSUME NEW q \in Pairs, task'[q].pc = "spawned"
      PROVE  /\ task'[q].op = "close" => WaitingClose(q)'
             /\ task'[q].op = "open" => HasNoTrade(TokenOf[q])'
  <2>1. CASE TokenOf[q] = t
    <3>1. task'[q].op = op /\ (op = "close" => task'[q].of = of)
      BY <1>7, <1>8, <2>1
    <3>2. op = "close" => of \in Trade
      BY <1>5, EntryFacts
    <3>3. ASSUME op = "close" PROVE WaitingClose(q)'
      BY <1>1, <1>3, <1>6, <1>7, <2>1, <3>1, <3>2, <3>3 DEF WaitingClose, Watched
    <3>4. QED
      BY <1>1, <2>1, <3>1, <3>3 DEF HasNoTrade
  <2>2. CASE TokenOf[q] # t
    <3>1. q # p /\ task'[q] = task[q] /\ task[q].pc = "spawned"
      BY <1>1, <1>8, <2>2
    <3>2. ASSUME task[q].op = "close" PROVE WaitingClose(q)'
      <4>1. WaitingClose(q)
        BY <3>1, <3>2 DEF BookInv, Requests
      <4>2. \A r \in Pairs : TokenOf[r] = TokenOf[q] => task'[r] = task[r]
        BY <1>1, <2>2
      <4>3. QED
        BY <1>1, <1>3, <3>1, <4>1, <4>2 DEF WaitingClose, Watched
    <3>3. QED
      BY <1>1, <3>1, <3>2 DEF BookInv, Requests, HasNoTrade
  <2>3. QED
    BY <2>1, <2>2
<1>9. QED
  BY <1>4, <1>8 DEF SafeInv, Requests

LEMMA EndDispatchInv == ASSUME BookInv, EndDispatch PROVE SafeInv'
BY DEF EndDispatch, book, BookInv, SafeInv, OwnerUnique, OwnerState, OwnerExists, TaskPhase,
       HeldTrades, Requests, WaitingClose, Owning, Watched, IsPending, HasNoTrade

LEMMA JoinAllInv == ASSUME BookInv, JoinAll PROVE SafeInv'
<1>1. /\ phase' = "idle" /\ UNCHANGED <<active, watch>>
      /\ \A p \in Pairs : ~ Owning(p) /\ task'[p].pc = "idle"
  BY DEF JoinAll, book, Owning, IdleTask
<1>2. \A p \in Pairs : ~ Owning(p)'
  BY <1>1 DEF Owning
<1>3. QED
  BY <1>1, <1>2 DEF BookInv, SafeInv, OwnerUnique, OwnerState, OwnerExists, TaskPhase,
     HeldTrades, Requests, Watched, IsPending

LEMMA DispatchInv == ASSUME BookInv, Dispatch PROVE SafeInv'
<1>1. ASSUME NEW p \in Pairs, RequestOpen(p) PROVE SafeInv'
  BY <1>1, SpawnInv DEF RequestOpen, Visit, Op, HasNoTrade
<1>2. ASSUME NEW p \in Pairs, RequestClose(p) PROVE SafeInv'
  BY <1>2, SpawnInv DEF RequestClose, Visit, Op
<1>3. ASSUME NEW p \in Pairs, Skip(p) PROVE SafeInv'
  BY <1>3, QuietInv DEF Skip, book
<1>4. QED
  BY <1>1, <1>2, <1>3, BeginBlockInv, EndDispatchInv, JoinAllInv DEF Dispatch

(* A task that is running runs in the join phase. *)
LEMMA Joining ==
  ASSUME BookInv, NEW p \in Pairs, NEW pc \in {"spawned", "claimed", "traced"}, AtPc(p, pc)
  PROVE  phase = "join"
BY DEF AtPc, LockFree, BookInv, TaskPhase, TypeOK

(* A claim makes its task the one owner of the token. *)
LEMMA ClaimOpenInv == ASSUME BookInv, NEW p \in Pairs, ClaimOpen(p) PROVE SafeInv'
<1> DEFINE t == TokenOf[p]
<1>1. /\ phase = "join" /\ UNCHANGED <<phase, watch>>
      /\ task[p].pc = "spawned" /\ task[p].op = "open" /\ HasNoTrade(t)
  BY Joining DEF ClaimOpen, AtPc, exec
<1>2. /\ task'[p] = [task[p] EXCEPT !.pc = "claimed"]
      /\ \A q \in Pairs : q # p => task'[q] = task[q]
  BY <1>1, GotoType DEF ClaimOpen, BookInv
<1>3. /\ t \in Tokens
      /\ active'[t] = PendingOpen /\ \A u \in Tokens : u # t => active'[u] = active[u]
  BY TokensAssumption DEF ClaimOpen, BookInv, TypeOK
<1>4. task'[p].pc = "claimed" /\ task'[p].op = "open"
  BY <1>1, <1>2, Pieces DEF BookInv, Task
<1>5. /\ \A q \in Pairs : Owning(q) => TokenOf[q] # t
      /\ \A w \in watch : Watched(w) # t
  BY <1>1, Distinct DEF HasNoTrade, BookInv, OwnerState, PendingOf
<1>6. /\ Owning(p)' /\ \A q \in Pairs : q # p => (Owning(q)' <=> Owning(q))
      /\ \A w \in watch : Watched(w)' = Watched(w)
  BY <1>2, <1>4 DEF Owning, Watched
<1>7. \A q \in Pairs : TokenOf[q] \in Tokens
  BY TokensAssumption
<1>8. \A w \in watch : Watched(w) \in Tokens
  BY Pieces DEF BookInv
<1>9. OwnerUnique'
  BY <1>1, <1>5, <1>6 DEF BookInv, OwnerUnique
<1>10. OwnerState'
  <2>1. active'[t] = PendingOf(task'[p].op)
    BY <1>3, <1>4 DEF PendingOf
  <2>2. \A q \in Pairs : q # p /\ Owning(q) => TokenOf[q] # t /\ active[TokenOf[q]] = PendingOf(task[q].op)
    BY <1>5 DEF BookInv, OwnerState
  <2>3. \A w \in watch : Watched(w) # t /\ active[Watched(w)] = PendingOf(w.op)
    BY <1>5 DEF BookInv, OwnerState
  <2>4. ASSUME NEW q \in Pairs, Owning(q)' PROVE active'[TokenOf[q]] = PendingOf(task'[q].op)
    <3>1. CASE q = p
      BY <3>1, <2>1
    <3>2. CASE q # p
      BY <3>2, <2>4, <1>2, <1>3, <1>6, <1>7, <2>2
    <3>3. QED
      BY <3>1, <3>2
  <2>5. ASSUME NEW w \in watch PROVE active'[Watched(w)'] = PendingOf(w.op)
    BY <1>3, <1>6, <1>8, <2>3
  <2>6. QED
    BY <1>1, <2>4, <2>5 DEF OwnerState, PendingOf
<1>11. OwnerExists'
  BY <1>1, <1>3, <1>6 DEF BookInv, OwnerExists, IsPending
<1>12. TaskPhase'
  BY <1>1 DEF TaskPhase
<1>13. HeldTrades'
  <2>1. PendingOpen.st # "open"
    BY Distinct
  <2>2. \A u \in Tokens : active'[u].st = "open" => TokenOf[active'[u].trade.pair] = u
    BY <1>3, <2>1 DEF BookInv, HeldTrades
  <2>3. \A q \in Pairs : (Owning(q) /\ task[q].op = "close")' => task'[q] = task[q] /\ Owning(q)
    BY <1>2, <1>4, <1>6
  <2>4. QED
    BY <1>1, <2>2, <2>3 DEF BookInv, HeldTrades
<1>14. \A q \in Pairs : task[q].pc = "spawned" /\ TokenOf[q] = t => task[q].op # "close"
  BY <1>1 DEF BookInv, Requests, WaitingClose
<1>15. Requests'
  <2>1. SUFFICES ASSUME NEW q \in Pairs, task'[q].pc = "spawned", task'[q].op = "close"
                 PROVE  WaitingClose(q)'
    BY <1>1 DEF Requests
  <2>2. q # p /\ task'[q] = task[q] /\ TokenOf[q] # t /\ WaitingClose(q)
    BY <2>1, <1>2, <1>4, <1>14 DEF BookInv, Requests
  <2>3. QED
    BY <2>2, <1>1, <1>2, <1>3, <1>6, <1>7 DEF WaitingClose
<1>16. QED
  BY <1>9, <1>10, <1>11, <1>12, <1>13, <1>15 DEF SafeInv

LEMMA ClaimCloseInv == ASSUME BookInv, NEW p \in Pairs, ClaimClose(p) PROVE SafeInv'
<1> DEFINE t == TokenOf[p]
<1>1. /\ phase = "join" /\ UNCHANGED <<phase, watch>>
      /\ task[p].pc = "spawned" /\ task[p].op = "close" /\ active[t].st = "open"
  BY Joining DEF ClaimClose, AtPc, exec
<1>2. WaitingClose(p)
  BY <1>1 DEF BookInv, Requests
<1>3. /\ t \in Tokens
      /\ active'[t] = PendingClose /\ \A u \in Tokens : u # t => active'[u] = active[u]
      /\ active[t].trade = task[p].of /\ task[p].of \in Trade /\ TokenOf[task[p].of.pair] = t
  BY <1>1, <1>2, TokensAssumption DEF ClaimClose, BookInv, TypeOK, WaitingClose, HeldTrades
<1>4. /\ task'[p].pc = "claimed" /\ task'[p].op = "close"
      /\ task'[p].held = task[p].of /\ task'[p].of = task[p].of
      /\ \A q \in Pairs : q # p => task'[q] = task[q]
  BY <1>1, <1>3, Pieces DEF ClaimClose, BookInv, TypeOK, Task, SwappedOut
<1>5. /\ \A q \in Pairs : Owning(q) => TokenOf[q] # t
      /\ \A w \in watch : Watched(w) # t
  BY <1>1, Distinct DEF BookInv, OwnerState, PendingOf
<1>6. /\ Owning(p)' /\ \A q \in Pairs : q # p => (Owning(q)' <=> Owning(q))
      /\ \A w \in watch : Watched(w)' = Watched(w)
  BY <1>4 DEF Owning, Watched
<1>7. \A q \in Pairs : TokenOf[q] \in Tokens
  BY TokensAssumption
<1>8. \A w \in watch : Watched(w) \in Tokens
  BY Pieces DEF BookInv
<1>9. OwnerUnique'
  BY <1>1, <1>5, <1>6 DEF BookInv, OwnerUnique
<1>10. OwnerState'
  BY <1>1, <1>3, <1>4, <1>5, <1>6, <1>7, <1>8 DEF BookInv, OwnerState, PendingOf
<1>11. OwnerExists'
  BY <1>1, <1>3, <1>6 DEF BookInv, OwnerExists, IsPending
<1>12. TaskPhase'
  BY <1>1 DEF TaskPhase
<1>13. HeldTrades'
  BY <1>1, <1>3, <1>4, <1>6, Distinct DEF BookInv, HeldTrades
<1>14. Requests'
  <2>1. SUFFICES ASSUME NEW q \in Pairs, task'[q].pc = "spawned", task'[q].op = "close"
                 PROVE  WaitingClose(q)'
    BY <1>1 DEF Requests
  <2>2. q # p /\ task'[q] = task[q] /\ WaitingClose(q)
    BY <2>1, <1>4 DEF BookInv, Requests
  <2>3. CASE TokenOf[q] # t
    BY <2>2, <2>3, <1>1, <1>3, <1>4, <1>6, <1>7 DEF WaitingClose
  <2>4. CASE TokenOf[q] = t
    <3>1. task[q].of = task[p].of
      BY <2>2, <2>4, <1>1 DEF WaitingClose
    <3>2. active'[t].st = "pendingClose"
      BY <1>3 DEF PendingClose
    <3>3. \A r \in Pairs : TokenOf[r] = t =>
            /\ Owning(r)' => r = p
            /\ task'[r].pc = "spawned" => task'[r] = task[r]
      BY <1>4, <1>5, <1>6
    <3>4. QED
      BY <2>2, <2>4, <3>1, <3>2, <3>3, <1>1, <1>4, <1>5, <1>6 DEF WaitingClose
  <2>5. QED
    BY <2>3, <2>4
<1>15. QED
  BY <1>9, <1>10, <1>11, <1>12, <1>13, <1>14 DEF SafeInv

(* A task that moves on without taking or giving up a token. *)
LEMMA MoveInv ==
  ASSUME BookInv, NEW p \in Pairs, UNCHANGED <<phase, active, watch>>, phase = "join",
         \/ task[p].pc = "spawned" /\ Goto(p, "done")
         \/ task[p].pc = "claimed" /\ Goto(p, "traced")
  PROVE  SafeInv'
<1>1. /\ \A q \in Pairs : q # p => task'[q] = task[q]
      /\ \/ task[p].pc = "spawned" /\ task'[p].pc = "done"
         \/ task[p].pc = "claimed" /\ task'[p].pc = "traced"
      /\ task'[p].op = task[p].op /\ task'[p].of = task[p].of /\ task'[p].held = task[p].held
  <2>1. TypeOK /\ task[p] \in Task
    BY Pieces DEF BookInv
  <2>2. \A g : [task[p] EXCEPT !.pc = g]
                 = [pc |-> g, op |-> task[p].op, of |-> task[p].of, held |-> task[p].held]
    BY <2>1 DEF Task
  <2>3. CASE task[p].pc = "spawned" /\ Goto(p, "done")
    <3>1. task'[p] = [task[p] EXCEPT !.pc = "done"] /\ \A q \in Pairs : q # p => task'[q] = task[q]
      BY <2>1, <2>3, GotoType
    <3>2. QED
      BY <2>2, <2>3, <3>1
  <2>4. CASE task[p].pc = "claimed" /\ Goto(p, "traced")
    <3>1. task'[p] = [task[p] EXCEPT !.pc = "traced"] /\ \A q \in Pairs : q # p => task'[q] = task[q]
      BY <2>1, <2>4, GotoType
    <3>2. QED
      BY <2>2, <2>4, <3>1
  <2>5. QED
    BY <2>3, <2>4
<1>2. /\ \A q \in Pairs : (Owning(q)' <=> Owning(q))
      /\ \A w \in watch : Watched(w)' = Watched(w)
  BY <1>1 DEF Owning, Watched
<1>3. (OwnerUnique /\ OwnerState /\ OwnerExists /\ TaskPhase)'
  BY <1>1, <1>2 DEF BookInv, OwnerUnique, OwnerState, OwnerExists, TaskPhase, IsPending
<1>4. HeldTrades'
  BY <1>1, <1>2 DEF BookInv, HeldTrades
<1>5. Requests'
  <2>1. SUFFICES ASSUME NEW q \in Pairs, task'[q].pc = "spawned", task'[q].op = "close"
                 PROVE  WaitingClose(q)'
    BY DEF Requests
  <2>2. q # p /\ task'[q] = task[q] /\ WaitingClose(q)
    BY <2>1, <1>1 DEF BookInv, Requests
  <2>3. QED
    BY <2>2, <1>1, <1>2 DEF WaitingClose
<1>6. QED
  BY <1>3, <1>4, <1>5 DEF SafeInv

(* What an owner may leave in the entry it gives up: nothing, the trade it  *)
(* opened, or the trade it failed to close.                                 *)
Leaves(t, op, of, e) ==
  \/ e = Flat
  \/ /\ e.st = "open" /\ e.trade \in Trade /\ TokenOf[e.trade.pair] = t
     /\ op = "close" => e.trade = of

LEMMA LeavesFacts ==
  ASSUME NEW t, NEW op, NEW of, NEW e, Leaves(t, op, of, e)
  PROVE  /\ e # PendingOpen /\ e # PendingClose /\ e.st \in {"flat", "open"}
         /\ e.st = "open" => TokenOf[e.trade.pair] = t /\ (op = "close" => e.trade = of)
BY DEF Leaves, Flat, PendingOpen, PendingClose

(* SetActive on an owned token writes the entry. *)
LEMMA SetOwned ==
  ASSUME TypeOK, NEW t \in Tokens, NEW e, IsPending(t), SetActive(t, e)
  PROVE  active'[t] = e /\ \A u \in Tokens : u # t => active'[u] = active[u]
BY Distinct DEF SetActive, IsPending, TypeOK

LEMMA TaskReleaseInv ==
  ASSUME BookInv, NEW p \in Pairs, phase = "join", Owning(p), Goto(p, "done"),
         UNCHANGED <<phase, watch>>,
         NEW e, Leaves(TokenOf[p], task[p].op, task[p].of, e), SetActive(TokenOf[p], e)
  PROVE  SafeInv'
<1> DEFINE t == TokenOf[p]
<1>1. /\ task'[p].pc = "done" /\ \A q \in Pairs : q # p => task'[q] = task[q]
  BY GotoType, Pieces DEF BookInv, Task
<1>2. /\ t \in Tokens /\ IsPending(t) /\ active[t] = PendingOf(task[p].op)
  BY TokensAssumption DEF BookInv, OwnerState, PendingOf, IsPending
<1>3. active'[t] = e /\ \A u \in Tokens : u # t => active'[u] = active[u]
  BY <1>2, SetOwned DEF BookInv
<1>4. /\ ~ Owning(p)' /\ \A q \in Pairs : q # p => (Owning(q)' <=> Owning(q))
      /\ \A w \in watch : Watched(w)' = Watched(w)
  BY <1>1 DEF Owning, Watched
<1>5. /\ \A q \in Pairs : q # p /\ Owning(q) => TokenOf[q] # t
      /\ \A w \in watch : Watched(w) # t
  BY DEF BookInv, OwnerUnique
<1>6. /\ \A q \in Pairs : TokenOf[q] \in Tokens
      /\ \A w \in watch : Watched(w) \in Tokens
  BY Pieces DEF BookInv
<1>7. OwnerUnique'
  BY <1>4 DEF BookInv, OwnerUnique
<1>8. OwnerState'
  BY <1>1, <1>3, <1>4, <1>5, <1>6 DEF BookInv, OwnerState, PendingOf
<1>9. OwnerExists'
  BY <1>3, <1>4, LeavesFacts DEF BookInv, OwnerExists, IsPending
<1>10. TaskPhase'
  BY DEF TaskPhase
<1>11. HeldTrades'
  <2>1. \A u \in Tokens : active'[u].st = "open" => TokenOf[active'[u].trade.pair] = u
    BY <1>3, LeavesFacts DEF BookInv, HeldTrades
  <2>2. QED
    BY <1>1, <1>4, <2>1 DEF BookInv, HeldTrades
<1>12. Requests'
  <2>1. SUFFICES ASSUME NEW q \in Pairs, task'[q].pc = "spawned", task'[q].op = "close"
                 PROVE  WaitingClose(q)'
    BY DEF Requests
  <2>2. q # p /\ task'[q] = task[q] /\ WaitingClose(q)
    BY <2>1, <1>1 DEF BookInv, Requests
  <2>3. CASE TokenOf[q] # t
    BY <2>2, <2>3, <1>1, <1>3, <1>4, <1>6 DEF WaitingClose
  <2>4. CASE TokenOf[q] = t
    <3>1. task[p].op = "close"
      BY <2>2, <2>4, <1>2, Pieces DEF WaitingClose, PendingOf, PendingOpen, BookInv, Task, Op
    <3>2. task[p].of = task[q].of
      BY <2>2, <2>4, <3>1 DEF WaitingClose, BookInv, HeldTrades
    <3>3. e.st \in {"flat", "open"} /\ (e.st = "open" => e.trade = task[q].of)
      BY <3>1, <3>2, LeavesFacts
    <3>4. QED
      BY <2>2, <2>4, <3>3, <1>1, <1>3, <1>4, <1>5 DEF WaitingClose
  <2>5. QED
    BY <2>3, <2>4
<1>13. QED
  BY <1>7, <1>8, <1>9, <1>10, <1>11, <1>12 DEF SafeInv

LEMMA WatchReleaseInv ==
  ASSUME BookInv, NEW w \in watch, LockFree, watch' = watch \ {w}, UNCHANGED <<phase, task>>,
         NEW e, Leaves(Watched(w), w.op, w.of, e), SetActive(Watched(w), e)
  PROVE  SafeInv'
<1> DEFINE t == Watched(w)
<1>2. /\ t \in Tokens /\ IsPending(t) /\ active[t] = PendingOf(w.op)
  BY Pieces DEF BookInv, OwnerState, PendingOf, IsPending
<1>3. active'[t] = e /\ \A u \in Tokens : u # t => active'[u] = active[u]
  BY <1>2, SetOwned DEF BookInv
<1>4. /\ \A q \in Pairs : Owning(q)' <=> Owning(q)
      /\ \A v \in watch : Watched(v)' = Watched(v)
  BY DEF Owning, Watched
<1>5. /\ \A q \in Pairs : Owning(q) => TokenOf[q] # t
      /\ \A v \in watch' : Watched(v) # t
  BY DEF BookInv, OwnerUnique
<1>6. /\ \A q \in Pairs : TokenOf[q] \in Tokens
      /\ \A v \in watch : Watched(v) \in Tokens
  BY Pieces DEF BookInv
<1>7. OwnerUnique'
  BY <1>4 DEF BookInv, OwnerUnique
<1>8. OwnerState'
  BY <1>3, <1>4, <1>5, <1>6 DEF BookInv, OwnerState, PendingOf
<1>9. OwnerExists'
  <2>1. SUFFICES ASSUME NEW u \in Tokens, IsPending(u)'
                 PROVE  \/ \E q \in Pairs : Owning(q) /\ TokenOf[q] = u
                        \/ \E v \in watch' : Watched(v) = u
    BY <1>4 DEF OwnerExists
  <2>2. u # t /\ active'[u] = active[u]
    BY <1>3, <2>1, LeavesFacts DEF IsPending
  <2>3. QED
    BY <2>1, <2>2 DEF BookInv, OwnerExists, IsPending
<1>10. TaskPhase'
  BY DEF BookInv, TaskPhase
<1>11. HeldTrades'
  <2>1. \A u \in Tokens : active'[u].st = "open" => TokenOf[active'[u].trade.pair] = u
    BY <1>3, LeavesFacts DEF BookInv, HeldTrades
  <2>2. QED
    BY <1>4, <2>1 DEF BookInv, HeldTrades
<1>12. Requests'
  <2>1. SUFFICES ASSUME NEW q \in Pairs, task[q].pc = "spawned", task[q].op = "close"
                 PROVE  WaitingClose(q)'
    BY DEF Requests, LockFree
  <2>2. WaitingClose(q)
    BY <2>1 DEF BookInv, Requests
  <2>3. CASE TokenOf[q] # t
    BY <2>2, <2>3, <1>3, <1>4, <1>6 DEF WaitingClose
  <2>4. CASE TokenOf[q] = t
    <3>1. w.op = "close"
      BY <2>2, <2>4, <1>2, Pieces DEF WaitingClose, PendingOf, PendingOpen, BookInv, Watcher, Op
    <3>2. w.of = task[q].of
      BY <2>2, <2>4, <3>1 DEF WaitingClose, BookInv, HeldTrades
    <3>3. e.st \in {"flat", "open"} /\ (e.st = "open" => e.trade = task[q].of)
      BY <3>1, <3>2, LeavesFacts
    <3>4. QED
      BY <2>2, <2>4, <3>3, <1>3, <1>4, <1>5 DEF WaitingClose, LockFree
  <2>5. QED
    BY <2>3, <2>4
<1>13. QED
  BY <1>7, <1>8, <1>9, <1>10, <1>11, <1>12 DEF SafeInv

(* The claim of a task passes to the confirmation task it starts. *)
LEMMA SendTxInv == ASSUME BookInv, NEW p \in Pairs, SendTx(p) PROVE SafeInv'
<1> DEFINE t == TokenOf[p]
           m == [id |-> nextId, pair |-> p]
           w == [trade |-> m, op |-> task[p].op, of |-> task[p].of, held |-> task[p].held]
<1>1. /\ phase = "join" /\ UNCHANGED <<phase, active>> /\ watch' = watch \cup {w}
      /\ Owning(p) /\ (Mode = "live" => Executable(p, task[p])) /\ Mode # "backtest"
  BY Joining DEF SendTx, AtPc, Owning, exec, book
<1>2. /\ task'[p].pc = "done" /\ \A q \in Pairs : q # p => task'[q] = task[q]
  BY GotoType, Pieces DEF SendTx, BookInv, Task
<1>3. Watched(w) = t /\ w.op = task[p].op /\ w.of = task[p].of /\ w.held = task[p].held
      /\ w.trade.pair = p
  BY DEF Watched
<1>4. /\ ~ Owning(p)' /\ \A q \in Pairs : q # p => (Owning(q)' <=> Owning(q))
      /\ \A v : Watched(v)' = Watched(v)
  BY <1>2 DEF Owning, Watched
<1>5. /\ \A q \in Pairs : q # p /\ Owning(q) => TokenOf[q] # t
      /\ \A v \in watch : Watched(v) # t
  BY <1>1 DEF BookInv, OwnerUnique
<1>7. OwnerUnique'
  BY <1>1, <1>3, <1>4, <1>5 DEF BookInv, OwnerUnique
<1>8. OwnerState'
  BY <1>1, <1>2, <1>3, <1>4 DEF BookInv, OwnerState, PendingOf
<1>9. OwnerExists'
  BY <1>1, <1>3, <1>4 DEF BookInv, OwnerExists, IsPending
<1>10. TaskPhase'
  BY <1>1 DEF TaskPhase
<1>11. HeldTrades'
  <2>1. task[p].op = "close" => /\ w.held = w.of /\ w.held \in Trade
                                /\ TokenOf[w.held.pair] = Watched(w)
    BY <1>1, <1>3 DEF BookInv, HeldTrades
  <2>2. task[p].op = "close" /\ Mode # "test" => DexOf[w.held.pair] = DexOf[w.trade.pair]
    BY <1>1, <1>3, <2>1, ModeAssumption DEF Executable
  <2>3. QED
    BY <1>1, <1>2, <1>3, <1>4, <2>1, <2>2 DEF BookInv, HeldTrades
<1>12. Requests'
  <2>1. SUFFICES ASSUME NEW q \in Pairs, task'[q].pc = "spawned", task'[q].op = "close"
                 PROVE  WaitingClose(q)'
    BY <1>1 DEF Requests
  <2>2. q # p /\ task'[q] = task[q] /\ WaitingClose(q)
    BY <2>1, <1>2 DEF BookInv, Requests
  <2>3. TokenOf[q] = t => w.held = task[q].of
    BY <2>2, <1>1, <1>3 DEF WaitingClose
  <2>4. QED
    BY <2>2, <2>3, <1>1, <1>2, <1>3, <1>4 DEF WaitingClose
<1>13. QED
  BY <1>7, <1>8, <1>9, <1>10, <1>11, <1>12 DEF SafeInv

(* What Commit and Revert leave in the entry is what an owner may leave. *)
LEMMA CommitLeaves ==
  ASSUME BookInv, NEW r, NEW m \in Trade, Commit(r, m)
  PROVE  \E e : Leaves(TokenOf[m.pair], r.op, r.of, e) /\ SetActive(TokenOf[m.pair], e)
<1>1. CASE r.op = "open"
  BY <1>1, Distinct DEF Commit, Leaves
<1>2. CASE r.op # "open"
  BY <1>2 DEF Commit, Leaves
<1>3. QED
  BY <1>1, <1>2

LEMMA RevertLeaves ==
  ASSUME BookInv, NEW t, NEW r, r.op \in Op,
         r.op = "close" => r.held \in Trade /\ r.held = r.of /\ TokenOf[r.held.pair] = t,
         Revert(r, t)
  PROVE  \E e : Leaves(t, r.op, r.of, e) /\ SetActive(t, e)
<1>1. CASE r.op = "open"
  BY <1>1 DEF Revert, Leaves
<1>2. CASE r.op = "close"
  BY <1>2, Distinct DEF Revert, Leaves
<1>3. QED
  BY <1>1, <1>2 DEF Op

LEMMA TaskStepInv == ASSUME BookInv, NEW p \in Pairs, TaskStep(p) PROVE SafeInv'
<1>1. CASE RejectClaim(p) \/ TraceOk(p)
  BY <1>1, MoveInv, Joining DEF RejectClaim, TraceOk, AtPc, exec, book
<1>2. ASSUME NEW pc \in {"claimed", "traced"}, AtPc(p, pc), Goto(p, "done"), UNCHANGED <<phase, watch>>,
             Revert(task[p], TokenOf[p])
      PROVE  SafeInv'
  <2>1. phase = "join" /\ Owning(p)
    BY <1>2, Joining DEF AtPc, Owning
  <2>2. \E e : Leaves(TokenOf[p], task[p].op, task[p].of, e) /\ SetActive(TokenOf[p], e)
    BY <1>2, <2>1, RevertLeaves, Pieces DEF BookInv, HeldTrades, Task
  <2>3. QED
    BY <1>2, <2>1, <2>2, TaskReleaseInv
<1>3. CASE FailBeforeSend(p) \/ SimulateErr(p)
  BY <1>2, <1>3 DEF FailBeforeSend, SimulateErr, exec
<1>4. CASE SimulateOk(p)
  <2> DEFINE m == [id |-> nextId, pair |-> p]
  <2>1. phase = "join" /\ Owning(p) /\ m \in Trade /\ m.pair = p
    BY <1>4, Joining DEF SimulateOk, AtPc, Owning, BookInv, TypeOK, Trade
  <2>2. Commit(task[p], m) /\ Goto(p, "done") /\ UNCHANGED <<phase, watch>>
    BY <1>4 DEF SimulateOk, exec
  <2>3. \E e : Leaves(TokenOf[p], task[p].op, task[p].of, e) /\ SetActive(TokenOf[p], e)
    BY <2>1, <2>2, CommitLeaves
  <2>4. QED
    BY <2>1, <2>2, <2>3, TaskReleaseInv
<1>5. QED
  BY <1>1, <1>3, <1>4, ClaimOpenInv, ClaimCloseInv, SendTxInv DEF TaskStep, Execute

LEMMA ResolveInv == ASSUME BookInv, NEW w \in watch, Confirm(w) \/ ConfirmErr(w) PROVE SafeInv'
<1>1. /\ LockFree /\ watch' = watch \ {w} /\ UNCHANGED <<phase, task>>
  BY DEF Confirm, ConfirmErr, exec
<1>2. /\ w.trade \in Trade /\ w.op \in Op /\ Watched(w) = TokenOf[w.trade.pair]
  BY Pieces DEF BookInv, Watcher, Watched
<1>3. \E e : Leaves(Watched(w), w.op, w.of, e) /\ SetActive(Watched(w), e)
  BY <1>2, CommitLeaves, RevertLeaves DEF Confirm, ConfirmErr, BookInv, HeldTrades
<1>4. QED
  BY <1>1, <1>3, WatchReleaseInv
-----------------------------------------------------------------------------
(* Closed pairs match *)

LEMMA CommitMatches ==
  ASSUME BookInv, NEW r, NEW m \in Trade,
         r.op = "close" => /\ r.held = r.of
                           /\ TokenOf[r.held.pair] = TokenOf[m.pair]
                           /\ Mode # "test" => DexOf[r.held.pair] = DexOf[m.pair],
         r.op \in Op,
         Commit(r, m)
  PROVE  ClosedPairsMatch'
BY DEF Commit, BookInv, ClosedPairsMatch, Op

LEMMA ClosedNext == ASSUME BookInv, Next PROVE ClosedPairsMatch'
<1> USE DEF exec, book
<1>1. ASSUME UNCHANGED closed PROVE ClosedPairsMatch'
  BY <1>1 DEF BookInv, ClosedPairsMatch
<1>2. ASSUME NEW p \in Pairs, SimulateOk(p) PROVE ClosedPairsMatch'
  <2> DEFINE m == [id |-> nextId, pair |-> p]
  <2>1. m \in Trade /\ m.pair = p /\ Owning(p) /\ task[p].op \in Op
    BY <1>2, Pieces DEF SimulateOk, AtPc, Owning, BookInv, TypeOK, Trade, Task
  <2>2. task[p].op = "close" => /\ task[p].held = task[p].of
                                /\ TokenOf[task[p].held.pair] = TokenOf[m.pair]
                                /\ DexOf[task[p].held.pair] = DexOf[m.pair]
    BY <1>2, <2>1 DEF SimulateOk, Executable, BookInv, HeldTrades
  <2>3. QED
    BY <1>2, <2>1, <2>2, CommitMatches DEF SimulateOk
<1>3. ASSUME NEW p \in Pairs, TaskStep(p) PROVE ClosedPairsMatch'
  BY <1>1, <1>2, <1>3 DEF TaskStep, Execute, ClaimOpen, ClaimClose, RejectClaim, TraceOk, FailBeforeSend,
     SimulateErr, SendTx, Revert
<1>4. ASSUME NEW w \in watch, Confirm(w) PROVE ClosedPairsMatch'
  <2>1. w.trade \in Trade /\ w.op \in Op
    BY Pieces DEF BookInv, Watcher
  <2>2. w.op = "close" => /\ w.held = w.of
                          /\ TokenOf[w.held.pair] = TokenOf[w.trade.pair]
                          /\ Mode # "test" => DexOf[w.held.pair] = DexOf[w.trade.pair]
    BY DEF BookInv, HeldTrades, Watched
  <2>3. QED
    BY <1>4, <2>1, <2>2, CommitMatches DEF Confirm
<1>5. CASE Resolve
  BY <1>1, <1>4, <1>5 DEF Resolve, ConfirmErr, Revert
<1>6. CASE Dispatch
  BY <1>1, <1>6 DEF Dispatch, BeginBlock, RequestOpen, RequestClose, Skip, EndDispatch, JoinAll, Spawn
<1>7. CASE Main \/ Environment \/ PollAgain \/ Finished
  BY <1>1, <1>7 DEF Main, IndexerDone, PollDone, SaveClosed, Environment, Settle, PollAgain, Finished, vars
<1>8. QED
  BY <1>3, <1>5, <1>6, <1>7 DEF Next
-----------------------------------------------------------------------------
(* The theorems *)

LEMMA InitInv == Init => BookInv
<1>1. Init => TypeOK
  BY BoundAssumption DEF Init, TypeOK, IdleTask, Task, Op, MaybeTrade, Entry, Missing
<1>2. Init => SafeInv
  BY Distinct DEF Init, SafeInv, OwnerUnique, OwnerState, OwnerExists, TaskPhase, HeldTrades, Requests,
     Owning, IsPending, IdleTask
<1>3. Init => ClosedPairsMatch
  BY DEF Init, ClosedPairsMatch
<1>4. QED
  BY <1>1, <1>2, <1>3 DEF SafeInv, BookInv

LEMMA NextInv == BookInv /\ [Next]_vars => BookInv'
<1> SUFFICES ASSUME BookInv, [Next]_vars PROVE BookInv'
  OBVIOUS
<1>1. TypeOK'
  BY DispatchType, TaskStepType, ResolveType, OthersType DEF Next, Resolve, BookInv
<1>2. SafeInv'
  <2>1. CASE Main \/ Environment \/ PollAgain \/ Finished \/ UNCHANGED vars
    BY <2>1, QuietInv DEF Main, IndexerDone, PollDone, SaveClosed, Environment, Settle, PollAgain, Finished,
       vars, exec, book
  <2>2. QED
    BY <2>1, DispatchInv, TaskStepInv, ResolveInv DEF Next, Resolve
<1>3. ClosedPairsMatch'
  <2>1. CASE UNCHANGED vars
    BY <2>1 DEF vars, book, BookInv, ClosedPairsMatch
  <2>2. QED
    BY <2>1, ClosedNext
<1>4. QED
  BY <1>1, <1>2, <1>3 DEF SafeInv, BookInv

(* The inductive invariant of the book. *)
THEOREM BookInvariant == Spec => []BookInv
BY InitInv, NextInv, PTL DEF Spec

(* Every variable keeps its type. *)
THEOREM TypeCorrect == Spec => []TypeOK
<1>1. BookInv => TypeOK
  BY DEF BookInv
<1>2. QED
  BY <1>1, BookInvariant, PTL

(* A close decided on one trade never closes another: the closed trades of  *)
(* every token are filed with the trade their request named.                *)
THEOREM ClosedPairsCorrect == Spec => []ClosedPairsMatch
<1>1. BookInv => ClosedPairsMatch
  BY DEF BookInv
<1>2. QED
  BY <1>1, BookInvariant, PTL

(* Exactly one task answers for every pending token. *)
THEOREM PendingIsOwned == Spec => []PendingOwned
<1>1. BookInv => PendingOwned
  <2> SUFFICES ASSUME BookInv, NEW t \in Tokens
               PROVE  IF IsPending(t) THEN \E o \in Owners(t) : Owners(t) = {o}
                                      ELSE Owners(t) = {}
    BY DEF PendingOwned
  <2>1. ASSUME NEW p \in Pairs, Owning(p), TokenOf[p] = t PROVE Owners(t) = {<<"task", p>>}
    BY <2>1 DEF BookInv, OwnerUnique, Owners
  <2>2. ASSUME NEW w \in watch, Watched(w) = t PROVE Owners(t) = {<<"watch", w>>}
    BY <2>2 DEF BookInv, OwnerUnique, Owners
  <2>3. CASE IsPending(t)
    BY <2>1, <2>2, <2>3 DEF BookInv, OwnerExists
  <2>4. CASE ~ IsPending(t)
    BY <2>4 DEF BookInv, OwnerState, PendingOf, IsPending, Owners
  <2>5. QED
    BY <2>3, <2>4
<1>2. QED
  BY <1>1, BookInvariant, PTL

(* In a backtest no step detaches a confirmation. *)
LEMMA InlineNext == InlineInv /\ [Next]_vars => InlineInv'
<1> SUFFICES ASSUME InlineInv, Mode = "backtest", [Next]_vars PROVE watch' = {}
  BY DEF InlineInv
<1>1. watch = {}
  BY DEF InlineInv
<1>2. CASE Dispatch
  BY <1>1, <1>2 DEF Dispatch, BeginBlock, RequestOpen, RequestClose, Skip, EndDispatch, JoinAll, Spawn
<1>3. ASSUME NEW p \in Pairs, TaskStep(p) PROVE watch' = {}
  BY <1>1, <1>3 DEF TaskStep, Execute, ClaimOpen, ClaimClose, RejectClaim, TraceOk, FailBeforeSend,
     SimulateOk, SimulateErr, SendTx
<1>4. CASE Resolve
  BY <1>1, <1>4 DEF Resolve
<1>5. CASE Main \/ Environment \/ PollAgain \/ Finished \/ UNCHANGED vars
  BY <1>1, <1>5 DEF Main, IndexerDone, PollDone, SaveClosed, Environment, Settle, PollAgain, Finished, vars
<1>6. QED
  BY <1>2, <1>3, <1>4, <1>5 DEF Next

(* Between the blocks of a backtest no trade is unfinished. *)
THEOREM BacktestIsQuiescent == Spec => []BacktestQuiescent
<1>1. Init => InlineInv
  BY DEF Init, InlineInv
<1>2. BookInv /\ InlineInv => BacktestQuiescent
  BY DEF BookInv, InlineInv, BacktestQuiescent, OwnerExists, TaskPhase, Owning
<1>3. QED
  BY <1>1, <1>2, InlineNext, BookInvariant, PTL DEF Spec

(* Once the indexer is done no task runs; once nothing is pending no        *)
(* confirmation is left: nothing writes the book after pending_handle.      *)
LEMMA FinalNext == BookInv /\ FinalInv /\ [Next]_vars => FinalInv'
<1> SUFFICES ASSUME BookInv, FinalInv, [Next]_vars PROVE FinalInv'
  OBVIOUS
<1> USE DEF exec, book
<1>1. CASE Dispatch
  BY <1>1 DEF FinalInv, Dispatch, BeginBlock, RequestOpen, RequestClose, Skip, EndDispatch, JoinAll, Spawn, Visit
<1>2. ASSUME NEW p \in Pairs, TaskStep(p) PROVE FinalInv'
  <2>1. task[p].pc # "idle"
    BY <1>2 DEF TaskStep, Execute, ClaimOpen, ClaimClose, RejectClaim, TraceOk, FailBeforeSend,
       SimulateOk, SimulateErr, SendTx, AtPc
  <2>2. handle = "indexing"
    BY <2>1 DEF FinalInv, BookInv, TaskPhase
  <2>3. handle' = handle
    BY <1>2 DEF TaskStep, Execute, ClaimOpen, ClaimClose, RejectClaim, TraceOk, FailBeforeSend,
       SimulateOk, SimulateErr, SendTx
  <2>4. QED
    BY <2>2, <2>3 DEF FinalInv
<1>3. CASE Resolve
  <2>1. handle \notin {"done", "saved"} /\ UNCHANGED <<handle, phase>>
    BY <1>3 DEF Resolve, Confirm, ConfirmErr, FinalInv
  <2>2. QED
    BY <2>1 DEF FinalInv
<1>4. CASE PollDone
  <2>1. ASSUME NEW w \in watch PROVE FALSE
    <3>1. Watched(w) \in Tokens /\ active[Watched(w)] = PendingOf(w.op)
      BY Pieces DEF BookInv, OwnerState
    <3>2. QED
      BY <1>4, <3>1 DEF PollDone, IsPending, PendingOf
  <2>2. QED
    BY <1>4, <2>1 DEF PollDone, FinalInv
<1>5. CASE IndexerDone \/ SaveClosed
  BY <1>5 DEF IndexerDone, SaveClosed, FinalInv
<1>6. CASE Environment \/ PollAgain \/ Finished \/ UNCHANGED vars
  BY <1>6 DEF Environment, Settle, PollAgain, Finished, vars, FinalInv
<1>7. QED
  BY <1>1, <1>2, <1>3, <1>4, <1>5, <1>6 DEF Next, Main

(* The closed trades main writes are all there will ever be. *)
THEOREM ReportIsComplete == Spec => []SavedIsComplete
<1>1. Init => FinalInv
  BY DEF Init, FinalInv
<1>2. FinalInv => SavedIsComplete
  BY DEF FinalInv, SavedIsComplete
<1>3. QED
  BY <1>1, <1>2, FinalNext, BookInvariant, PTL DEF Spec

-----------------------------------------------------------------------------
(* The controller implements PositionLedger *)

(* Where the trades in use are. *)
LEMMA UsedFacts ==
  /\ \A t \in Tokens : active[t].trade \in UsedTrades \cup {NoTrade}
  /\ \A p \in Pairs : task[p].held \in UsedTrades \cup {NoTrade}
  /\ \A w \in watch : w.held \in UsedTrades \cup {NoTrade}
  /\ \A c \in closed : c.open \in UsedTrades \cup {NoTrade} /\ c.close \in UsedTrades \cup {NoTrade}
BY DEF UsedTrades

LEMMA UsedType == ASSUME TypeOK PROVE UsedTrades \subseteq Trade
<1>1. /\ \A t \in Tokens : active[t].trade \in MaybeTrade
      /\ \A p \in Pairs : task[p].held \in MaybeTrade
      /\ \A w \in watch : w.held \in MaybeTrade
      /\ \A c \in closed : c.open \in Trade /\ c.close \in Trade
  BY DEF TypeOK, Entry, Task, Watcher, ClosedTrade
<1>2. QED
  BY <1>1 DEF UsedTrades, MaybeTrade

(* A step that puts no trade anywhere but the ones in use and those of S. *)
LEMMA UsedGrows ==
  ASSUME NEW S,
         \A t \in Tokens : active'[t].trade \in UsedTrades \cup S \cup {NoTrade},
         \A p \in Pairs : task'[p].held \in UsedTrades \cup S \cup {NoTrade},
         \A w \in watch' : w.held \in UsedTrades \cup S \cup {NoTrade},
         \A c \in closed' : /\ c.open \in UsedTrades \cup S \cup {NoTrade}
                            /\ c.close \in UsedTrades \cup S \cup {NoTrade}
  PROVE  UsedTrades' \subseteq UsedTrades \cup S
BY DEF UsedTrades

(* The book after SetActive: the entry written, or what was there. *)
LEMMA SetActiveTrades ==
  ASSUME TypeOK, NEW t, NEW e, SetActive(t, e)
  PROVE  \A u \in Tokens : active'[u].trade \in {active[u].trade, e.trade}
BY DEF SetActive, TypeOK, Missing

(* The trades a commit and a revert leave in the book. *)
LEMMA CommitTrades ==
  ASSUME TypeOK, NEW r, NEW m, r.op \in Op, Commit(r, m)
  PROVE  /\ \A u \in Tokens : active'[u].trade \in {active[u].trade, m, NoTrade}
         /\ \A c \in closed' : c \in closed \/ (r.op = "close" /\ c.open = r.held /\ c.close = m)
<1>1. CASE r.op = "open"
  BY <1>1, SetActiveTrades, Distinct DEF Commit
<1>2. CASE r.op = "close"
  BY <1>2, SetActiveTrades DEF Commit, Flat
<1>3. QED
  BY <1>1, <1>2 DEF Op

LEMMA RevertTrades ==
  ASSUME TypeOK, NEW r, NEW t, r.op \in Op, Revert(r, t)
  PROVE  /\ \A u \in Tokens : active'[u].trade \in {active[u].trade, r.held, NoTrade}
         /\ closed' = closed
<1>1. CASE r.op = "open"
  BY <1>1, SetActiveTrades DEF Revert, Flat
<1>2. CASE r.op = "close"
  BY <1>2, SetActiveTrades, Distinct DEF Revert
<1>3. QED
  BY <1>1, <1>2 DEF Op

-----------------------------------------------------------------------------
(* No trade is used twice *)

(* Whatever drops trades or confirmations keeps the rest fresh. *)
LEMMA FreshKept ==
  ASSUME TypeOK, FreshTrades, UsedTrades' \subseteq UsedTrades, watch' \subseteq watch, nextId' = nextId
  PROVE  FreshTrades'
BY DEF FreshTrades

(* What a step of a task does to the rest of its record. *)
LEMMA TaskHeld ==
  ASSUME TypeOK, NEW p \in Pairs, NEW pc \in {"claimed", "traced", "done"}, Goto(p, pc)
  PROVE  \A q \in Pairs : task'[q].held = task[q].held /\ task'[q].op = task[q].op
<1>1. /\ task'[p] = [task[p] EXCEPT !.pc = pc] /\ task[p] \in Task
      /\ \A q \in Pairs : q # p => task'[q] = task[q]
  BY GotoType, Pieces
<1>2. QED
  BY <1>1 DEF Task

LEMMA DispatchFresh == ASSUME BookInv, TradeInv, Dispatch PROVE TradeInv'
<1> USE DEF exec, book
<1>1. /\ UNCHANGED <<active, closed, watch, nextId>>
      /\ \A q \in Pairs : task'[q] = task[q] \/ task'[q].held = NoTrade
  <2>1. ASSUME NEW p \in Pairs, NEW op, NEW of, Spawn(p, op, of)
        PROVE  \A q \in Pairs : task'[q] = task[q] \/ task'[q].held = NoTrade
    BY <2>1 DEF Spawn, BookInv, TypeOK
  <2>2. ASSUME NEW p \in Pairs, RequestOpen(p) \/ RequestClose(p)
        PROVE  \A q \in Pairs : task'[q] = task[q] \/ task'[q].held = NoTrade
    BY <2>1, <2>2 DEF RequestOpen, RequestClose
  <2>3. QED
    BY <2>2 DEF Dispatch, BeginBlock, RequestOpen, RequestClose, Skip, EndDispatch, JoinAll, Spawn, IdleTask
<1>2. UsedTrades' \subseteq UsedTrades
  BY <1>1, UsedFacts, UsedGrows
<1>3. FreshTrades'
  BY <1>1, <1>2, FreshKept DEF BookInv, TradeInv
<1>4. OpenersHoldNone'
  BY <1>1 DEF TradeInv, OpenersHoldNone
<1>5. QED
  BY <1>3, <1>4 DEF TradeInv

(* A trade with the next hash is nobody's yet; once it is used the others   *)
(* are still fresh.                                                         *)
LEMMA NewTrade ==
  ASSUME TypeOK, FreshTrades, NEW m \in Trade, m.id = nextId
  PROVE  /\ m \notin UsedTrades /\ \A w \in watch : w.trade # m
         /\ \A u \in UsedTrades \cup {m} : u.id < nextId + 1
         /\ \A w \in watch : w.trade.id < nextId + 1
<1>1. /\ nextId \in Nat /\ \A w \in watch : w.trade \in Trade
      /\ \A u \in UsedTrades : u \in Trade
  BY UsedType DEF TypeOK, Watcher
<1>2. \A u \in Trade : u.id \in Nat
  BY DEF Trade
<1>3. /\ \A u \in UsedTrades : u.id < nextId
      /\ \A w \in watch : w.trade.id < nextId
  BY DEF FreshTrades
<1>4. QED
  BY <1>1, <1>2, <1>3

LEMMA TaskStepFresh == ASSUME BookInv, TradeInv, NEW p \in Pairs, TaskStep(p) PROVE TradeInv'
<1> USE DEF exec, book
<1> DEFINE m == [id |-> nextId, pair |-> p]
<1>0. TypeOK /\ FreshTrades /\ OpenersHoldNone /\ nextId \in Nat /\ task[p].op \in Op
  BY Pieces DEF BookInv, TradeInv, TypeOK, Task
<1>a. /\ m \in Trade /\ m.id = nextId
      /\ m \notin UsedTrades /\ \A w \in watch : w.trade # m
      /\ \A u \in UsedTrades \cup {m} : u.id < nextId + 1
      /\ \A w \in watch : w.trade.id < nextId + 1
  <2>1. m \in Trade /\ m.id = nextId
    BY <1>0 DEF Trade
  <2>2. QED
    BY <1>0, <2>1, NewTrade
<1>1. ASSUME UNCHANGED <<watch, nextId>>, OpenersHoldNone', UsedTrades' \subseteq UsedTrades PROVE TradeInv'
  BY <1>0, <1>1, FreshKept DEF TradeInv
<1>2. ASSUME NEW pc \in {"claimed", "traced", "done"}, Goto(p, pc), UNCHANGED watch PROVE OpenersHoldNone'
  BY <1>0, <1>2, TaskHeld DEF OpenersHoldNone
<1>3. CASE RejectClaim(p) \/ TraceOk(p)
  <2>1. \A q \in Pairs : task'[q].held = task[q].held
    BY <1>0, <1>3, TaskHeld DEF RejectClaim, TraceOk
  <2>2. UsedTrades' \subseteq UsedTrades
    BY <1>3, <2>1, UsedFacts, UsedGrows DEF RejectClaim, TraceOk
  <2>3. QED
    BY <1>1, <1>2, <1>3, <2>2 DEF RejectClaim, TraceOk
<1>4. CASE ClaimOpen(p)
  <2>1. \A q \in Pairs : task'[q].held = task[q].held
    BY <1>0, <1>4, TaskHeld DEF ClaimOpen
  <2>2. \A t \in Tokens : active'[t].trade \in {active[t].trade, NoTrade}
    BY <1>0, <1>4 DEF ClaimOpen, TypeOK, PendingOpen
  <2>3. UsedTrades' \subseteq UsedTrades
    BY <1>4, <2>1, <2>2, UsedFacts, UsedGrows DEF ClaimOpen
  <2>4. QED
    BY <1>1, <1>2, <1>4, <2>3 DEF ClaimOpen
<1>5. CASE ClaimClose(p)
  <2>1. /\ task'[p].op = "close" /\ task'[p].held = active[TokenOf[p]].trade
        /\ \A q \in Pairs : q # p => task'[q] = task[q]
    BY <1>0, <1>5, Pieces DEF ClaimClose, TypeOK, Task, SwappedOut
  <2>2. \A t \in Tokens : active'[t].trade \in {active[t].trade, NoTrade}
    BY <1>0, <1>5 DEF ClaimClose, TypeOK, PendingClose
  <2>3. UsedTrades' \subseteq UsedTrades
    <3>1. \A q \in Pairs : task'[q].held \in UsedTrades \cup {NoTrade}
      BY <1>0, <2>1, UsedFacts, Pieces
    <3>2. QED
      BY <1>5, <2>2, <3>1, UsedFacts, UsedGrows DEF ClaimClose
  <2>4. OpenersHoldNone'
    BY <1>0, <1>5, <2>1 DEF OpenersHoldNone, ClaimClose
  <2>5. QED
    BY <1>1, <1>5, <2>3, <2>4 DEF ClaimClose
<1>6. CASE FailBeforeSend(p) \/ SimulateErr(p)
  <2>1. Goto(p, "done") /\ Revert(task[p], TokenOf[p]) /\ UNCHANGED <<watch, nextId>>
    BY <1>6 DEF FailBeforeSend, SimulateErr
  <2>2. UsedTrades' \subseteq UsedTrades
    <3>1. /\ \A u \in Tokens : active'[u].trade \in {active[u].trade, task[p].held, NoTrade}
          /\ closed' = closed
      BY <1>0, <2>1, RevertTrades
    <3>2. \A q \in Pairs : task'[q].held = task[q].held
      BY <1>0, <2>1, TaskHeld
    <3>3. QED
      BY <2>1, <3>1, <3>2, UsedFacts, UsedGrows
  <2>3. OpenersHoldNone'
    BY <1>2, <2>1
  <2>4. QED
    BY <1>1, <2>1, <2>2, <2>3
<1>7. CASE SimulateOk(p)
  <2>1. Goto(p, "done") /\ Commit(task[p], m) /\ watch' = watch /\ nextId' = nextId + 1
    BY <1>7 DEF SimulateOk
  <2>2. UsedTrades' \subseteq UsedTrades \cup {m}
    <3>1. /\ \A u \in Tokens : active'[u].trade \in {active[u].trade, m, NoTrade}
          /\ \A c \in closed' : c \in closed \/ (c.open = task[p].held /\ c.close = m)
      BY <1>0, <2>1, CommitTrades
    <3>2. \A q \in Pairs : task'[q].held = task[q].held
      BY <1>0, <2>1, TaskHeld
    <3> DEFINE Used == UsedTrades \cup {m} \cup {NoTrade}
    <3>3. \A u \in Tokens : active'[u].trade \in Used
      BY <3>1, UsedFacts
    <3>4. \A q \in Pairs : task'[q].held \in Used
      BY <3>2, UsedFacts
    <3>5. \A w \in watch' : w.held \in Used
      BY <2>1, UsedFacts
    <3>6. \A c \in closed' : c.open \in Used /\ c.close \in Used
      BY <1>0, <3>1, UsedFacts
    <3>7. QED
      BY <3>3, <3>4, <3>5, <3>6, UsedGrows
  <2>3. FreshTrades'
    BY <1>0, <1>a, <2>1, <2>2 DEF FreshTrades
  <2>4. QED
    BY <1>2, <2>1, <2>3 DEF TradeInv
<1>8. CASE SendTx(p)
  <2> DEFINE w == [trade |-> m, op |-> task[p].op, of |-> task[p].of, held |-> task[p].held]
  <2>1. /\ Goto(p, "done") /\ watch' = watch \cup {w} /\ nextId' = nextId + 1
        /\ UNCHANGED <<active, closed>>
    BY <1>8 DEF SendTx
  <2>2. UsedTrades' \subseteq UsedTrades
    <3>1. \A q \in Pairs : task'[q].held = task[q].held
      BY <1>0, <2>1, TaskHeld
    <3>2. QED
      BY <2>1, <3>1, UsedFacts, UsedGrows
  <2>3. FreshTrades'
    BY <1>0, <1>a, <2>1, <2>2 DEF FreshTrades
  <2>4. OpenersHoldNone'
    BY <1>0, <2>1, TaskHeld DEF OpenersHoldNone
  <2>5. QED
    BY <2>3, <2>4 DEF TradeInv
<1>9. QED
  BY <1>3, <1>4, <1>5, <1>6, <1>7, <1>8 DEF TaskStep, Execute

LEMMA ResolveFresh == ASSUME BookInv, TradeInv, NEW w \in watch, Confirm(w) \/ ConfirmErr(w) PROVE TradeInv'
<1> USE DEF exec, book
<1>0. TypeOK /\ FreshTrades /\ OpenersHoldNone /\ w.op \in Op
  BY Pieces DEF BookInv, TradeInv, Watcher
<1>1. watch' = watch \ {w} /\ UNCHANGED <<task, nextId>>
  BY DEF Confirm, ConfirmErr
<1>2. OpenersHoldNone'
  BY <1>0, <1>1 DEF OpenersHoldNone
<1>3. CASE Confirm(w)
  <2>1. UsedTrades' \subseteq UsedTrades \cup {w.trade}
    <3>1. /\ \A u \in Tokens : active'[u].trade \in {active[u].trade, w.trade, NoTrade}
          /\ \A c \in closed' : c \in closed \/ (c.open = w.held /\ c.close = w.trade)
      BY <1>0, <1>3, CommitTrades DEF Confirm
    <3>2. QED
      BY <1>1, <3>1, UsedFacts, UsedGrows
  <2>2. FreshTrades'
    BY <1>0, <1>1, <2>1 DEF FreshTrades
  <2>3. QED
    BY <1>2, <2>2 DEF TradeInv
<1>4. CASE ConfirmErr(w)
  <2>1. UsedTrades' \subseteq UsedTrades
    BY <1>0, <1>1, <1>4, RevertTrades, UsedFacts, UsedGrows DEF ConfirmErr
  <2>2. QED
    BY <1>0, <1>1, <1>2, <2>1, FreshKept DEF TradeInv
<1>5. QED
  BY <1>3, <1>4

(* Transactions are named once, and a confirmed trade leaves its watcher. *)
LEMMA TradeNext == BookInv /\ TradeInv /\ [Next]_vars => TradeInv'
<1> SUFFICES ASSUME BookInv, TradeInv, [Next]_vars PROVE TradeInv'
  OBVIOUS
<1>1. ASSUME UNCHANGED <<active, closed, task, watch, nextId>> PROVE TradeInv'
  BY <1>1 DEF TradeInv, FreshTrades, OpenersHoldNone, UsedTrades
<1>2. CASE Main \/ Environment \/ PollAgain \/ Finished \/ UNCHANGED vars
  BY <1>1, <1>2 DEF Main, IndexerDone, PollDone, SaveClosed, Environment, Settle, PollAgain, Finished,
     vars, exec, book
<1>3. QED
  BY <1>2, DispatchFresh, TaskStepFresh, ResolveFresh DEF Next, Resolve

(* No trade is in the book, in a task's hands or filed while its own        *)
(* confirmation is still awaited, and no hash is used for two trades.       *)
THEOREM TradesAreFresh == Spec => []TradeInv
<1>1. Init => TradeInv
  BY DEF Init, TradeInv, FreshTrades, OpenersHoldNone, UsedTrades, Missing, IdleTask
<1>2. QED
  BY <1>1, TradeNext, BookInvariant, PTL DEF Spec
-----------------------------------------------------------------------------
(* What a token holds *)

(* heldTrade[t] is the entry's trade, or that of whoever will resolve t. *)
HeldIs(t) ==
  /\ ~ IsPending(t) => heldTrade[t] = active[t].trade
  /\ \A p \in Pairs : Owning(p) /\ TokenOf[p] = t => heldTrade[t] = task[p].held
  /\ \A w \in watch : Watched(w) = t => heldTrade[t] = w.held

LEMMA HoldingOne ==
  ASSUME NEW t \in Tokens, NEW m, Holding(t) = {m} \/ Holding(t) = {NoTrade, m}
  PROVE  heldTrade[t] = m
<1>1. CASE m = NoTrade
  BY <1>1 DEF heldTrade
<1>2. CASE m # NoTrade
  <2>1. \A x \in Holding(t) : x # NoTrade <=> x = m
    BY <1>2
  <2>2. (CHOOSE x \in Holding(t) : x # NoTrade) = m
    BY <1>2, <2>1
  <2>3. QED
    BY <1>2, <2>2 DEF heldTrade
<1>3. QED
  BY <1>1, <1>2

HeldByOwners == \A t \in Tokens : HeldIs(t)

LEMMA HeldValue == BookInv => HeldByOwners
<1> SUFFICES ASSUME BookInv, NEW t \in Tokens PROVE HeldIs(t)
  BY DEF HeldByOwners
<1>1. ASSUME ~ IsPending(t) PROVE heldTrade[t] = active[t].trade
  <2>1. /\ \A p \in Pairs : Owning(p) => TokenOf[p] # t
        /\ \A w \in watch : Watched(w) # t
    BY <1>1 DEF BookInv, OwnerState, PendingOf, IsPending
  <2>2. Holding(t) = {active[t].trade}
    BY <2>1 DEF Holding
  <2>3. QED
    BY <2>2, HoldingOne
<1>2. ASSUME NEW p \in Pairs, Owning(p), TokenOf[p] = t PROVE heldTrade[t] = task[p].held
  <2>1. active[t].trade = NoTrade
    BY <1>2 DEF BookInv, OwnerState, PendingOf, PendingOpen, PendingClose
  <2>2. /\ \A q \in Pairs : Owning(q) /\ TokenOf[q] = t <=> q = p
        /\ \A w \in watch : Watched(w) # t
    BY <1>2 DEF BookInv, OwnerUnique
  <2>3. Holding(t) = {NoTrade, task[p].held}
    BY <2>1, <2>2 DEF Holding
  <2>4. QED
    BY <2>3, HoldingOne
<1>3. ASSUME NEW w \in watch, Watched(w) = t PROVE heldTrade[t] = w.held
  <2>1. active[t].trade = NoTrade
    BY <1>3 DEF BookInv, OwnerState, PendingOf, PendingOpen, PendingClose
  <2>2. /\ \A q \in Pairs : Owning(q) => TokenOf[q] # t
        /\ \A v \in watch : Watched(v) = t <=> v = w
    BY <1>3 DEF BookInv, OwnerUnique
  <2>3. Holding(t) = {NoTrade, w.held}
    BY <2>1, <2>2 DEF Holding
  <2>4. QED
    BY <2>3, HoldingOne
<1>4. QED
  BY <1>1, <1>2, <1>3 DEF HeldIs

LEMMA HeldValueNext == BookInv' => HeldByOwners'
BY HeldValue, PTL

(* A token whose entry and owner a step leaves alone. *)
LEMMA HeldKept ==
  ASSUME NEW t \in Tokens, active'[t] = active[t],
         \A p \in Pairs : TokenOf[p] = t => (Owning(p)' <=> Owning(p)),
         \A p \in Pairs : TokenOf[p] = t /\ Owning(p) => task'[p].held = task[p].held,
         \A w : Watched(w) = t => (w \in watch' <=> w \in watch)
  PROVE  heldTrade'[t] = heldTrade[t]
<1>1. {task[p].held : p \in {q \in Pairs : Owning(q) /\ TokenOf[q] = t}}'
        = {task[p].held : p \in {q \in Pairs : Owning(q) /\ TokenOf[q] = t}}
  OBVIOUS
<1>2. {w.held : w \in {v \in watch : Watched(v) = t}}' = {w.held : w \in {v \in watch : Watched(v) = t}}
  BY DEF Watched
<1>3. Holding(t)' = Holding(t)
  BY <1>1, <1>2 DEF Holding
<1>4. QED
  BY <1>3 DEF heldTrade
-----------------------------------------------------------------------------
(* The steps of the controller as steps of the ledger *)

(* Everything the ledger has recorded is in use. *)
LEMMA KnownUsed == ASSUME BookInv PROVE Ledger!Known \subseteq UsedTrades \cup {NoTrade}
<1>1. ASSUME NEW t \in Tokens PROVE heldTrade[t] \in UsedTrades \cup {NoTrade}
  <2>1. HeldIs(t)
    BY HeldValue DEF HeldByOwners
  <2>2. CASE ~ IsPending(t)
    BY <2>1, <2>2, UsedFacts DEF HeldIs
  <2>3. CASE IsPending(t)
    BY <2>1, <2>3, UsedFacts DEF HeldIs, BookInv, OwnerExists
  <2>4. QED
    BY <2>2, <2>3
<1>2. \A c \in filedTrades : c.open \in UsedTrades \cup {NoTrade} /\ c.close \in UsedTrades \cup {NoTrade}
  BY UsedFacts DEF filedTrades
<1>3. QED
  BY <1>1, <1>2 DEF Ledger!Known

(* No holding changes and nothing is filed. *)
LEMMA StutterStep ==
  ASSUME \A t \in Tokens : heldTrade'[t] = heldTrade[t], closed' = closed
  PROVE  UNCHANGED Ledger!ledgerVars
<1>1. heldTrade' = heldTrade
  BY DEF heldTrade
<1>2. filedTrades' = filedTrades
  BY DEF filedTrades
<1>3. QED
  BY <1>1, <1>2 DEF Ledger!ledgerVars

(* One token changes hands. *)
LEMMA HeldExcept ==
  ASSUME NEW t \in Tokens, \A u \in Tokens : u # t => heldTrade'[u] = heldTrade[u]
  PROVE  heldTrade' = [heldTrade EXCEPT ![t] = heldTrade'[t]]
<1>1. heldTrade = [u \in Tokens |-> heldTrade[u]] /\ heldTrade' = [u \in Tokens |-> heldTrade'[u]]
  BY DEF heldTrade
<1>2. QED
  BY <1>1

(* A flat token takes a trade nobody used. *)
LEMMA OpenStep ==
  ASSUME BookInv, NEW t \in Tokens, NEW m \in Trade, m \notin UsedTrades,
         heldTrade[t] = NoTrade, heldTrade'[t] = m, closed' = closed,
         \A u \in Tokens : u # t => heldTrade'[u] = heldTrade[u]
  PROVE  Ledger!LedgerNext
<1>1. m \notin Ledger!Known
  BY KnownUsed, NoTradeAssumption
<1>2. filedTrades' = filedTrades
  BY DEF filedTrades
<1>3. heldTrade' = [heldTrade EXCEPT ![t] = heldTrade'[t]]
  BY HeldExcept
<1>4. Ledger!OpenPosition(t)
  BY <1>1, <1>2, <1>3 DEF Ledger!OpenPosition
<1>5. QED
  BY <1>4 DEF Ledger!LedgerNext

(* A position leaves its token and is filed with a trade nobody used. *)
LEMMA CloseStep ==
  ASSUME BookInv, NEW t \in Tokens, NEW h \in Trade, NEW m \in Trade, m \notin UsedTrades, NEW of,
         heldTrade[t] = h, heldTrade'[t] = NoTrade,
         closed' = closed \cup {[token |-> t, open |-> h, close |-> m, of |-> of]},
         \A u \in Tokens : u # t => heldTrade'[u] = heldTrade[u]
  PROVE  Ledger!LedgerNext
<1> DEFINE c == [token |-> t, open |-> h, close |-> m]
<1>1. m \notin Ledger!Known
  BY KnownUsed, NoTradeAssumption
<1>2. filedTrades' = filedTrades \cup {c}
  <2> DEFINE e == [token |-> t, open |-> h, close |-> m, of |-> of]
  <2>1. closed' = closed \cup {e} /\ c = [token |-> e.token, open |-> e.open, close |-> e.close]
    OBVIOUS
  <2> HIDE DEF c, e
  <2>2. QED
    BY <2>1 DEF filedTrades
<1>3. heldTrade' = [heldTrade EXCEPT ![t] = NoTrade]
  BY HeldExcept
<1>4. heldTrade[t] # NoTrade
  BY NoTradeAssumption
<1>5. c \in filedTrades' /\ c.token = t /\ c.open = heldTrade[t] /\ c.close \in Trade /\ c.close \notin Ledger!Known
  BY <1>1, <1>2
<1>6. Ledger!ClosePosition(t)
  BY <1>2, <1>3, <1>4, <1>5 DEF Ledger!ClosePosition
<1>7. QED
  BY <1>6 DEF Ledger!LedgerNext

(* The confirmation of an owned token's request, whoever owns it. *)
LEMMA CommitStep ==
  ASSUME BookInv, BookInv', NEW r, NEW m \in Trade, m \notin UsedTrades, NEW t, t = TokenOf[m.pair],
         IsPending(t), r.op \in Op, heldTrade[t] = r.held,
         r.op = "open" => r.held = NoTrade, r.op = "close" => r.held \in Trade, Commit(r, m),
         \A u \in Tokens : u # t => heldTrade'[u] = heldTrade[u]
  PROVE  Ledger!LedgerNext
<1>1. t \in Tokens /\ active[t] # Missing
  BY TokensAssumption, Distinct DEF IsPending, Trade
<1>2. HeldIs(t)'
  BY <1>1, HeldValueNext DEF HeldByOwners
<1>3. CASE r.op = "open"
  <2>1. active'[t] = Open(m) /\ closed' = closed
    BY <1>1, <1>3, SetOwned DEF Commit, BookInv
  <2>2. heldTrade'[t] = m
    BY <1>2, <2>1, Distinct DEF HeldIs, IsPending
  <2>3. QED
    BY <1>1, <1>3, <2>1, <2>2, OpenStep
<1>4. CASE r.op = "close"
  <2>1. /\ active'[t] = Flat
        /\ closed' = closed \cup {[token |-> t, open |-> r.held, close |-> m, of |-> r.of]}
    BY <1>1, <1>4, SetOwned DEF Commit, BookInv
  <2>2. heldTrade'[t] = NoTrade
    BY <1>2, <2>1, Distinct DEF HeldIs, IsPending, Flat
  <2>3. QED
    BY <1>1, <1>4, <2>1, <2>2, CloseStep
<1>5. QED
  BY <1>3, <1>4 DEF Op

(* Its failure leaves the token what it held. *)
LEMMA RevertStep ==
  ASSUME BookInv, BookInv', NEW r, NEW t \in Tokens,
         IsPending(t), r.op \in Op, heldTrade[t] = r.held,
         r.op = "open" => r.held = NoTrade, Revert(r, t),
         \A u \in Tokens : u # t => heldTrade'[u] = heldTrade[u]
  PROVE  UNCHANGED Ledger!ledgerVars
<1>1. HeldIs(t)'
  BY HeldValueNext DEF HeldByOwners
<1>2. heldTrade'[t] = r.held
  <2>1. CASE r.op = "open"
    <3>1. active'[t] = Flat
      BY <2>1, SetOwned DEF Revert, BookInv
    <3>2. QED
      BY <1>1, <2>1, <3>1, Distinct DEF HeldIs, IsPending, Flat
  <2>2. CASE r.op = "close"
    <3>1. active'[t] = Open(r.held)
      BY <2>2, SetOwned DEF Revert, BookInv
    <3>2. QED
      BY <1>1, <3>1, Distinct DEF HeldIs, IsPending
  <2>3. QED
    BY <2>1, <2>2 DEF Op
<1>3. closed' = closed
  BY DEF Revert
<1>4. QED
  BY <1>2, <1>3, StutterStep

LEMMA DispatchLedger == ASSUME BookInv, Dispatch PROVE UNCHANGED Ledger!ledgerVars
<1> USE DEF exec, book
<1>1. UNCHANGED <<active, closed, watch>>
  BY DEF Dispatch, BeginBlock, RequestOpen, RequestClose, Skip, EndDispatch, JoinAll, Spawn
<1>2. ASSUME NEW q \in Pairs
      PROVE  (Owning(q)' <=> Owning(q)) /\ (Owning(q) => task'[q].held = task[q].held)
  <2>1. ASSUME NEW p \in Pairs, Visit(p), NEW op, NEW of, Spawn(p, op, of)
        PROVE  ~ Owning(q) /\ ~ Owning(q)'
    BY <2>1 DEF Visit, Spawn, BookInv, TaskPhase, TypeOK, Owning
  <2>2. CASE JoinAll
    BY <2>2 DEF JoinAll, IdleTask, Owning
  <2>3. CASE UNCHANGED task
    BY <2>3 DEF Owning
  <2>4. QED
    BY <2>1, <2>2, <2>3 DEF Dispatch, BeginBlock, RequestOpen, RequestClose, Skip, EndDispatch
<1>3. \A t \in Tokens : heldTrade'[t] = heldTrade[t]
  BY <1>1, <1>2, HeldKept
<1>4. QED
  BY <1>1, <1>3, StutterStep

(* Another token is not touched by a task's step. *)
LEMMA TaskElsewhere ==
  ASSUME BookInv, NEW p \in Pairs, TaskStep(p), NEW u \in Tokens, u # TokenOf[p]
  PROVE  heldTrade'[u] = heldTrade[u]
<1> USE DEF exec, book
<1>1. active'[u] = active[u]
  BY DEF TaskStep, Execute, ClaimOpen, ClaimClose, RejectClaim, TraceOk, FailBeforeSend, SimulateOk,
     SimulateErr, SendTx, Commit, Revert, SetActive, BookInv, TypeOK
<1>2. \A q \in Pairs : q # p => task'[q] = task[q]
  BY DEF TaskStep, Execute, ClaimOpen, ClaimClose, RejectClaim, TraceOk, FailBeforeSend, SimulateOk,
     SimulateErr, SendTx, Goto, BookInv, TypeOK
<1>3. \A w : Watched(w) = u => (w \in watch' <=> w \in watch)
  BY DEF TaskStep, Execute, ClaimOpen, ClaimClose, RejectClaim, TraceOk, FailBeforeSend, SimulateOk,
     SimulateErr, SendTx, Watched
<1>4. QED
  BY <1>1, <1>2, <1>3, HeldKept DEF Owning

LEMMA TaskStepLedger ==
  ASSUME BookInv, BookInv', TradeInv, NEW p \in Pairs, TaskStep(p)
  PROVE  Ledger!LedgerNext \/ UNCHANGED Ledger!ledgerVars
<1> USE DEF exec, book
<1> DEFINE t == TokenOf[p]
           m == [id |-> nextId, pair |-> p]
<1>0. /\ t \in Tokens /\ TypeOK /\ task[p] \in Task /\ task[p].op \in Op
      /\ HeldIs(t) /\ HeldIs(t)'
      /\ \A u \in Tokens : u # t => heldTrade'[u] = heldTrade[u]
  BY Pieces, HeldValue, HeldValueNext, TaskElsewhere DEF HeldByOwners, BookInv, Task
<1>a. /\ task[p].op = "open" => task[p].held = NoTrade
      /\ Owning(p) /\ task[p].op = "close" => task[p].held \in Trade
      /\ Owning(p) => IsPending(t) /\ heldTrade[t] = task[p].held
  BY <1>0 DEF TradeInv, OpenersHoldNone, BookInv, HeldTrades, OwnerState, PendingOf, IsPending, HeldIs
<1>1. ASSUME closed' = closed, heldTrade'[t] = heldTrade[t] PROVE UNCHANGED Ledger!ledgerVars
  BY <1>0, <1>1, StutterStep
<1>2. CASE ClaimOpen(p)
  <2>1. heldTrade[t] = NoTrade
    BY <1>0, <1>2, Distinct DEF ClaimOpen, HasNoTrade, HeldIs, IsPending, Missing, Flat
  <2>2. Owning(p)' /\ task'[p].held = NoTrade
    BY <1>0, <1>2, <1>a DEF ClaimOpen, Goto, Owning, TypeOK, Task
  <2>3. QED
    BY <1>0, <1>1, <1>2, <2>1, <2>2 DEF ClaimOpen, HeldIs
<1>3. CASE ClaimClose(p)
  <2>1. heldTrade[t] = active[t].trade
    BY <1>0, <1>3, Distinct DEF ClaimClose, HeldIs, IsPending
  <2>2. Owning(p)' /\ task'[p].held = active[t].trade
    BY <1>0, <1>3 DEF ClaimClose, SwappedOut, Owning, TypeOK, Task
  <2>3. QED
    BY <1>0, <1>1, <1>3, <2>1, <2>2 DEF ClaimClose, HeldIs
<1>4. CASE RejectClaim(p) \/ TraceOk(p)
  <2>1. /\ UNCHANGED <<active, closed, watch>>
        /\ \A q \in Pairs : (Owning(q)' <=> Owning(q)) /\ task'[q].held = task[q].held
    <3>1. /\ \A q \in Pairs : q # p => task'[q] = task[q]
          /\ task'[p].held = task[p].held
      BY <1>0, <1>4, TaskHeld DEF RejectClaim, TraceOk, Goto, TypeOK
    <3>2. Owning(p)' <=> Owning(p)
      BY <1>0, <1>4 DEF RejectClaim, TraceOk, Goto, AtPc, Owning, TypeOK, Task
    <3>3. QED
      BY <1>4, <3>1, <3>2 DEF RejectClaim, TraceOk, Owning
  <2>2. heldTrade'[t] = heldTrade[t]
    BY <1>0, <2>1, HeldKept
  <2>3. QED
    BY <1>1, <2>1, <2>2
<1>5. CASE FailBeforeSend(p) \/ SimulateErr(p)
  <2>1. Owning(p) /\ Revert(task[p], t)
    BY <1>5 DEF FailBeforeSend, SimulateErr, AtPc, Owning
  <2>2. QED
    BY <1>0, <1>a, <2>1, RevertStep
<1>6. CASE SimulateOk(p)
  <2>1. Owning(p) /\ Commit(task[p], m)
    BY <1>6 DEF SimulateOk, AtPc, Owning
  <2>2. m \in Trade /\ m.pair = p /\ m \notin UsedTrades
    BY <1>0, NewTrade DEF TypeOK, Trade, TradeInv
  <2>3. QED
    BY <1>0, <1>a, <2>1, <2>2, CommitStep
<1>7. CASE SendTx(p)
  <2> DEFINE w == [trade |-> m, op |-> task[p].op, of |-> task[p].of, held |-> task[p].held]
  <2>1. Owning(p) /\ w \in watch' /\ TokenOf[w.trade.pair] = t /\ w.held = task[p].held /\ closed' = closed
    BY <1>7 DEF SendTx, AtPc, Owning
  <2> HIDE DEF w
  <2>2. \A v \in watch' : TokenOf[v.trade.pair] = t => heldTrade'[t] = v.held
    BY <1>0 DEF HeldIs, Watched
  <2>3. heldTrade'[t] = heldTrade[t]
    BY <1>a, <2>1, <2>2
  <2>4. QED
    BY <1>1, <2>1, <2>3
<1>8. QED
  BY <1>2, <1>3, <1>4, <1>5, <1>6, <1>7 DEF TaskStep, Execute

LEMMA ResolveLedger ==
  ASSUME BookInv, BookInv', TradeInv, NEW w \in watch, Confirm(w) \/ ConfirmErr(w)
  PROVE  Ledger!LedgerNext \/ UNCHANGED Ledger!ledgerVars
<1> USE DEF exec, book
<1> DEFINE t == Watched(w)
<1>1. /\ t \in Tokens /\ t = TokenOf[w.trade.pair] /\ w.op \in Op /\ w.trade \in Trade
      /\ HeldIs(t)
  BY Pieces, HeldValue DEF HeldByOwners, BookInv, Watcher, Watched
<1>2. ASSUME NEW u \in Tokens, u # t PROVE heldTrade'[u] = heldTrade[u]
  <2>1. active'[u] = active[u] /\ task' = task
    BY <1>1, <1>2 DEF Confirm, ConfirmErr, Commit, Revert, SetActive, BookInv, TypeOK
  <2>2. \A v : Watched(v) = u => (v \in watch' <=> v \in watch)
    BY <1>2 DEF Confirm, ConfirmErr
  <2>3. QED
    BY <2>1, <2>2, HeldKept DEF Owning
<1>3. /\ w.op = "open" => w.held = NoTrade
      /\ w.op = "close" => w.held \in Trade
      /\ IsPending(t) /\ heldTrade[t] = w.held /\ w.trade \notin UsedTrades
  BY <1>1 DEF TradeInv, OpenersHoldNone, FreshTrades, BookInv, HeldTrades, OwnerState, PendingOf, IsPending,
     HeldIs
<1>4. CASE Confirm(w)
  BY <1>1, <1>2, <1>3, <1>4, CommitStep DEF Confirm
<1>5. CASE ConfirmErr(w)
  BY <1>1, <1>2, <1>3, <1>5, RevertStep DEF ConfirmErr
<1>6. QED
  BY <1>4, <1>5

(* Every step of the controller is a step of the ledger or leaves it alone. *)
LEMMA LedgerStep ==
  BookInv /\ BookInv' /\ TradeInv /\ [Next]_vars => [Ledger!LedgerNext]_(Ledger!ledgerVars)
<1> SUFFICES ASSUME BookInv, BookInv', TradeInv, [Next]_vars
             PROVE  Ledger!LedgerNext \/ UNCHANGED Ledger!ledgerVars
  OBVIOUS
<1>1. CASE Main \/ Environment \/ PollAgain \/ Finished \/ UNCHANGED vars
  <2>1. UNCHANGED <<active, closed, task, watch>>
    BY <1>1 DEF Main, IndexerDone, PollDone, SaveClosed, Environment, Settle, PollAgain, Finished, vars,
       exec, book
  <2>2. \A t \in Tokens : heldTrade'[t] = heldTrade[t]
    BY <2>1, HeldKept DEF Owning
  <2>3. QED
    BY <2>1, <2>2, StutterStep
<1>2. QED
  BY <1>1, DispatchLedger, TaskStepLedger, ResolveLedger DEF Next, Resolve

LEMMA LedgerStart == Init => Ledger!LedgerInit
<1> SUFFICES ASSUME Init PROVE heldTrade = [t \in Tokens |-> NoTrade] /\ filedTrades = {}
  BY DEF Ledger!LedgerInit
<1>1. ASSUME NEW t \in Tokens PROVE heldTrade[t] = NoTrade
  <2>1. Holding(t) = {NoTrade}
    BY <1>1 DEF Init, Holding, Owning, IdleTask, Missing
  <2>2. QED
    BY <1>1, <2>1, HoldingOne
<1>2. heldTrade = [t \in Tokens |-> heldTrade[t]]
  BY DEF heldTrade
<1>3. QED
  BY <1>1, <1>2 DEF Init, filedTrades

(* The controller implements the position ledger: whatever fails, times out *)
(* or races, no position is lost, duplicated, swapped or filed twice.       *)
THEOREM ImplementsTheLedger == Spec => ImplementsLedger
<1>1. Spec => Ledger!LedgerSpec
  BY LedgerStart, LedgerStep, BookInvariant, TradesAreFresh, PTL DEF Spec, Ledger!LedgerSpec
<1>2. QED
  BY <1>1 DEF ImplementsLedger
=============================================================================
