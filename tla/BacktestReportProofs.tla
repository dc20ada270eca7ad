------------------------ MODULE BacktestReportProofs ------------------------
(***************************************************************************)
(* Proofs about BacktestReport for every set of tokens and pairs, whatever  *)
(* pairs trade in a block, any number of blocks, runs and interruptions.    *)
(***************************************************************************)
EXTENDS BacktestReport, TradeControllerProofs, BoundedInduction, SequenceTheorems, FiniteSetTheorems

CtlInv == BookInv /\ InlineInv /\ FinalInv /\ TradeInv
-----------------------------------------------------------------------------
(* The controller's own invariant, under the steps of this module *)

LEMMA InitCtl == Init => CtlInv
<1>1. Init => TradeInv /\ InlineInv /\ FinalInv
  BY DEF Init, TradeInv, FreshTrades, OpenersHoldNone, UsedTrades, Missing, IdleTask, InlineInv, FinalInv
<1>2. QED
  BY <1>1, InitInv DEF CtlInv

LEMMA NextCtl == CtlInv /\ [Next]_vars => CtlInv'
BY NextInv, InlineNext, FinalNext, TradeNext DEF CtlInv

(* A block message may name no pair here, which the controller's own Next   *)
(* leaves out.                                                              *)
LEMMA BeginBlockCtl ==
  ASSUME CtlInv, NEW pairs \in SUBSET Pairs, BeginBlock(pairs)
  PROVE  CtlInv'
<1> USE DEF exec, book
<1>1. TypeOK'
  BY BoundAssumption DEF CtlInv, BookInv, TypeOK, BeginBlock
<1>2. SafeInv'
  BY BeginBlockInv DEF CtlInv
<1>3. ClosedPairsMatch' /\ InlineInv' /\ FinalInv'
  BY DEF CtlInv, BookInv, ClosedPairsMatch, InlineInv, FinalInv, BeginBlock
<1>4. TradeInv'
  BY DEF CtlInv, TradeInv, FreshTrades, OpenersHoldNone, UsedTrades, BeginBlock
<1>5. QED
  BY <1>1, <1>2, <1>3, <1>4 DEF CtlInv, BookInv, SafeInv

LEMMA ControllerCtl == ASSUME CtlInv, Controller PROVE CtlInv'
<1>1. CASE \E pairs \in Messages : BeginBlock(pairs)
  BY <1>1, BeginBlockCtl, MessagesAssumption
<1>2. CASE ~ \E pairs \in Messages : BeginBlock(pairs)
  <2>1. Next
    BY <1>2 DEF Controller, Next, Dispatch, Main
  <2>2. QED
    BY <2>1, NextCtl
<1>3. QED
  BY <1>1, <1>2
-----------------------------------------------------------------------------
(* The history of a run: what was closed, when and in which order *)

HistoryInv == TimesKept /\ OneDecision /\ ClosingsKept /\ RequestsKept /\ ClosingsFiled

(* A step that closes nothing leaves the ordered closed trades alone. *)
LEMMA NothingClosed ==
  ASSUME ClosingsKept, NEW step, ControllerStep(step), closed' = closed
  PROVE  closings' = closings
<1>1. closings' = [t \in Tokens |-> closings[t]]
  BY DEF ControllerStep
<1>2. QED
  BY <1>1 DEF ClosingsKept

LEMMA NothingMined ==
  ASSUME NEW step, ControllerStep(step), nextId' = nextId
  PROVE  minedAt' = minedAt
BY DEF ControllerStep

(* Steps within a block that make no trade. *)
QuietStep ==
  /\ UNCHANGED <<block, nextId, closed, minedAt, closings>>
  /\ phase' = "dispatch" => phase = "dispatch"
  /\ \A p \in Pairs : Requesting(p)' =>
       /\ Requesting(p) /\ task'[p].op = task[p].op /\ task'[p].of = task[p].of
       /\ task[p].op = "close" /\ Owning(p)' =>
            Owning(p) \/ (active[TokenOf[p]].st = "open" /\ active[TokenOf[p]].trade = task[p].of)
  /\ \A t \in Tokens : active'[t].st = "open" =>
       \/ active'[t] = active[t]
       \/ \E p \in Pairs : /\ Owning(p) /\ task[p].op = "close" /\ TokenOf[p] = t
                           /\ active'[t].trade = task[p].of

LEMMA QuietHistory ==
  ASSUME CtlInv, HistoryInv, QuietStep
  PROVE  HistoryInv'
<1>1. TimesKept'
  BY DEF HistoryInv, TimesKept, QuietStep
<1>2. OneDecision'
  BY DEF HistoryInv, OneDecision, QuietStep
<1>3. ClosingsFiled'
  BY DEF HistoryInv, ClosingsFiled, QuietStep
<1>4. ClosingsKept'
  <2>1. ASSUME NEW t \in Tokens, NEW c, ClosingOf(t, c) PROVE ClosingOf(t, c)'
    BY <2>1 DEF ClosingOf, QuietStep, MinedAt
  <2>2. ASSUME NEW t \in Tokens, active'[t].st = "open"
        PROVE  Before(closings[t], MinedAt(active'[t].trade))
    <3>1. CASE active'[t] = active[t]
      BY <2>2, <3>1 DEF HistoryInv, ClosingsKept
    <3>2. CASE active'[t] # active[t]
      <4>1. PICK p \in Pairs : /\ Owning(p) /\ task[p].op = "close" /\ TokenOf[p] = t
                               /\ active'[t].trade = task[p].of
        BY <2>2, <3>2 DEF QuietStep
      <4>2. QED
        BY <4>1 DEF HistoryInv, RequestsKept, Owning, Requesting
    <3>3. QED
      BY <3>1, <3>2
  <2>3. ASSUME NEW t \in Tokens, active'[t].st = "open"
        PROVE  Before(closings[t], MinedAt(active[t].trade))'
    BY <2>2, <2>3 DEF QuietStep, MinedAt, Before
  <2>4. QED
    BY <2>1, <2>3 DEF HistoryInv, ClosingsKept, QuietStep, InOrder
<1>5. RequestsKept'
  <2> SUFFICES ASSUME NEW p \in Pairs, Requesting(p)'
               PROVE  /\ task'[p].op = "close" =>
                           /\ task'[p].of \in Trade /\ task'[p].of.id < nextId
                           /\ MinedAt(task'[p].of) < block
                           /\ Owning(p)' => Before(closings[TokenOf[p]], MinedAt(task'[p].of))
                      /\ task'[p].op = "open" => Before(closings[TokenOf[p]], block)
    BY DEF RequestsKept, QuietStep, MinedAt, Before
  <2>1. Requesting(p) /\ task'[p].op = task[p].op /\ task'[p].of = task[p].of
    BY DEF QuietStep
  <2>2. ASSUME task[p].op = "close", Owning(p)' PROVE Before(closings[TokenOf[p]], MinedAt(task[p].of))
    <3>1. CASE Owning(p)
      BY <2>1, <2>2, <3>1 DEF HistoryInv, RequestsKept
    <3>2. CASE ~ Owning(p)
      <4>1. active[TokenOf[p]].st = "open" /\ active[TokenOf[p]].trade = task[p].of
        BY <2>2, <3>2 DEF QuietStep
      <4>2. QED
        BY <4>1, Pieces DEF CtlInv, BookInv, HistoryInv, ClosingsKept
    <3>3. QED
      BY <3>1, <3>2
  <2>3. QED
    BY <2>1, <2>2 DEF HistoryInv, RequestsKept
<1>6. QED
  BY <1>1, <1>2, <1>3, <1>4, <1>5 DEF HistoryInv

(* What Goto does to the requests of the other tasks and to its own. *)
LEMMA GotoRequests ==
  ASSUME TypeOK, NEW p \in Pairs, NEW pc \in {"claimed", "traced", "done"}, Goto(p, pc)
  PROVE  /\ task'[p].pc = pc /\ task'[p].op = task[p].op /\ task'[p].of = task[p].of
         /\ \A q \in Pairs \ {p} : task'[q] = task[q]
<1>1. /\ task'[p] = [task[p] EXCEPT !.pc = pc] /\ task[p] \in Task
      /\ \A q \in Pairs : q # p => task'[q] = task[q]
  BY GotoType, Pieces
<1>2. QED
  BY <1>1 DEF Task

LEMMA QuietTask ==
  ASSUME CtlInv, HistoryInv, NEW p \in Pairs, ControllerStep(TaskStep(p)), ~ SimulateOk(p)
  PROVE  QuietStep
<1> USE DEF exec, book
<1>1. TypeOK /\ Mode = "backtest" /\ TokenOf[p] \in Tokens
  BY ReportMode, Pieces DEF CtlInv, BookInv
<1>2. UNCHANGED <<block, nextId, closed, phase>>
  BY <1>1 DEF ControllerStep, TaskStep, Execute, ClaimOpen, ClaimClose, RejectClaim, TraceOk,
              FailBeforeSend, SimulateErr, SendTx, Revert
<1>3. UNCHANGED <<minedAt, closings>>
  BY <1>2, NothingClosed, NothingMined DEF HistoryInv
<1>4. TaskStep(p) /\ ~ SendTx(p)
  BY <1>1 DEF ControllerStep, SendTx
<1>5. task[p].pc # "idle" /\ task[p].pc # "done" => Requesting(p)
  BY <1>1, Pieces DEF Task, Requesting
<1>6. ASSUME NEW pc \in {"claimed", "traced", "done"}, Goto(p, pc), Requesting(p),
             pc = "claimed" => task[p].op = "open", pc = "traced" => Owning(p),
             \A t \in Tokens : active'[t].st = "open" =>
               \/ active'[t] = active[t]
               \/ /\ Owning(p) /\ task[p].op = "close" /\ TokenOf[p] = t
                  /\ active'[t].trade = task[p].of
      PROVE  QuietStep
  BY <1>1, <1>2, <1>3, <1>6, GotoRequests DEF QuietStep, Requesting, Owning
<1>7. CASE ClaimOpen(p)
  <2>1. \A t \in Tokens : active'[t].st = "open" => active'[t] = active[t]
    BY <1>1, <1>7, Distinct DEF ClaimOpen, TypeOK
  <2>2. QED
    BY <1>5, <1>6, <1>7, <2>1 DEF ClaimOpen, AtPc
<1>8. CASE RejectClaim(p)
  BY <1>5, <1>6, <1>8 DEF RejectClaim, AtPc
<1>9. CASE TraceOk(p)
  BY <1>5, <1>6, <1>9 DEF TraceOk, AtPc, Owning
<1>10. CASE ClaimClose(p)
  <2>1. \A t \in Tokens : active'[t].st = "open" => active'[t] = active[t]
    BY <1>1, <1>10, Distinct DEF ClaimClose, TypeOK
  <2>2. active[TokenOf[p]].st = "open" /\ active[TokenOf[p]].trade = task[p].of /\ task[p].pc = "spawned"
    BY <1>10 DEF ClaimClose, AtPc, CtlInv, BookInv, Requests, WaitingClose
  <2>3. /\ task'[p].op = task[p].op /\ task'[p].of = task[p].of
        /\ \A q \in Pairs \ {p} : task'[q] = task[q]
    BY <1>1, <1>10, Pieces DEF ClaimClose, TypeOK, Task
  <2>4. QED
    BY <1>2, <1>3, <2>1, <2>2, <2>3 DEF QuietStep, Requesting, Owning
<1>11. CASE FailBeforeSend(p) \/ SimulateErr(p)
  <2>1. Owning(p) /\ Goto(p, "done") /\ Revert(task[p], TokenOf[p])
    BY <1>11 DEF FailBeforeSend, SimulateErr, AtPc, Owning
  <2>2. task[p].op = "close" => task[p].held = task[p].of
    BY <2>1 DEF CtlInv, BookInv, HeldTrades
  <2>3. \A t \in Tokens : active'[t].st = "open" =>
          \/ active'[t] = active[t]
          \/ task[p].op = "close" /\ TokenOf[p] = t /\ active'[t].trade = task[p].of
    <3>1. CASE task[p].op = "open"
      BY <1>1, <2>1, <3>1, Distinct DEF Revert, SetActive, TypeOK
    <3>2. CASE task[p].op # "open"
      <4>1. task[p].op = "close"
        BY <1>1, <3>2, Pieces DEF Task, Op
      <4>2. active' = [active EXCEPT ![TokenOf[p]] = IF @ = Missing THEN Missing ELSE Open(task[p].of)]
        BY <2>1, <2>2, <4>1 DEF Revert, SetActive
      <4>3. \A t \in Tokens : active'[t] = active[t] \/ (t = TokenOf[p] /\ active'[t] = Open(task[p].of))
        BY <1>1, <4>2 DEF TypeOK
      <4>4. QED
        BY <4>1, <4>3 DEF Open
    <3>3. QED
      BY <3>1, <3>2
  <2>4. QED
    BY <1>6, <2>1, <2>3 DEF Owning, Requesting
<1>12. QED
  BY <1>4, <1>7, <1>8, <1>9, <1>10, <1>11 DEF TaskStep, Execute

LEMMA QuietOthers ==
  ASSUME CtlInv, HistoryInv, NEW step, ControllerStep(step),
         (\E p \in Pairs : Skip(p)) \/ EndDispatch \/ JoinAll \/ IndexerDone \/ PollDone
  PROVE  QuietStep
<1> USE DEF exec, book
<1>1. /\ UNCHANGED <<block, nextId, closed, active>>
      /\ phase' = "dispatch" => phase = "dispatch"
      /\ task' = task \/ \A p \in Pairs : task'[p].pc = "idle"
  BY DEF Skip, Visit, EndDispatch, JoinAll, IndexerDone, PollDone, IdleTask
<1>2. UNCHANGED <<minedAt, closings>>
  BY <1>1, NothingClosed, NothingMined DEF HistoryInv
<1>3. QED
  BY <1>1, <1>2 DEF QuietStep, Requesting, Owning

(* The next block is later than every trade there is. *)
LEMMA BeginBlockHistory ==
  ASSUME CtlInv, HistoryInv, NEW step, ControllerStep(step), NEW pairs, BeginBlock(pairs)
  PROVE  HistoryInv'
<1> USE DEF exec, book
<1>1. /\ block \in Nat /\ block' = block + 1 /\ phase' = "dispatch" /\ phase = "idle"
      /\ UNCHANGED <<nextId, closed, active, task>>
  BY DEF BeginBlock, CtlInv, BookInv, TypeOK
<1>2. UNCHANGED <<minedAt, closings>>
  BY <1>1, NothingClosed, NothingMined DEF HistoryInv
<1>3. \A p \in Pairs : ~ Requesting(p) /\ ~ Requesting(p)'
  BY <1>1 DEF CtlInv, BookInv, TaskPhase, Requesting
<1>4. TimesKept'
  <2>1. minedAt \in Seq(0..block) /\ Len(minedAt) = nextId
    BY DEF HistoryInv, TimesKept
  <2>2. \A i \in DOMAIN minedAt : minedAt[i] \in 0..block
    BY <2>1, ElementOfSeq, LenProperties
  <2>3. minedAt \in Seq(0..block + 1)
    BY <1>1, <2>1, SeqMonotonic, 0..block \subseteq 0..block + 1
  <2>4. \A i \in DOMAIN minedAt : minedAt[i] < block + 1
    BY <1>1, <2>2
  <2>5. QED
    BY <1>1, <1>2, <2>1, <2>3, <2>4 DEF TimesKept
<1>5. OneDecision' /\ RequestsKept' /\ ClosingsFiled'
  BY <1>1, <1>2, <1>3 DEF OneDecision, RequestsKept, HistoryInv, ClosingsFiled
<1>6. ClosingsKept'
  <2>1. ASSUME NEW t \in Tokens, NEW c, ClosingOf(t, c) PROVE ClosingOf(t, c)'
    <3>1. c.closeTs \in Nat
      BY <2>1 DEF ClosingOf, Closing
    <3>2. c.closeTs <= block /\ c.closeTs < block + 1
      BY <1>1, <2>1, <3>1 DEF ClosingOf
    <3>3. QED
      BY <1>1, <1>2, <2>1, <3>1, <3>2 DEF ClosingOf, MinedAt
  <2>2. QED
    BY <1>1, <1>2, <2>1 DEF HistoryInv, ClosingsKept, InOrder, Before, MinedAt
<1>7. QED
  BY <1>4, <1>5, <1>6 DEF HistoryInv

(* A request is decided on what the block found. *)
LEMMA SpawnHistory ==
  ASSUME CtlInv, HistoryInv, CtlInv', NEW step, ControllerStep(step), NEW p \in Pairs,
         RequestOpen(p) \/ RequestClose(p)
  PROVE  HistoryInv'
<1> USE DEF exec, book
<1> DEFINE Decided(op, of) == /\ Spawn(p, op, of) /\ phase = "dispatch"
                              /\ op = "open" => HasNoTrade(TokenOf[p])
                              /\ op = "close" => /\ active[TokenOf[p]].st = "open"
                                                /\ of = active[TokenOf[p]].trade
<1>0. \E op \in Op : \E of : Decided(op, of)
  BY DEF RequestOpen, RequestClose, Visit, HasNoTrade, Op
<1>0a. PICK op \in Op : \E of : Decided(op, of)
  BY <1>0
<1>0b. PICK of : Decided(op, of)
  BY <1>0a
<1>1. /\ Spawn(p, op, of) /\ phase = "dispatch"
      /\ op = "open" => HasNoTrade(TokenOf[p])
      /\ op = "close" => active[TokenOf[p]].st = "open" /\ of = active[TokenOf[p]].trade
  BY <1>0b
<1>2. UNCHANGED <<block, phase, nextId, closed, active>>
  BY <1>1 DEF Spawn
<1>3. UNCHANGED <<minedAt, closings>>
  BY <1>2, NothingClosed, NothingMined DEF HistoryInv
<1>4. /\ task'[p] = [pc |-> "spawned", op |-> op, of |-> of, held |-> NoTrade]
      /\ \A q \in Pairs \ {p} : task'[q] = task[q]
  BY <1>1 DEF Spawn, CtlInv, BookInv, TypeOK
<1>5. TimesKept' /\ ClosingsFiled' /\ ClosingsKept'
  BY <1>2, <1>3 DEF HistoryInv, TimesKept, ClosingsFiled, ClosingsKept, ClosingOf, MinedAt, InOrder, Before
<1>6. OneDecision'
  <2>1. ASSUME NEW q \in Pairs \ {p}, Requesting(q)', TokenOf[q] = TokenOf[p] PROVE task'[q].op = op
    <3>1. task'[q] = task[q] /\ task[q].pc = "spawned" /\ task[q] \in Task
      BY <1>1, <1>4, <2>1, Pieces DEF CtlInv, BookInv, TaskPhase, Requesting
    <3>2. /\ task[q].op = "open" => HasNoTrade(TokenOf[p])
          /\ task[q].op = "close" => active[TokenOf[p]].st = "open"
      BY <1>1, <2>1, <3>1 DEF CtlInv, BookInv, Requests, WaitingClose
    <3>3. QED
      BY <1>1, <3>1, <3>2, Distinct DEF Task, Op, HasNoTrade
  <2>2. QED
    BY <1>4, <2>1 DEF HistoryInv, OneDecision, Requesting
<1>7. RequestsKept'
  <2>1. ASSUME op = "close"
        PROVE  of \in Trade /\ of.id < nextId /\ MinedAt(of) < block
    <3>1. of \in Trade
      BY <1>1, <2>1, EntryFacts, Pieces DEF CtlInv, BookInv
    <3>2. of.id < nextId
      BY <1>1, <2>1, <3>1, UsedFacts, Pieces, NoTradeAssumption DEF CtlInv, TradeInv, FreshTrades, BookInv
    <3>3. of.id + 1 \in DOMAIN minedAt
      BY <3>1, <3>2 DEF HistoryInv, TimesKept, Trade, CtlInv, BookInv, TypeOK
    <3>4. QED
      BY <1>1, <3>1, <3>2, <3>3 DEF HistoryInv, TimesKept, MinedAt
  <2>2. \A t \in Tokens : Before(closings[t], block)
    BY <1>1 DEF HistoryInv, ClosingsKept, ClosingOf, Before
  <2>3. ASSUME NEW q \in Pairs, Requesting(q)'
        PROVE  /\ task'[q].op = "close" =>
                    /\ task'[q].of \in Trade /\ task'[q].of.id < nextId
                    /\ MinedAt(task'[q].of) < block
                    /\ Owning(q)' => Before(closings[TokenOf[q]], MinedAt(task'[q].of))
               /\ task'[q].op = "open" => Before(closings[TokenOf[q]], block)
    <3>1. CASE q = p
      BY <1>1, <1>4, <2>1, <2>2, <3>1, Pieces DEF Owning, CtlInv, BookInv
    <3>2. CASE q # p
      BY <1>4, <2>3, <3>2 DEF Requesting, Owning, HistoryInv, RequestsKept
    <3>3. QED
      BY <3>1, <3>2
  <2>4. QED
    BY <1>2, <1>3, <2>3 DEF RequestsKept, MinedAt, Before
<1>8. QED
  BY <1>5, <1>6, <1>7 DEF HistoryInv

(* The trade a simulation makes is in the book or closes what is there. *)
LEMMA SimulateTimes ==
  ASSUME CtlInv, HistoryInv, NEW step, ControllerStep(step), NEW p \in Pairs, SimulateOk(p)
  PROVE  /\ UNCHANGED <<block, phase>> /\ phase = "join" /\ Owning(p) /\ nextId' = nextId + 1
         /\ minedAt' = Append(minedAt, block)
         /\ minedAt'[nextId + 1] = block
         /\ \A m \in Trade : m.id < nextId => MinedAt(m)' = MinedAt(m)
         /\ TimesKept'
<1>1. /\ UNCHANGED <<block, phase>> /\ phase = "join" /\ Owning(p) /\ nextId' = nextId + 1
  BY Joining DEF SimulateOk, exec, AtPc, Owning, CtlInv
<1>2. nextId \in Nat /\ block \in Nat /\ minedAt \in Seq(0..block) /\ Len(minedAt) = nextId
  BY DEF CtlInv, BookInv, TypeOK, HistoryInv, TimesKept
<1>3. minedAt' = Append(minedAt, block)
  BY <1>1, <1>2 DEF ControllerStep
<1>4. /\ minedAt' \in Seq(0..block) /\ Len(minedAt') = nextId + 1
      /\ minedAt'[nextId + 1] = block /\ \A i \in 1..nextId : minedAt'[i] = minedAt[i]
  BY <1>2, <1>3, AppendProperties
<1>5. \A m \in Trade : m.id < nextId => MinedAt(m)' = MinedAt(m)
  BY <1>2, <1>4 DEF MinedAt, Trade
<1>6. QED
  BY <1>1, <1>3, <1>4, <1>5 DEF TimesKept

(* The requests that are left once a task has made its trade. *)
LEMMA SimulateRequests ==
  ASSUME CtlInv, HistoryInv, NEW p \in Pairs, SimulateOk(p)
  PROVE  /\ ~ Requesting(p)'
         /\ \A q \in Pairs \ {p} : task'[q] = task[q]
         /\ \A q \in Pairs \ {p} : Owning(q) => TokenOf[q] # TokenOf[p]
         /\ \A q \in Pairs : Requesting(q)' => Requesting(q) /\ task'[q] = task[q] /\ (Owning(q)' <=> Owning(q))
         /\ \A q \in Pairs : Requesting(q) /\ TokenOf[q] = TokenOf[p] => task[q].op = task[p].op
         /\ OneDecision'
<1>1. Goto(p, "done") /\ task[p].pc = "traced"
  BY DEF SimulateOk, AtPc
<1>2. task'[p].pc = "done" /\ \A q \in Pairs \ {p} : task'[q] = task[q]
  BY <1>1, GotoRequests DEF CtlInv, BookInv
<1>3. /\ \A q \in Pairs \ {p} : Owning(q) => TokenOf[q] # TokenOf[p]
      /\ \A q \in Pairs : Requesting(q) /\ TokenOf[q] = TokenOf[p] => task[q].op = task[p].op
  BY <1>1 DEF CtlInv, BookInv, OwnerUnique, Owning, HistoryInv, OneDecision, Requesting
<1>4. \A q \in Pairs : Requesting(q)' => Requesting(q) /\ task'[q] = task[q] /\ (Owning(q)' <=> Owning(q))
  BY <1>2 DEF Requesting, Owning
<1>5. OneDecision'
  BY <1>4 DEF HistoryInv, OneDecision
<1>6. QED
  BY <1>2, <1>3, <1>4, <1>5 DEF Requesting

(* A closing that is filed stays as it was filed. *)
LEMMA ClosingStays ==
  ASSUME CtlInv, HistoryInv, NEW step, ControllerStep(step), NEW p \in Pairs, SimulateOk(p),
         NEW t \in Tokens, NEW c, ClosingOf(t, c)
  PROVE  ClosingOf(t, c)'
<1>1. c.close \in Trade /\ c.close.id \in Nat /\ nextId \in Nat
  BY DEF ClosingOf, Closing, Trade, CtlInv, BookInv, TypeOK
<1>2. QED
  BY <1>1, SimulateTimes DEF ClosingOf

LEMMA OpenHistory ==
  ASSUME CtlInv, HistoryInv, NEW step, ControllerStep(step), NEW p \in Pairs, SimulateOk(p),
         task[p].op = "open"
  PROVE  HistoryInv'
<1> DEFINE t == TokenOf[p]
           m == [id |-> nextId, pair |-> p]
<1>1. Commit(task[p], m) /\ m \in Trade
  BY DEF SimulateOk, Trade, CtlInv, BookInv, TypeOK
<1>2. SetActive(t, Open(m)) /\ closed' = closed
  BY <1>1 DEF Commit
<1>3. /\ t \in Tokens /\ active \in [Tokens -> Entry]
      /\ \A u \in Tokens : active'[u] = active[u] \/ (u = t /\ active'[u] = Open(m))
  BY <1>2, Pieces, Distinct DEF SetActive, CtlInv, BookInv, TypeOK
<1>4. closings' = closings
  BY <1>2, NothingClosed DEF HistoryInv
<1>5. ClosingsFiled'
  BY <1>2, <1>4 DEF HistoryInv, ClosingsFiled
<1>6. Before(closings[t], block)
  BY SimulateTimes DEF HistoryInv, RequestsKept, Owning, Requesting
<1>7. ClosingsKept'
  <2>1. ASSUME NEW u \in Tokens, active'[u].st = "open"
        PROVE  Before(closings[u], minedAt'[active'[u].trade.id + 1])
    <3>1. CASE active'[u] = active[u]
      <4>1. active[u].trade \in Trade /\ active[u].trade.id < nextId
        BY <1>3, <2>1, <3>1, EntryFacts, UsedFacts, NoTradeAssumption DEF CtlInv, TradeInv, FreshTrades
      <4>2. QED
        BY <2>1, <3>1, <4>1, SimulateTimes DEF HistoryInv, ClosingsKept, MinedAt
    <3>2. CASE active'[u] # active[u]
      BY <1>3, <1>6, <3>2, SimulateTimes DEF Open
    <3>3. QED
      BY <3>1, <3>2
  <2>2. \A u \in Tokens : active'[u].st = "open" => Before(closings[u], MinedAt(active[u].trade))'
    BY <1>4, <2>1 DEF MinedAt, Before
  <2>3. QED
    BY <1>4, <2>2, ClosingStays DEF HistoryInv, ClosingsKept, InOrder
<1>8. RequestsKept'
  <2>1. nextId \in Nat
    BY DEF CtlInv, BookInv, TypeOK
  <2>2. ASSUME NEW q \in Pairs, Requesting(q)'
        PROVE  /\ task'[q].op = "close" =>
                    /\ task'[q].of \in Trade /\ task'[q].of.id < nextId + 1
                    /\ MinedAt(task[q].of)' < block
                    /\ Owning(q)' => Before(closings[TokenOf[q]], MinedAt(task[q].of)')
               /\ task'[q].op = "open" => Before(closings[TokenOf[q]], block)
    <3>1. Requesting(q) /\ task'[q] = task[q] /\ (Owning(q)' <=> Owning(q))
      BY <2>2, SimulateRequests
    <3>2. task[q].op = "close" => task[q].of \in Trade /\ task[q].of.id < nextId
      BY <3>1 DEF HistoryInv, RequestsKept
    <3>3. task[q].op = "close" => /\ task[q].of.id < nextId + 1
                                  /\ MinedAt(task[q].of)' = MinedAt(task[q].of)
      BY <2>1, <3>1, <3>2, SimulateTimes DEF Trade, MinedAt
    <3>4. QED
      BY <3>1, <3>2, <3>3 DEF HistoryInv, RequestsKept
  <2>3. QED
    BY <1>4, <2>2, SimulateTimes DEF RequestsKept, MinedAt, Before
<1>9. QED
  BY <1>5, <1>7, <1>8, SimulateTimes, SimulateRequests DEF HistoryInv

(* A close files one more trade, on its token and at the end. *)
LEMMA CloseFiles ==
  ASSUME CtlInv, HistoryInv, NEW step, ControllerStep(step), NEW p \in Pairs, SimulateOk(p),
         task[p].op = "close"
  PROVE  LET t == TokenOf[p]
             m == [id |-> nextId, pair |-> p]
             k == [open |-> task[p].of, close |-> m, of |-> task[p].of,
                   openTs |-> MinedAt(task[p].of), closeTs |-> block] IN
         /\ m \in Trade /\ t \in Tokens
         /\ closed' = closed \cup {Filed(k)} /\ Filed(k).token = t
         /\ closings' \in [Tokens -> Seq(Closing)]
         /\ closings'[t] = Append(closings[t], k)
         /\ \A u \in Tokens \ {t} : closings'[u] = closings[u]
         /\ \A c : c = k => ClosingOf(t, c)'
         /\ Before(closings[t], k.openTs)
         /\ active'[t] = Flat /\ \A u \in Tokens \ {t} : active'[u] = active[u]
<1> DEFINE t == TokenOf[p]
           m == [id |-> nextId, pair |-> p]
           of == task[p].of
           k == [open |-> of, close |-> m, of |-> of, openTs |-> MinedAt(of), closeTs |-> block]
           c0 == [token |-> t, open |-> of, close |-> m, of |-> of]
<1>0. TypeOK /\ HeldTrades /\ OwnerState /\ FreshTrades /\ nextId \in Nat /\ block \in Nat
  BY DEF CtlInv, BookInv, TradeInv, TypeOK
<1>1. Commit(task[p], m) /\ m \in Trade /\ t \in Tokens
  BY <1>0, Pieces DEF SimulateOk, Trade
<1>2. /\ Owning(p) /\ Requesting(p) /\ task[p].held = of /\ of \in Trade /\ of.id < nextId
      /\ TokenOf[of.pair] = t /\ active[t] = PendingClose
      /\ MinedAt(of) < block /\ Before(closings[t], MinedAt(of)) /\ phase = "join"
  BY <1>0, SimulateTimes DEF HeldTrades, OwnerState, PendingOf, HistoryInv, RequestsKept, Owning, Requesting
<1>3. SetActive(t, Flat) /\ closed' = closed \cup {c0}
  BY <1>1, <1>2, Distinct DEF Commit
<1>4. active'[t] = Flat /\ \A u \in Tokens \ {t} : active'[u] = active[u]
  BY <1>0, <1>1, <1>2, <1>3, Distinct DEF SetActive, TypeOK
<1>5. c0 \notin closed
  <2>1. m \notin UsedTrades
    BY <1>0, <1>1, NewTrade
  <2>2. \A c \in closed : c.close # m
    BY <1>1, <2>1, UsedFacts, NoTradeAssumption
  <2>3. QED
    BY <2>2
<1>6. c0 = Filed(k) /\ TokenOf[m.pair] = t
  BY DEF Filed
<1>7. minedAt'[of.id + 1] = MinedAt(of)
  BY <1>2, SimulateTimes DEF MinedAt
<1> DEFINE new(u) == {c \in closed' \ closed : c.token = u}
<1>8. new(t) = {c0} /\ \A u \in Tokens \ {t} : new(u) = {}
  BY <1>3, <1>5
<1>9. closings' = [u \in Tokens |->
         IF new(u) = {} THEN closings[u]
         ELSE LET c == CHOOSE c \in new(u) : TRUE IN
              Push([open |-> c.open, close |-> c.close, of |-> c.of,
                    openTs |-> minedAt'[c.open.id + 1], closeTs |-> block], closings[u])]
  BY DEF ControllerStep
<1>10. (CHOOSE c \in new(t) : TRUE) = c0 /\ new(t) # {}
  BY <1>8
<1> HIDE DEF new
<1>11. \A u \in Tokens \ {t} : closings'[u] = closings[u]
  BY <1>8, <1>9
<1>12. closings'[t] = Push([open |-> of, close |-> m, of |-> of,
                            openTs |-> minedAt'[of.id + 1], closeTs |-> block], closings[t])
  BY <1>1, <1>9, <1>10
<1>13. closings'[t] = Append(closings[t], k)
  BY <1>7, <1>12 DEF Push
<1>14. MinedAt(of) \in Nat
  <2>1. of.id + 1 \in DOMAIN minedAt /\ minedAt \in Seq(0..block)
    BY <1>0, <1>2 DEF HistoryInv, TimesKept, Trade
  <2>2. minedAt[of.id + 1] \in 0..block
    BY <2>1, ElementOfSeq, LenProperties
  <2>3. QED
    BY <1>0, <2>2 DEF MinedAt
<1>15. k \in Closing
  BY <1>0, <1>1, <1>2, <1>14 DEF Closing
<1>16. closings' \in [Tokens -> Seq(Closing)]
  <2>1. closings \in [Tokens -> Seq(Closing)]
    BY DEF HistoryInv, ClosingsKept
  <2>2. closings'[t] \in Seq(Closing)
    BY <1>1, <1>13, <1>15, <2>1, AppendProperties
  <2>3. \A u \in Tokens : closings'[u] \in Seq(Closing)
    BY <1>11, <2>1, <2>2
  <2>4. DOMAIN closings' = Tokens /\ closings' = [u \in Tokens |-> closings'[u]]
    BY <1>9
  <2>5. QED
    BY <2>3, <2>4
<1>17. \A c : c = k => ClosingOf(t, c)'
  <2>1. m.id < nextId + 1 /\ minedAt'[m.id + 1] = block /\ phase' = "join" /\ nextId' = nextId + 1
        /\ block' = block
    BY <1>0, <1>2, SimulateTimes
  <2>2. block <= block
    BY <1>0
  <2>3. QED
    BY <1>2, <1>6, <1>15, <2>1, <2>2 DEF ClosingOf, MinedAt
<1>18. QED
  BY <1>1, <1>2, <1>3, <1>4, <1>6, <1>11, <1>13, <1>16, <1>17 DEF Filed

LEMMA CloseHistory ==
  ASSUME CtlInv, HistoryInv, NEW step, ControllerStep(step), NEW p \in Pairs, SimulateOk(p),
         task[p].op = "close"
  PROVE  HistoryInv'
<1> DEFINE t == TokenOf[p]
<1>1. PICK k : /\ t \in Tokens /\ closed' = closed \cup {Filed(k)} /\ Filed(k).token = t
               /\ closings' \in [Tokens -> Seq(Closing)]
               /\ closings'[t] = Append(closings[t], k)
               /\ \A u \in Tokens \ {t} : closings'[u] = closings[u]
               /\ ClosingOf(t, k)' /\ Before(closings[t], k.openTs)
               /\ active'[t] = Flat /\ \A u \in Tokens \ {t} : active'[u] = active[u]
  BY CloseFiles
<1>2. /\ closings \in [Tokens -> Seq(Closing)]
      /\ \A u \in Tokens : closings[u] \in Seq(Closing) /\ Len(closings[u]) \in Nat
  BY DEF HistoryInv, ClosingsKept
<1>3. /\ DOMAIN closings[t] = 1..Len(closings[t])
      /\ DOMAIN closings'[t] = 1..Len(closings[t]) + 1
      /\ closings'[t][Len(closings[t]) + 1] = k
      /\ \A i \in DOMAIN closings[t] : closings'[t][i] = closings[t][i]
  <2>1. closings[t] \in Seq(Closing) /\ k \in Closing
    BY <1>1, <1>2 DEF ClosingOf
  <2>2. QED
    BY <1>1, <2>1
<1> DEFINE n == Len(closings[t])
<1>a. n \in Nat /\ n + 1 \in 1..n + 1 /\ 1..n + 1 = (1..n) \cup {n + 1} /\ n + 1 \notin 1..n
  BY <1>1, <1>2
<1>b. /\ DOMAIN closings'[t] = (DOMAIN closings[t]) \cup {n + 1}
      /\ \A u \in Tokens : \A i \in DOMAIN closings[u] :
           i \in DOMAIN closings'[u] /\ closings'[u][i] = closings[u][i]
  <2>1. DOMAIN closings'[t] = (DOMAIN closings[t]) \cup {n + 1}
    BY <1>3, <1>a
  <2>2. QED
    BY <1>1, <1>3, <2>1
<1>4. ClosingsFiled'
  <2>1. ASSUME NEW u \in Tokens, NEW i \in DOMAIN closings'[u] PROVE Filed(closings'[u][i]) \in closed'
    <3>1. CASE u = t
      <4>1. CASE i = n + 1
        BY <1>1, <1>3, <3>1, <4>1
      <4>2. CASE i # n + 1
        BY <1>1, <1>b, <2>1, <3>1, <4>2 DEF HistoryInv, ClosingsFiled
      <4>3. QED
        BY <4>1, <4>2
    <3>2. CASE u # t
      BY <1>1, <2>1, <3>2 DEF HistoryInv, ClosingsFiled
    <3>3. QED
      BY <3>1, <3>2
  <2>2. ASSUME NEW c \in closed' PROVE \E i \in DOMAIN closings'[c.token] : Filed(closings'[c.token][i]) = c
    <3>1. CASE c = Filed(k)
      <4>1. c.token = t /\ Len(closings[t]) + 1 \in DOMAIN closings'[t]
        BY <1>1, <1>2, <1>3, <3>1
      <4>2. QED
        BY <1>3, <3>1, <4>1
    <3>2. CASE c \in closed
      <4>1. c.token \in Tokens
        BY <3>2 DEF CtlInv, BookInv, TypeOK, ClosedTrade
      <4>2. PICK i \in DOMAIN closings[c.token] : Filed(closings[c.token][i]) = c
        BY <3>2 DEF HistoryInv, ClosingsFiled
      <4>3. i \in DOMAIN closings'[c.token] /\ closings'[c.token][i] = closings[c.token][i]
        BY <1>b, <4>1, <4>2
      <4>4. QED
        BY <4>2, <4>3
    <3>3. QED
      BY <1>1, <3>1, <3>2
  <2>3. QED
    BY <2>1, <2>2 DEF ClosingsFiled, Filed
<1>5. ClosingsKept'
  <2>1. ASSUME NEW u \in Tokens, NEW i \in DOMAIN closings'[u] PROVE ClosingOf(u, closings[u][i])'
    <3>1. CASE u = t /\ i = Len(closings[t]) + 1
      BY <1>1, <1>3, <3>1
    <3>2. CASE ~ (u = t /\ i = Len(closings[t]) + 1)
      <4>1. i \in DOMAIN closings[u] /\ closings'[u][i] = closings[u][i]
        <5>1. CASE u = t
          BY <1>1, <1>b, <2>1, <3>2, <5>1
        <5>2. CASE u # t
          BY <1>1, <1>b, <2>1, <5>2
        <5>3. QED
          BY <5>1, <5>2
      <4>2. ClosingOf(u, closings[u][i])
        BY <4>1 DEF HistoryInv, ClosingsKept
      <4>3. \A c : ClosingOf(u, c) => ClosingOf(u, c)'
        BY ClosingStays
      <4>4. QED
        BY <4>1, <4>2, <4>3
    <3>3. QED
      BY <3>1, <3>2
  <2>2. ASSUME NEW u \in Tokens PROVE InOrder(closings'[u])
    <3>1. CASE u = t
      <4> SUFFICES ASSUME NEW i \in DOMAIN closings'[t], NEW j \in DOMAIN closings'[t], i < j
                   PROVE  closings'[t][i].closeTs < closings'[t][j].openTs
        BY <3>1 DEF InOrder
      <4>1. i \in DOMAIN closings[t]
        BY <1>1, <1>2, <1>3
      <4>2. CASE j = Len(closings[t]) + 1
        BY <1>1, <1>3, <4>1, <4>2 DEF Before
      <4>3. CASE j # Len(closings[t]) + 1
        <5>1. j \in DOMAIN closings[t]
          BY <1>1, <1>2, <1>3, <4>3
        <5>2. QED
          BY <1>1, <1>3, <4>1, <5>1 DEF HistoryInv, ClosingsKept, InOrder
      <4>4. QED
        BY <4>2, <4>3
    <3>2. CASE u # t
      BY <1>1, <3>2 DEF HistoryInv, ClosingsKept
    <3>3. QED
      BY <3>1, <3>2
  <2>3. ASSUME NEW u \in Tokens, active'[u].st = "open"
        PROVE  Before(closings'[u], minedAt'[active'[u].trade.id + 1])
    <3>1. u # t /\ active'[u] = active[u] /\ closings'[u] = closings[u]
      BY <1>1, <2>3, Distinct
    <3>2. active[u].trade \in Trade /\ active[u].trade.id < nextId
      BY <2>3, <3>1, EntryFacts, UsedFacts, NoTradeAssumption
         DEF CtlInv, TradeInv, FreshTrades, BookInv, TypeOK
    <3>3. QED
      BY <2>3, <3>1, <3>2, SimulateTimes DEF HistoryInv, ClosingsKept, MinedAt
  <2>4. QED
    BY <1>1, <2>1, <2>2, <2>3 DEF ClosingsKept, MinedAt, InOrder, Before
<1>6. RequestsKept'
  <2>1. nextId \in Nat
    BY DEF CtlInv, BookInv, TypeOK
  <2>2. ASSUME NEW q \in Pairs, Requesting(q)'
        PROVE  /\ task'[q].op = "close" =>
                    /\ task'[q].of \in Trade /\ task'[q].of.id < nextId + 1
                    /\ MinedAt(task[q].of)' < block
                    /\ Owning(q)' => Before(closings'[TokenOf[q]], MinedAt(task[q].of)')
               /\ task'[q].op = "open" => Before(closings'[TokenOf[q]], block)
    <3>1. Requesting(q) /\ task'[q] = task[q] /\ (Owning(q)' <=> Owning(q)) /\ q # p
      BY <2>2, SimulateRequests
    <3>2. task[q].op = "close" => /\ task[q].of \in Trade /\ task[q].of.id < nextId
                                  /\ task[q].of.id < nextId + 1
                                  /\ MinedAt(task[q].of)' = MinedAt(task[q].of)
      <4>1. task[q].op = "close" => task[q].of \in Trade /\ task[q].of.id < nextId
        BY <3>1 DEF HistoryInv, RequestsKept
      <4>2. QED
        BY <2>1, <3>1, <4>1, SimulateTimes DEF Trade, MinedAt
    <3>3. TokenOf[q] = t => ~ Owning(q) /\ task[q].op = "close"
      BY <3>1, SimulateRequests
    <3>4. TokenOf[q] \in Tokens /\ (TokenOf[q] # t => closings'[TokenOf[q]] = closings[TokenOf[q]])
      BY <1>1, Pieces DEF CtlInv, BookInv
    <3>5. QED
      BY <3>1, <3>2, <3>3, <3>4 DEF HistoryInv, RequestsKept
  <2>3. QED
    BY <2>2, SimulateTimes DEF RequestsKept, MinedAt, Before
<1>7. QED
  BY <1>4, <1>5, <1>6, SimulateTimes, SimulateRequests DEF HistoryInv

(* Every step of the controller keeps the history of its run. *)
LEMMA ControllerHistory == ASSUME CtlInv, HistoryInv, ControllerStep(Controller) PROVE HistoryInv'
<1>1. Controller /\ CtlInv'
  BY ControllerCtl DEF ControllerStep
<1>2. ASSUME NEW pairs \in Messages, BeginBlock(pairs) PROVE HistoryInv'
  BY <1>2, BeginBlockHistory
<1>3. ASSUME NEW p \in Pairs, RequestOpen(p) \/ RequestClose(p) PROVE HistoryInv'
  BY <1>1, <1>3, SpawnHistory
<1>4. ASSUME NEW p \in Pairs, SimulateOk(p) PROVE HistoryInv'
  BY <1>4, OpenHistory, CloseHistory, Pieces DEF Task, Op, CtlInv, BookInv
<1>5. ASSUME NEW p \in Pairs, TaskStep(p), ~ SimulateOk(p) PROVE HistoryInv'
  <2>1. ControllerStep(TaskStep(p))
    BY <1>5 DEF ControllerStep
  <2>2. QED
    BY <1>5, <2>1, QuietTask, QuietHistory
<1>6. CASE (\E p \in Pairs : Skip(p)) \/ EndDispatch \/ JoinAll \/ IndexerDone \/ PollDone
  BY <1>6, QuietOthers, QuietHistory
<1>7. QED
  BY <1>1, <1>2, <1>3, <1>4, <1>5, <1>6 DEF Controller
-----------------------------------------------------------------------------
(* The transaction and the tables *)

(* A closing trade is filed once, on one token. *)
LEMMA ClosingsApart ==
  ASSUME HistoryInv, NEW t \in Tokens, NEW u \in Tokens, NEW i \in DOMAIN closings[t], NEW j \in DOMAIN closings[u],
         closings[t][i].close = closings[u][j].close
  PROVE  t = u /\ i = j
<1>1. ClosingOf(t, closings[t][i]) /\ ClosingOf(u, closings[u][j]) /\ InOrder(closings[t])
      /\ closings[t] \in Seq(Closing)
  BY DEF HistoryInv, ClosingsKept
<1>2. t = u /\ closings[t][i].closeTs = closings[u][j].closeTs
  BY <1>1 DEF ClosingOf
<1>3. /\ closings[t][i].openTs < closings[t][i].closeTs /\ closings[t][j].openTs < closings[t][j].closeTs
      /\ closings[t][i] \in Closing /\ closings[t][j] \in Closing
  BY <1>1, <1>2 DEF ClosingOf
<1>4. /\ closings[t][i].openTs \in Nat /\ closings[t][i].closeTs \in Nat
      /\ closings[t][j].openTs \in Nat /\ closings[t][j].closeTs \in Nat
  BY <1>3 DEF Closing
<1>5. i \in Nat /\ j \in Nat
  BY <1>1, <1>2
<1>6. ~ (i < j) /\ ~ (j < i)
  BY <1>1, <1>2, <1>3, <1>4 DEF InOrder
<1>7. QED
  BY <1>2, <1>5, <1>6

(* The closed trades of a token have their closing pairs on it. *)
LEMMA ClosingFacts ==
  ASSUME HistoryInv, NEW t \in Tokens, NEW i \in DOMAIN closings[t]
  PROVE  /\ closings[t][i] \in Closing /\ TokenOf[closings[t][i].close.pair] = t
         /\ closings[t][i].of = closings[t][i].open
         /\ closings[t][i].openTs < closings[t][i].closeTs /\ closings[t][i].closeTs <= block
BY DEF HistoryInv, ClosingsKept, ClosingOf

LEMMA RowFacts ==
  ASSUME NEW b \in Nat, NEW c \in Closing
  PROVE  /\ RowOf(b, c) \in Row /\ RowOf(b, c).backtest = b /\ RowOf(b, c).pair = c.close.pair
         /\ RowOf(b, c).closing = c /\ RowOf(b, c).ts = c.closeTs
BY DEF RowOf, Row, Closing, Trade

(* Once the book is final nothing is left for the controller to do. *)
LEMMA NoStepAfterDone == ASSUME CtlInv, handle = "done" PROVE ~ Controller
<1>1. phase = "idle" /\ \A p \in Pairs : task[p].pc = "idle"
  BY DEF CtlInv, FinalInv, BookInv, TaskPhase
<1>2. ASSUME NEW p \in Pairs PROVE ~ TaskStep(p)
  BY <1>1 DEF TaskStep, Execute, ClaimOpen, ClaimClose, RejectClaim, TraceOk, FailBeforeSend, AtPc
<1>3. QED
  BY <1>1, <1>2 DEF Controller, BeginBlock, RequestOpen, RequestClose, Skip, Visit, EndDispatch, JoinAll,
                    IndexerDone, PollDone

LEMMA ControllerTables ==
  ASSUME CtlInv, TxnKept, TablesKept, ControllerStep(Controller)
  PROVE  TxnKept' /\ TablesKept'
<1>1. UNCHANGED <<txn, backtests, rows, filed>> /\ handle # "done"
  BY NoStepAfterDone DEF ControllerStep, dbVars
<1>2. txn = NoTxn
  BY <1>1 DEF TxnKept
<1>3. TxnKept'
  BY <1>1, <1>2 DEF TxnKept
<1>4. TablesKept'
  BY <1>1 DEF TablesKept, RowsOf
<1>5. QED
  BY <1>3, <1>4

LEMMA BeginTables ==
  ASSUME HistoryInv, TxnKept, TablesKept, BeginReport
  PROVE  TxnKept' /\ TablesKept'
<1>1. /\ txn' = [backtest |-> Len(backtests) + 1, rows |-> <<>>, todo |-> closings]
      /\ handle' = "done" /\ UNCHANGED <<closings, backtests, rows, filed>>
  BY DEF BeginReport, vars
<1>2. closings \in [Tokens -> Seq(Closing)] /\ Len(backtests) \in Nat
  BY DEF HistoryInv, ClosingsKept, TablesKept
<1>3. txn' \in Txn
  BY <1>1, <1>2 DEF Txn
<1>4. \A t \in Tokens : Len(closings[t]) \in Nat /\ Inserted(t)' = 0
  BY <1>1, <1>2 DEF Inserted
<1>5. /\ RowsInOrder(txn'.rows) /\ RowsApart(txn'.rows) /\ DOMAIN txn'.rows = {}
      /\ txn'.todo = closings /\ txn'.backtest = Len(backtests) + 1
  BY <1>1 DEF RowsInOrder, RowsApart
<1>6. \A t \in Tokens : /\ Inserted(t)' \in 0..Len(closings[t])
                        /\ \A i \in DOMAIN closings[t] : closings[t][i] = closings[t][Inserted(t)' + i]
                        /\ 1..Inserted(t)' = {}
  BY <1>2, <1>4
<1>7. TxnKept'
  BY <1>1, <1>3, <1>5, <1>6 DEF TxnKept
<1>8. QED
  BY <1>1, <1>7 DEF TablesKept, RowsOf

(* Rows stay in turns when one is added that is later than its token's, *)
LEMMA RowsAppend ==
  ASSUME NEW rs \in Seq(Row), NEW r \in Row, RowsInOrder(rs), RowsApart(rs),
         \A j \in DOMAIN rs : rs[j].backtest = r.backtest =>
           /\ rs[j].closing.close # r.closing.close
           /\ TokenOf[rs[j].pair] = TokenOf[r.pair] => rs[j].closing.closeTs < r.closing.openTs
  PROVE  RowsInOrder(Append(rs, r)) /\ RowsApart(Append(rs, r))
<1> DEFINE n == Len(rs)
           ss == Append(rs, r)
<1>1. /\ n \in Nat /\ DOMAIN rs = 1..n /\ DOMAIN ss = (1..n) \cup {n + 1}
      /\ ss[n + 1] = r /\ \A j \in 1..n : ss[j] = rs[j] /\ j < n + 1 /\ ~ (n + 1 < j)
  BY AppendProperties
<1>2. ~ (n + 1 < n + 1)
  BY <1>1
<1> HIDE DEF n, ss
<1>3. RowsInOrder(ss)
  <2> SUFFICES ASSUME NEW i \in DOMAIN ss, NEW j \in DOMAIN ss, i < j, ss[i].backtest = ss[j].backtest,
                      TokenOf[ss[i].pair] = TokenOf[ss[j].pair]
               PROVE  ss[i].closing.closeTs < ss[j].closing.openTs
    BY DEF RowsInOrder
  <2>1. i \in 1..n
    BY <1>1, <1>2
  <2>2. CASE j = n + 1
    BY <1>1, <2>1, <2>2
  <2>3. CASE j # n + 1
    BY <1>1, <2>1, <2>3 DEF RowsInOrder
  <2>4. QED
    BY <2>2, <2>3
<1>4. RowsApart(ss)
  <2> SUFFICES ASSUME NEW i \in DOMAIN ss, NEW j \in DOMAIN ss, ss[i].backtest = ss[j].backtest,
                      ss[i].closing.close = ss[j].closing.close
               PROVE  i = j
    BY DEF RowsApart
  <2>1. CASE i = n + 1 \/ j = n + 1
    BY <1>1, <2>1
  <2>2. CASE i # n + 1 /\ j # n + 1
    BY <1>1, <2>2 DEF RowsApart
  <2>3. QED
    BY <2>1, <2>2
<1>5. QED
  BY <1>3, <1>4 DEF ss

(* and when those of another backtest follow. *)
LEMMA RowsConcat ==
  ASSUME NEW rs \in Seq(Row), NEW qs \in Seq(Row), RowsInOrder(rs), RowsApart(rs),
         RowsInOrder(qs), RowsApart(qs),
         \A i \in DOMAIN rs, j \in DOMAIN qs : rs[i].backtest # qs[j].backtest
  PROVE  /\ RowsInOrder(rs \o qs) /\ RowsApart(rs \o qs)
         /\ rs \o qs \in Seq(Row)
         /\ \A i \in DOMAIN rs : i \in DOMAIN (rs \o qs) /\ (rs \o qs)[i] = rs[i]
         /\ \A j \in DOMAIN qs : Len(rs) + j \in DOMAIN (rs \o qs) /\ (rs \o qs)[Len(rs) + j] = qs[j]
         /\ \A i \in DOMAIN (rs \o qs) : i \in DOMAIN rs \/ \E j \in DOMAIN qs : i = Len(rs) + j
<1> DEFINE n == Len(rs)
           ss == rs \o qs
           Old(i) == i \in DOMAIN rs /\ ss[i] = rs[i]
           New(i) == i - n \in DOMAIN qs /\ ss[i] = qs[i - n] /\ i = n + (i - n)
<1>1. /\ n \in Nat /\ DOMAIN rs = 1..n /\ Len(qs) \in Nat /\ DOMAIN qs = 1..Len(qs)
      /\ ss \in Seq(Row) /\ DOMAIN ss = 1..n + Len(qs)
      /\ \A i \in 1..n + Len(qs) : ss[i] = IF i <= n THEN rs[i] ELSE qs[i - n]
  BY ConcatProperties
<1>2. ASSUME NEW i \in DOMAIN ss PROVE i \in Int /\ (Old(i) \/ New(i)) /\ (Old(i) <=> i <= n)
  BY <1>1
<1>3. /\ \A i \in DOMAIN rs : i \in DOMAIN ss /\ ss[i] = rs[i]
      /\ \A j \in DOMAIN qs : n + j \in DOMAIN ss /\ ss[n + j] = qs[j]
      /\ \A i \in DOMAIN ss : i \in DOMAIN rs \/ \E j \in DOMAIN qs : i = n + j
  <2>1. \A i \in DOMAIN rs : i \in DOMAIN ss /\ ss[i] = rs[i]
    BY <1>1
  <2>2. \A j \in DOMAIN qs : n + j \in 1..n + Len(qs) /\ ~ (n + j <= n) /\ (n + j) - n = j
    BY <1>1
  <2>3. \A j \in DOMAIN qs : n + j \in DOMAIN ss /\ ss[n + j] = qs[j]
    BY <1>1, <2>2
  <2>4. QED
    BY <1>2, <2>1, <2>3
<1>4. ASSUME NEW i \in DOMAIN ss, NEW j \in DOMAIN ss, ss[i].backtest = ss[j].backtest
      PROVE  (Old(i) /\ Old(j)) \/ (New(i) /\ New(j))
  BY <1>2, <1>4
<1>5. RowsInOrder(ss)
  <2> SUFFICES ASSUME NEW i \in DOMAIN ss, NEW j \in DOMAIN ss, i < j, ss[i].backtest = ss[j].backtest,
                      TokenOf[ss[i].pair] = TokenOf[ss[j].pair]
               PROVE  ss[i].closing.closeTs < ss[j].closing.openTs
    BY DEF RowsInOrder
  <2>1. CASE Old(i) /\ Old(j)
    BY <2>1 DEF RowsInOrder
  <2>2. CASE New(i) /\ New(j)
    <3>1. i - n < j - n
      BY <1>1, <1>2
    <3>2. QED
      BY <2>2, <3>1 DEF RowsInOrder
  <2>3. QED
    BY <1>4, <2>1, <2>2
<1>6. RowsApart(ss)
  <2> SUFFICES ASSUME NEW i \in DOMAIN ss, NEW j \in DOMAIN ss, ss[i].backtest = ss[j].backtest,
                      ss[i].closing.close = ss[j].closing.close
               PROVE  i = j
    BY DEF RowsApart
  <2>1. CASE Old(i) /\ Old(j)
    BY <2>1 DEF RowsApart
  <2>2. CASE New(i) /\ New(j)
    <3>1. i - n = j - n
      BY <2>2 DEF RowsApart
    <3>2. QED
      BY <2>2, <3>1
  <2>3. QED
    BY <1>4, <2>1, <2>2
<1>7. QED
  BY <1>1, <1>3, <1>5, <1>6

LEMMA InsertTables ==
  ASSUME HistoryInv, TxnKept, TablesKept, NEW t \in Tokens, InsertRow(t)
  PROVE  TxnKept' /\ TablesKept'
<1> DEFINE s == txn.todo[t]
           b == txn.backtest
           n == Inserted(t)
           c == Head(s)
<1>1. /\ txn \in Txn /\ closings \in [Tokens -> Seq(Closing)] /\ s \in Seq(Closing) /\ s # <<>>
      /\ closings[t] \in Seq(Closing) /\ txn.todo \in [Tokens -> Seq(Closing)]
      /\ txn.rows \in Seq(Row) /\ b \in Nat
  BY DEF TxnKept, Txn, InsertRow, HistoryInv, ClosingsKept
<1>2. txn # NoTxn
  BY <1>1 DEF InsertRow, NoTxn, NoTokens
<1>3. /\ UNCHANGED <<handle, block, closings, backtests, rows, filed>>
      /\ txn' = [backtest |-> b, rows |-> Append(txn.rows, RowOf(b, c)),
                 todo |-> [txn.todo EXCEPT ![t] = Tail(s)]]
  <2>1. txn' = [txn EXCEPT !.rows = Append(txn.rows, RowOf(b, c)), !.todo[t] = Tail(s)]
    BY DEF InsertRow
  <2>2. QED
    BY <1>1, <2>1 DEF InsertRow, vars, exec, Txn
<1>a. s = txn.todo[t] /\ b = txn.backtest /\ n = Inserted(t) /\ c = Head(s)
  OBVIOUS
<1> HIDE DEF s, b, n, c
<1>4. /\ Len(s) \in Nat /\ Len(s) >= 1 /\ c = s[1] /\ c \in Closing /\ Tail(s) \in Seq(Closing)
      /\ Len(Tail(s)) = Len(s) - 1 /\ \A i \in 1..Len(s) - 1 : Tail(s)[i] = s[i + 1]
      /\ DOMAIN Tail(s) = 1..Len(s) - 1
  BY <1>1, <1>a
<1>5. /\ handle = "done" /\ b = Len(backtests) + 1
      /\ \A u \in Tokens : /\ Inserted(u) \in 0..Len(closings[u])
                           /\ \A i \in DOMAIN txn.todo[u] : txn.todo[u][i] = closings[u][Inserted(u) + i]
  BY <1>2, <1>a DEF TxnKept
<1>b. /\ \A u \in Tokens : \A i \in 1..Inserted(u) : \E j \in DOMAIN txn.rows :
           txn.rows[j] = RowOf(b, closings[u][i])
      /\ \A j \in DOMAIN txn.rows : \E u \in Tokens : \E i \in 1..Inserted(u) :
           txn.rows[j] = RowOf(b, closings[u][i])
      /\ RowsInOrder(txn.rows) /\ RowsApart(txn.rows)
  BY <1>2, <1>a DEF TxnKept
<1>6. /\ n \in Nat /\ n + 1 \in 1..Len(closings[t]) /\ n + 1 = Len(closings[t]) - (Len(s) - 1)
      /\ c = closings[t][n + 1] /\ Len(closings[t]) \in Nat
  <2>1. Len(closings[t]) \in Nat /\ n = Len(closings[t]) - Len(s) /\ n \in 0..Len(closings[t])
    BY <1>1, <1>5, <1>a DEF Inserted
  <2>2. n + 1 \in 1..Len(closings[t]) /\ n + 1 = Len(closings[t]) - (Len(s) - 1) /\ 1 \in 1..Len(s)
    BY <1>4, <2>1
  <2>3. s[1] = closings[t][n + 1]
    <3>1. 1 \in DOMAIN s
      BY <1>1, <1>a, <2>2
    <3>2. QED
      BY <1>5, <1>a, <3>1
  <2>4. QED
    BY <1>4, <2>1, <2>2, <2>3
<1>7. /\ txn'.todo[t] = Tail(s) /\ \A u \in Tokens \ {t} : txn'.todo[u] = txn.todo[u]
      /\ txn'.todo \in [Tokens -> Seq(Closing)]
      /\ txn'.rows = Append(txn.rows, RowOf(b, c)) /\ txn'.backtest = b
  BY <1>1, <1>3, <1>4
<1>8. /\ Inserted(t)' = n + 1 /\ \A u \in Tokens \ {t} : Inserted(u)' = Inserted(u)
  BY <1>3, <1>4, <1>6, <1>7, <1>a DEF Inserted
<1>9. RowOf(b, c) \in Row /\ RowOf(b, c).backtest = b /\ RowOf(b, c).pair = c.close.pair /\ RowOf(b, c).closing = c
  BY <1>1, <1>4, RowFacts
<1>10. txn' \in Txn
  <2>1. Append(txn.rows, RowOf(b, c)) \in Seq(Row)
    BY <1>1, <1>9, AppendProperties
  <2>2. QED
    BY <1>1, <1>3, <1>7, <2>1 DEF Txn
<1>11. RowsInOrder(txn'.rows) /\ RowsApart(txn'.rows)
  <2>1. n + 1 \in DOMAIN closings[t] /\ TokenOf[c.close.pair] = t
    BY <1>1, <1>6, ClosingFacts
  <2>2. ASSUME NEW j \in DOMAIN txn.rows
        PROVE  /\ txn.rows[j].closing.close # c.close
               /\ TokenOf[txn.rows[j].pair] = t => txn.rows[j].closing.closeTs < c.openTs
    <3>1. PICK u \in Tokens : \E i \in 1..Inserted(u) : txn.rows[j] = RowOf(b, closings[u][i])
      BY <1>b
    <3>1a. PICK i \in 1..Inserted(u) : txn.rows[j] = RowOf(b, closings[u][i])
      BY <3>1
    <3>2. i \in DOMAIN closings[u] /\ closings[u] \in Seq(Closing) /\ i <= Inserted(u)
      <4>1. Inserted(u) \in 0..Len(closings[u]) /\ closings[u] \in Seq(Closing)
        BY <1>1, <1>5
      <4>2. QED
        BY <4>1
    <3>3. /\ closings[u][i] \in Closing /\ TokenOf[closings[u][i].close.pair] = u
          /\ txn.rows[j].closing = closings[u][i] /\ txn.rows[j].pair = closings[u][i].close.pair
      BY <1>1, <3>1a, <3>2, ClosingFacts, RowFacts
    <3>4. u = t => i < n + 1
      BY <1>6, <1>a, <3>2
    <3>5. txn.rows[j].closing.close # c.close
      <4>1. ASSUME closings[u][i].close = closings[t][n + 1].close PROVE FALSE
        <5>1. u = t /\ i = n + 1
          BY <2>1, <3>2, <4>1, ClosingsApart
        <5>2. QED
          BY <1>6, <3>4, <5>1
      <4>2. QED
        BY <1>6, <3>3, <4>1
    <3>6. u = t => closings[u][i].closeTs < c.openTs
      BY <1>6, <2>1, <3>2, <3>4 DEF HistoryInv, ClosingsKept, InOrder
    <3>7. QED
      BY <3>3, <3>5, <3>6
  <2>3. \A j \in DOMAIN txn.rows : txn.rows[j].backtest = RowOf(b, c).backtest =>
          /\ txn.rows[j].closing.close # RowOf(b, c).closing.close
          /\ TokenOf[txn.rows[j].pair] = TokenOf[RowOf(b, c).pair] =>
               txn.rows[j].closing.closeTs < RowOf(b, c).closing.openTs
    BY <1>9, <2>1, <2>2
  <2>4. QED
    BY <1>1, <1>7, <1>9, <1>b, <2>3, RowsAppend
<1>12. \A u \in Tokens :
         /\ Inserted(u)' \in 0..Len(closings[u])
         /\ \A i \in DOMAIN txn'.todo[u] : txn'.todo[u][i] = closings[u][Inserted(u)' + i]
  <2>1. ASSUME NEW i \in DOMAIN Tail(s) PROVE Tail(s)[i] = closings[t][(n + 1) + i]
    <3>1. i \in 1..Len(s) - 1 /\ i + 1 \in 1..Len(s)
      BY <1>4, <2>1
    <3>2. n + (i + 1) = (n + 1) + i /\ DOMAIN s = 1..Len(s)
      BY <1>1, <1>6, <3>1
    <3>3. s[i + 1] = closings[t][n + (i + 1)]
      BY <1>5, <1>a, <3>1, <3>2
    <3>4. QED
      BY <1>4, <3>1, <3>2, <3>3
  <2>2. n + 1 \in 0..Len(closings[t])
    BY <1>6
  <2>3. ASSUME NEW u \in Tokens \ {t}
        PROVE  /\ Inserted(u)' \in 0..Len(closings[u])
               /\ \A i \in DOMAIN txn'.todo[u] : txn'.todo[u][i] = closings[u][Inserted(u)' + i]
    BY <1>5, <1>7, <1>8
  <2>4. /\ Inserted(t)' \in 0..Len(closings[t])
        /\ \A i \in DOMAIN txn'.todo[t] : txn'.todo[t][i] = closings[t][Inserted(t)' + i]
    BY <1>7, <1>8, <2>1, <2>2
  <2>5. QED
    BY <2>3, <2>4
<1>13. /\ \A i \in DOMAIN txn.rows : i \in DOMAIN txn'.rows /\ txn'.rows[i] = txn.rows[i]
       /\ Len(txn.rows) + 1 \in DOMAIN txn'.rows /\ txn'.rows[Len(txn.rows) + 1] = RowOf(b, c)
       /\ \A i \in DOMAIN txn'.rows : i \in DOMAIN txn.rows \/ i = Len(txn.rows) + 1
  BY <1>1, <1>7, <1>9, AppendProperties
<1>14. ASSUME NEW u \in Tokens, NEW i \in 1..Inserted(u)'
       PROVE  \E j \in DOMAIN txn'.rows : txn'.rows[j] = RowOf(b, closings[u][i])
  <2>1. CASE u = t /\ i = n + 1
    BY <1>6, <1>13, <2>1
  <2>2. CASE ~ (u = t /\ i = n + 1)
    <3>1. i \in 1..Inserted(u)
      BY <1>6, <1>8, <1>a, <2>2
    <3>2. QED
      BY <1>b, <1>13, <3>1
  <2>3. QED
    BY <2>1, <2>2
<1>15. ASSUME NEW j \in DOMAIN txn'.rows
       PROVE  \E u \in Tokens : \E i \in 1..Inserted(u)' : txn'.rows[j] = RowOf(b, closings[u][i])
  <2>1. CASE j = Len(txn.rows) + 1
    <3>1. n + 1 \in 1..Inserted(t)'
      BY <1>6, <1>8
    <3>2. QED
      BY <1>6, <1>13, <2>1, <3>1
  <2>2. CASE j # Len(txn.rows) + 1
    <3>1. j \in DOMAIN txn.rows /\ txn'.rows[j] = txn.rows[j]
      BY <1>13, <2>2
    <3>2. PICK u \in Tokens : \E i \in 1..Inserted(u) : txn.rows[j] = RowOf(b, closings[u][i])
      BY <1>b, <3>1
    <3>2a. PICK i \in 1..Inserted(u) : txn.rows[j] = RowOf(b, closings[u][i])
      BY <3>2
    <3>3. i \in 1..Inserted(u)'
      <4>1. Inserted(u) \in Int
        BY <1>5
      <4>2. QED
        BY <1>6, <1>8, <1>a, <4>1
    <3>4. QED
      BY <3>1, <3>2a, <3>3
  <2>3. QED
    BY <2>1, <2>2
<1>16. TxnKept'
  <2>1. \A u \in Tokens : \A i \in 1..Inserted(u)' : \E j \in DOMAIN txn'.rows :
          txn'.rows[j] = RowOf(b, closings[u][i])
    BY <1>14
  <2>2. \A j \in DOMAIN txn'.rows : \E u \in Tokens : \E i \in 1..Inserted(u)' :
          txn'.rows[j] = RowOf(b, closings[u][i])
    BY <1>15
  <2>3. handle' = "done" /\ txn'.backtest = Len(backtests') + 1 /\ txn'.backtest = b /\ closings' = closings
    BY <1>3, <1>5, <1>7
  <2>4. QED
    BY <1>10, <1>11, <1>12, <2>1, <2>2, <2>3 DEF TxnKept
<1>17. QED
  BY <1>3, <1>16 DEF TablesKept, RowsOf

(* What the transaction holds when nothing is left to insert: a row for     *)
(* every closed trade.                                                      *)
LEMMA TxnComplete ==
  ASSUME CtlInv, HistoryInv, TxnKept, block <= MaxTotal, txn # NoTxn, txn.todo = NoTokens
  PROVE  /\ txn.rows \in Seq(Row) /\ RowsInOrder(txn.rows) /\ RowsApart(txn.rows)
         /\ \A j \in DOMAIN txn.rows : txn.rows[j].backtest = Len(backtests) + 1 /\ IsRow(txn.rows[j])
         /\ closed = {Filed(txn.rows[j].closing) : j \in DOMAIN txn.rows}
<1> DEFINE b == txn.backtest
<1>1. /\ txn.rows \in Seq(Row) /\ RowsInOrder(txn.rows) /\ RowsApart(txn.rows)
      /\ b \in Nat /\ b = Len(backtests) + 1
  BY DEF TxnKept, Txn
<1>2. /\ \A t \in Tokens : Len(closings[t]) \in Nat /\ Inserted(t) = Len(closings[t])
                           /\ DOMAIN closings[t] = 1..Len(closings[t])
  BY DEF NoTokens, Inserted, HistoryInv, ClosingsKept
<1>3. /\ \A t \in Tokens : \A i \in DOMAIN closings[t] : \E j \in DOMAIN txn.rows :
           txn.rows[j] = RowOf(b, closings[t][i])
      /\ \A j \in DOMAIN txn.rows : \E t \in Tokens : \E i \in DOMAIN closings[t] :
           txn.rows[j] = RowOf(b, closings[t][i])
  <2>1. \A t \in Tokens : 1..Inserted(t) = DOMAIN closings[t]
    BY <1>2
  <2>2. /\ \A t \in Tokens : \A i \in 1..Inserted(t) : \E j \in DOMAIN txn.rows :
             txn.rows[j] = RowOf(b, closings[t][i])
        /\ \A j \in DOMAIN txn.rows : \E t \in Tokens : \E i \in 1..Inserted(t) :
             txn.rows[j] = RowOf(b, closings[t][i])
    BY DEF TxnKept
  <2>3. ASSUME NEW t \in Tokens, NEW i \in DOMAIN closings[t]
        PROVE  \E j \in DOMAIN txn.rows : txn.rows[j] = RowOf(b, closings[t][i])
    <3>1. i \in 1..Inserted(t)
      BY <2>1
    <3>2. QED
      BY <2>2, <3>1
  <2>4. ASSUME NEW j \in DOMAIN txn.rows
        PROVE  \E t \in Tokens : \E i \in DOMAIN closings[t] : txn.rows[j] = RowOf(b, closings[t][i])
    <3>1. PICK t \in Tokens : \E i \in 1..Inserted(t) : txn.rows[j] = RowOf(b, closings[t][i])
      BY <2>2
    <3>2. 1..Inserted(t) = DOMAIN closings[t]
      BY <2>1
    <3>3. QED
      BY <3>1, <3>2
  <2>5. QED
    BY <2>3, <2>4
<1>4. ASSUME NEW j \in DOMAIN txn.rows
      PROVE  txn.rows[j].backtest = b /\ IsRow(txn.rows[j]) /\ Filed(txn.rows[j].closing) \in closed
  <2>1. PICK t \in Tokens : \E i \in DOMAIN closings[t] : txn.rows[j] = RowOf(b, closings[t][i])
    BY <1>3
  <2>2. PICK i \in DOMAIN closings[t] : txn.rows[j] = RowOf(b, closings[t][i])
    BY <2>1
  <2>3. /\ closings[t][i] \in Closing /\ closings[t][i].of = closings[t][i].open
        /\ closings[t][i].openTs < closings[t][i].closeTs /\ closings[t][i].closeTs <= block
    BY ClosingFacts
  <2>4. txn.rows[j].backtest = b /\ txn.rows[j].closing = closings[t][i]
    BY <1>1, <2>2, <2>3, RowFacts
  <2>5. closings[t][i].closeTs <= MaxTotal
    <3>1. closings[t][i].closeTs \in Nat /\ block \in Nat /\ MaxTotal \in Nat
      BY <2>3, ReportBounds DEF Closing, CtlInv, BookInv, TypeOK
    <3>2. QED
      BY <2>3, <3>1
  <2>6. QED
    BY <2>2, <2>3, <2>4, <2>5 DEF IsRow, HistoryInv, ClosingsFiled
<1>5. ASSUME NEW c \in closed PROVE \E j \in DOMAIN txn.rows : c = Filed(txn.rows[j].closing)
  <2>1. c.token \in Tokens
    BY DEF CtlInv, BookInv, TypeOK, ClosedTrade
  <2>2. PICK i \in DOMAIN closings[c.token] : Filed(closings[c.token][i]) = c
    BY DEF HistoryInv, ClosingsFiled
  <2>3. PICK j \in DOMAIN txn.rows : txn.rows[j] = RowOf(b, closings[c.token][i])
    BY <1>3, <2>1
  <2>4. txn.rows[j].closing = closings[c.token][i]
    BY <1>1, <2>1, <2>3, ClosingFacts, RowFacts
  <2>5. QED
    BY <2>2, <2>4
<1>6. QED
  BY <1>1, <1>4, <1>5

LEMMA CommitTables ==
  ASSUME CtlInv, HistoryInv, TxnKept, TablesKept, block <= MaxTotal, CommitReport
  PROVE  TxnKept' /\ TablesKept'
<1> DEFINE b == Len(backtests) + 1
           rs == rows
           qs == txn.rows
<1>1. /\ txn # NoTxn /\ txn.todo = NoTokens /\ txn' = NoTxn
      /\ backtests' = Append(backtests, [end |-> block]) /\ rows' = rs \o qs
      /\ filed' = Append(filed, closed)
  BY DEF CommitReport
<1>2. /\ qs \in Seq(Row) /\ RowsInOrder(qs) /\ RowsApart(qs)
      /\ \A j \in DOMAIN qs : qs[j].backtest = b /\ IsRow(qs[j])
      /\ closed = {Filed(qs[j].closing) : j \in DOMAIN qs}
  BY <1>1, TxnComplete
<1>3. /\ backtests \in Seq([end : Nat]) /\ rs \in Seq(Row) /\ filed \in Seq(SUBSET ClosedTrade)
      /\ Len(filed) = Len(backtests) /\ Len(backtests) \in Nat
      /\ \A i \in DOMAIN rs : rs[i].backtest \in DOMAIN backtests /\ IsRow(rs[i])
      /\ RowsInOrder(rs) /\ RowsApart(rs)
      /\ \A a \in DOMAIN backtests : filed[a] = {Filed(rs[i].closing) : i \in RowsOf(a)}
  BY DEF TablesKept
<1>4. /\ DOMAIN backtests = 1..b - 1 /\ b \notin DOMAIN backtests /\ DOMAIN filed = DOMAIN backtests
      /\ b \in Nat /\ b - 1 = Len(backtests)
  BY <1>3
<1>5. /\ RowsInOrder(rows') /\ RowsApart(rows') /\ rows' \in Seq(Row)
      /\ \A i \in DOMAIN rs : i \in DOMAIN rows' /\ rows'[i] = rs[i]
      /\ \A j \in DOMAIN qs : Len(rs) + j \in DOMAIN rows' /\ rows'[Len(rs) + j] = qs[j]
      /\ \A i \in DOMAIN rows' : i \in DOMAIN rs \/ \E j \in DOMAIN qs : i = Len(rs) + j
  <2>1. \A i \in DOMAIN rs, j \in DOMAIN qs : rs[i].backtest # qs[j].backtest
    BY <1>2, <1>3, <1>4
  <2>2. QED
    BY <1>1, <1>2, <1>3, <2>1, RowsConcat
<1>6. /\ backtests' \in Seq([end : Nat]) /\ filed' \in Seq(SUBSET ClosedTrade)
      /\ Len(filed') = Len(backtests') /\ DOMAIN backtests' = (DOMAIN backtests) \cup {b}
      /\ filed'[b] = closed /\ \A a \in DOMAIN backtests : filed'[a] = filed[a]
  <2>1. [end |-> block] \in [end : Nat] /\ closed \in SUBSET ClosedTrade
    BY DEF CtlInv, BookInv, TypeOK
  <2>2. /\ backtests' \in Seq([end : Nat]) /\ Len(backtests') = b /\ DOMAIN backtests' = 1..b
    BY <1>1, <1>3, <2>1
  <2>3. /\ filed' \in Seq(SUBSET ClosedTrade) /\ Len(filed') = b
        /\ filed'[b] = closed /\ \A a \in 1..b - 1 : filed'[a] = filed[a]
    BY <1>1, <1>3, <2>1, AppendProperties
  <2>4. 1..b = (1..b - 1) \cup {b}
    BY <1>3
  <2>5. QED
    BY <1>4, <2>2, <2>3, <2>4
<1> HIDE DEF b, rs, qs
<1>7. \A i \in DOMAIN rows' : rows'[i].backtest \in DOMAIN backtests' /\ IsRow(rows'[i])
  <2> SUFFICES ASSUME NEW i \in DOMAIN rows' PROVE rows'[i].backtest \in DOMAIN backtests' /\ IsRow(rows'[i])
    OBVIOUS
  <2>1. CASE i \in DOMAIN rs
    BY <1>3, <1>5, <1>6, <2>1
  <2>2. CASE \E j \in DOMAIN qs : i = Len(rs) + j
    BY <1>2, <1>5, <1>6, <2>2
  <2>3. QED
    BY <1>5, <2>1, <2>2
<1>8. ASSUME NEW a \in DOMAIN backtests'
      PROVE  filed'[a] = {Filed(rows'[i].closing) : i \in {k \in DOMAIN rows' : rows'[k].backtest = a}}
  <2>1. CASE a = b
    <3>1. \A i \in DOMAIN rows' : rows'[i].backtest = b <=> \E j \in DOMAIN qs : i = Len(rs) + j
      BY <1>2, <1>3, <1>4, <1>5
    <3>2. {Filed(rows'[i].closing) : i \in {k \in DOMAIN rows' : rows'[k].backtest = b}}
            = {Filed(qs[j].closing) : j \in DOMAIN qs}
      <4>1. ASSUME NEW i \in DOMAIN rows', rows'[i].backtest = b
            PROVE  \E j \in DOMAIN qs : Filed(rows'[i].closing) = Filed(qs[j].closing)
        <5>1. PICK j \in DOMAIN qs : i = Len(rs) + j
          BY <3>1, <4>1
        <5>2. QED
          BY <1>5, <5>1
      <4>2. ASSUME NEW j \in DOMAIN qs
            PROVE  \E i \in DOMAIN rows' : rows'[i].backtest = b /\ Filed(rows'[i].closing) = Filed(qs[j].closing)
        BY <1>2, <1>5
      <4>3. QED
        BY <4>1, <4>2
    <3>3. QED
      BY <1>2, <1>6, <2>1, <3>2
  <2>2. CASE a # b
    <3>1. a \in DOMAIN backtests
      BY <1>6, <2>2
    <3>2. \A i \in DOMAIN rows' : rows'[i].backtest = a <=> i \in DOMAIN rs /\ rs[i].backtest = a
      BY <1>2, <1>5, <2>2
    <3>3. filed[a] = {Filed(rs[i].closing) : i \in {k \in DOMAIN rs : rs[k].backtest = a}}
      BY <1>3, <3>1 DEF RowsOf, rs
    <3>4. QED
      BY <1>5, <1>6, <3>1, <3>2, <3>3
  <2>3. QED
    BY <2>1, <2>2
<1>9. TxnKept'
  <2>1. NoTxn \in Txn
    BY DEF NoTxn, NoTokens, Txn
  <2>2. QED
    BY <1>1, <2>1 DEF TxnKept
<1>10. TablesKept'
  BY <1>5, <1>6, <1>7, <1>8 DEF TablesKept, RowsOf, IsRow
<1>11. QED
  BY <1>9, <1>10

LEMMA RerunInv ==
  ASSUME TxnKept, TablesKept, Rerun
  PROVE  CtlInv' /\ HistoryInv' /\ TxnKept' /\ TablesKept'
<1>1. Init'
  BY DEF Rerun, Init
<1>2. CtlInv'
  BY <1>1, InitCtl, PTL
<1>3. HistoryInv'
  BY <1>1 DEF Rerun, Init, HistoryInv, TimesKept, OneDecision, ClosingsKept, RequestsKept, ClosingsFiled,
              Requesting, IdleTask, NoTokens, Missing, InOrder
<1>4. TxnKept'
  BY DEF Rerun, TxnKept, NoTxn, NoTokens, Txn
<1>5. TablesKept'
  <2>1. rows' = rows
    BY DEF Rerun, LeftBehind, TablesKept
  <2>2. QED
    BY <2>1 DEF Rerun, TablesKept, RowsOf
<1>6. QED
  BY <1>2, <1>3, <1>4, <1>5
-----------------------------------------------------------------------------
(* The inductive invariant *)

BoundsKept == run \in 1..MaxRuns /\ total \in Nat /\ total + block <= MaxTotal

LEMMA ReportInvParts == ReportInv <=> CtlInv /\ HistoryInv /\ TxnKept /\ TablesKept /\ BoundsKept
BY DEF ReportInv, CtlInv, HistoryInv, BoundsKept

LEMMA ReportInitInv == ReportInit => ReportInv
<1> SUFFICES ASSUME ReportInit PROVE ReportInv
  OBVIOUS
<1>1. CtlInv
  BY InitCtl DEF ReportInit
<1>2. HistoryInv
  BY DEF ReportInit, Init, HistoryInv, TimesKept, OneDecision, ClosingsKept, RequestsKept, ClosingsFiled,
         Requesting, IdleTask, NoTokens, Missing, InOrder
<1>3. TxnKept
  BY DEF ReportInit, TxnKept, NoTxn, NoTokens, Txn
<1>4. TablesKept
  BY DEF ReportInit, TablesKept, RowsInOrder, RowsApart
<1>5. BoundsKept
  BY ReportBounds DEF ReportInit, Init, BoundsKept
<1>6. QED
  BY <1>1, <1>2, <1>3, <1>4, <1>5, ReportInvParts

(* A step that leaves what the invariants of the book and its history read. *)
LEMMA QuietReport ==
  ASSUME CtlInv, HistoryInv, [Next]_vars, UNCHANGED <<exec, book, task, nextId, minedAt, closings>>
  PROVE  CtlInv' /\ HistoryInv'
<1>1. CtlInv'
  BY NextCtl
<1>2. HistoryInv'
  BY DEF exec, book, HistoryInv, TimesKept, OneDecision, ClosingsKept, RequestsKept, ClosingsFiled,
         ClosingOf, MinedAt, Requesting, Owning, InOrder, Before
<1>3. QED
  BY <1>1, <1>2

LEMMA BlocksBounded == ASSUME CtlInv, BoundsKept, ReportNext PROVE BoundsKept'
<1> USE DEF exec, book
<1>0. block \in Nat /\ total \in Nat
  BY DEF CtlInv, BookInv, TypeOK, BoundsKept
<1>1. CASE ControllerStep(Controller)
  <2>1. Controller /\ UNCHANGED <<run, total>>
    BY <1>1 DEF ControllerStep
  <2>2. CASE \E pairs \in Messages : BeginBlock(pairs) /\ total + block < MaxTotal
    BY <1>0, <2>1, <2>2, ReportBounds DEF BeginBlock, BoundsKept
  <2>3. ASSUME NEW p \in Pairs, RequestOpen(p) \/ RequestClose(p) \/ Skip(p) \/ TaskStep(p) PROVE block' = block
    BY <2>3 DEF RequestOpen, RequestClose, Skip, Spawn, TaskStep, Execute, ClaimOpen, ClaimClose, RejectClaim,
       TraceOk, FailBeforeSend, SimulateOk, SimulateErr, SendTx
  <2>4. CASE EndDispatch \/ JoinAll \/ IndexerDone \/ PollDone
    BY <2>1, <2>4 DEF EndDispatch, JoinAll, IndexerDone, PollDone, BoundsKept
  <2>5. QED
    BY <2>1, <2>2, <2>3, <2>4 DEF Controller, BoundsKept
<1>2. CASE BeginReport \/ (\E t \in Tokens : InsertRow(t)) \/ CommitReport
  BY <1>2 DEF BeginReport, InsertRow, CommitReport, SaveClosed, vars, BoundsKept
<1>3. CASE Rerun
  BY <1>0, <1>3, ReportBounds DEF Rerun, BoundsKept
<1>4. CASE Finished /\ UNCHANGED reportVars
  BY <1>4 DEF reportVars, vars, BoundsKept
<1>5. QED
  BY <1>1, <1>2, <1>3, <1>4 DEF ReportNext

LEMMA ReportNextInv == ReportInv /\ [ReportNext]_reportVars => ReportInv'
<1> SUFFICES ASSUME CtlInv, HistoryInv, TxnKept, TablesKept, BoundsKept, [ReportNext]_reportVars
             PROVE  CtlInv' /\ HistoryInv' /\ TxnKept' /\ TablesKept' /\ BoundsKept'
  BY ReportInvParts, PTL
<1>0. block <= MaxTotal
  BY ReportBounds DEF BoundsKept, CtlInv, BookInv, TypeOK
<1>1. CASE ControllerStep(Controller)
  <2>1. Controller
    BY <1>1 DEF ControllerStep
  <2>2. QED
    BY <1>1, <2>1, ControllerCtl, ControllerHistory, ControllerTables, BlocksBounded DEF ReportNext
<1>2. CASE BeginReport \/ (\E t \in Tokens : InsertRow(t))
  <2>1. UNCHANGED <<vars, minedAt, closings>>
    BY <1>2 DEF BeginReport, InsertRow
  <2>2. CtlInv' /\ HistoryInv'
    BY <2>1, QuietReport DEF vars
  <2>3. TxnKept' /\ TablesKept'
    BY <1>2, BeginTables, InsertTables
  <2>4. QED
    BY <1>2, <2>2, <2>3, BlocksBounded DEF ReportNext
<1>3. CASE CommitReport
  <2>1. SaveClosed /\ UNCHANGED <<exec, book, task, nextId, minedAt, closings>>
    BY <1>3 DEF CommitReport, SaveClosed
  <2>2. CtlInv' /\ HistoryInv'
    BY <2>1, QuietReport DEF Next, Main
  <2>3. QED
    BY <1>0, <1>3, <2>2, CommitTables, BlocksBounded DEF ReportNext
<1>4. CASE Rerun
  BY <1>4, RerunInv, BlocksBounded DEF ReportNext
<1>5. CASE UNCHANGED reportVars
  <2>1. UNCHANGED <<vars, minedAt, closings, txn, backtests, rows, run, total, filed>>
    BY <1>5 DEF reportVars, dbVars
  <2>2. CtlInv' /\ HistoryInv'
    BY <2>1, QuietReport DEF vars
  <2>3. TxnKept'
    BY <2>1 DEF vars, TxnKept, Inserted
  <2>4. TablesKept' /\ BoundsKept'
    BY <2>1 DEF vars, exec, TablesKept, RowsOf, BoundsKept
  <2>5. QED
    BY <2>2, <2>3, <2>4
<1>6. QED
  BY <1>1, <1>2, <1>3, <1>4, <1>5 DEF ReportNext

(* The inductive invariant of the book, its history, the transaction and    *)
(* the tables, over any number of runs and interruptions.                   *)
THEOREM ReportInvariant == ReportSpec => []ReportInv
BY ReportInitInv, ReportNextInv, PTL DEF ReportSpec
-----------------------------------------------------------------------------
(* What the properties say of it *)

(* A set has as many elements as one whose elements correspond to its own. *)
LEMMA SameSize ==
  ASSUME NEW A, IsFiniteSet(A), NEW B, NEW f \in [A -> B],
         \A x, y \in A : f[x] = f[y] => x = y,
         \A z \in B : \E x \in A : f[x] = z
  PROVE  IsFiniteSet(B) /\ Cardinality(B) = Cardinality(A)
<1>1. f \in Bijection(A, B)
  BY DEF Bijection, Injection, Surjection, IsInjective
<1>2. QED
  BY <1>1, FS_Bijection DEF ExistsBijection

LEMMA IndexSet ==
  ASSUME NEW n \in Nat
  PROVE  IsFiniteSet(1..n) /\ Cardinality(1..n) = n
<1>1. 1 \in Int /\ n \in Int /\ (IF 1 > n THEN 0 ELSE n - 1 + 1) = n
  OBVIOUS
<1>2. QED
  BY <1>1, FS_Interval

(* The ordered closed trades of a token are as many as the book's. *)
LEMMA ClosingsCounted ==
  ASSUME HistoryInv, NEW t \in Tokens
  PROVE  Len(closings[t]) = Cardinality({c \in closed : c.token = t})
<1> DEFINE n == Len(closings[t])
           B == {c \in closed : c.token = t}
           f == [i \in 1..n |-> Filed(closings[t][i])]
<1>1. n \in Nat /\ DOMAIN closings[t] = 1..n
  BY DEF HistoryInv, ClosingsKept
<1>2. \A i \in 1..n : Filed(closings[t][i]) \in closed /\ Filed(closings[t][i]).token = t
  BY <1>1, ClosingFacts DEF HistoryInv, ClosingsFiled, Filed
<1>3. \A i, j \in 1..n : Filed(closings[t][i]) = Filed(closings[t][j]) => i = j
  <2>1. \A c, d : Filed(c) = Filed(d) => c.close = d.close
    BY DEF Filed
  <2>2. QED
    BY <1>1, <2>1, ClosingsApart
<1>4. \A c \in B : \E i \in 1..n : Filed(closings[t][i]) = c
  BY <1>1 DEF HistoryInv, ClosingsFiled
<1>5. f \in [1..n -> B] /\ \A i \in 1..n : f[i] = Filed(closings[t][i])
  BY <1>2
<1> HIDE DEF f, B, n
<1>6. Cardinality(B) = Cardinality(1..n)
  <2>1. /\ \A i, j \in 1..n : f[i] = f[j] => i = j
        /\ \A c \in B : \E i \in 1..n : f[i] = c
    BY <1>3, <1>4, <1>5
  <2>2. IsFiniteSet(1..n)
    BY <1>1, IndexSet
  <2>3. QED
    BY <1>5, <2>1, <2>2, SameSize
<1>7. QED
  BY <1>1, <1>6, IndexSet DEF B, n

(* Every variable of the report keeps its type, and the ordered closed      *)
(* trades are those of the book.                                            *)
THEOREM ReportTypeCorrect == ReportSpec => []ReportTypeOK
<1>1. ReportInv => ReportTypeOK
  <2> SUFFICES ASSUME CtlInv, HistoryInv, TxnKept, TablesKept, BoundsKept PROVE ReportTypeOK
    BY ReportInvParts
  <2>1. \A t \in Tokens : Range(closings[t]) \subseteq Closing
    BY DEF HistoryInv, ClosingsKept, ClosingOf, Range
  <2>2. total \in 0..MaxTotal
    BY ReportBounds DEF BoundsKept, CtlInv, BookInv, TypeOK
  <2>3. QED
    BY <2>1, <2>2, ClosingsCounted DEF ReportTypeOK, HistoryInv, TimesKept, TablesKept, BoundsKept
<1>2. QED
  BY <1>1, ReportInvariant, PTL

(* What a query finds: rows of the backtest and the pair, in their order. *)
LEMMA FoundRows ==
  ASSUME TablesKept, NEW b, NEW p, NEW from, NEW to
  PROVE  LET found == ClosedTrades(b, p, from, to)
             I == {i \in RowsOf(b) : rows[i].pair = p /\ rows[i].ts >= from /\ rows[i].ts <= to} IN
         /\ found \in Seq(Row)
         /\ \E k \in [1..Len(found) -> I] :
              /\ \A x \in 1..Len(found) : found[x] = rows[k[x]]
              /\ \A x, y \in 1..Len(found) : x < y => k[x] < k[y]
              /\ \A i \in I : \E x \in 1..Len(found) : k[x] = i
<1> DEFINE found == ClosedTrades(b, p, from, to)
           I == {i \in RowsOf(b) : rows[i].pair = p /\ rows[i].ts >= from /\ rows[i].ts <= to}
<1>1. rows \in Seq(Row) /\ I \subseteq 1..Len(rows)
  BY DEF TablesKept, RowsOf
<1>2. found = Picked(rows, I)
  BY DEF ClosedTrades
<1> HIDE DEF found, I
<1>3. found \in Seq(Row) /\ IsPick(rows, I, Len(rows), found)
  BY <1>1, <1>2, PickedFacts
<1>4. PICK k \in [1..Len(found) -> 1..Len(rows)] :
        /\ \A x \in 1..Len(found) : k[x] \in I /\ found[x] = rows[k[x]]
        /\ \A x, y \in 1..Len(found) : x < y => k[x] < k[y]
        /\ \A i \in 1..Len(rows) : i \in I => \E x \in 1..Len(found) : k[x] = i
  BY <1>3 DEF IsPick
<1>5. k \in [1..Len(found) -> I]
  BY <1>4
<1>6. QED
  BY <1>1, <1>3, <1>4, <1>5 DEF found, I

LEMMA FoundCounted ==
  ASSUME TablesKept, NEW b, NEW p, NEW from, NEW to
  PROVE  Len(ClosedTrades(b, p, from, to))
           = Cardinality({i \in RowsOf(b) : rows[i].pair = p /\ rows[i].ts >= from /\ rows[i].ts <= to})
<1> DEFINE found == ClosedTrades(b, p, from, to)
           I == {i \in RowsOf(b) : rows[i].pair = p /\ rows[i].ts >= from /\ rows[i].ts <= to}
<1>1. found \in Seq(Row) /\ Len(found) \in Nat
  BY FoundRows
<1>2. PICK k \in [1..Len(found) -> I] :
        /\ \A x, y \in 1..Len(found) : x < y => k[x] < k[y]
        /\ \A i \in I : \E x \in 1..Len(found) : k[x] = i
  BY FoundRows
<1>3. \A x \in 1..Len(found) : k[x] \in Nat
  BY <1>2 DEF RowsOf, TablesKept
<1> HIDE DEF found, I
<1>4. \A x, y \in 1..Len(found) : k[x] = k[y] => x = y
  BY <1>1, <1>2, <1>3
<1>5. Cardinality(I) = Cardinality(1..Len(found))
  <2>1. IsFiniteSet(1..Len(found))
    BY <1>1, IndexSet
  <2>2. \A z \in I : \E x \in 1..Len(found) : k[x] = z
    BY <1>2
  <2>3. QED
    BY <1>4, <2>1, <2>2, SameSize
<1>6. QED
  BY <1>1, <1>5, IndexSet DEF found, I

(* The rows of a listed backtest correspond to what its run closed. *)
LEMMA RowsFiled ==
  ASSUME TablesKept, NEW b \in DOMAIN backtests
  PROVE  /\ Cardinality(RowsOf(b)) = Cardinality(filed[b])
         /\ {<<rows[i].closing.open, rows[i].closing.close>> : i \in RowsOf(b)}
              = {<<c.open, c.close>> : c \in filed[b]}
<1> DEFINE f == [i \in RowsOf(b) |-> Filed(rows[i].closing)]
<1>1. filed[b] = {Filed(rows[i].closing) : i \in RowsOf(b)} /\ RowsOf(b) \subseteq 1..Len(rows) /\ Len(rows) \in Nat
  BY DEF TablesKept, RowsOf
<1>2. IsFiniteSet(RowsOf(b))
  <2>1. IsFiniteSet(1..Len(rows))
    BY <1>1, IndexSet
  <2>2. QED
    BY <1>1, <2>1, FS_Subset
<1>3. \A i, j \in RowsOf(b) : Filed(rows[i].closing) = Filed(rows[j].closing) => i = j
  <2>1. \A c, d : Filed(c) = Filed(d) => c.close = d.close
    BY DEF Filed
  <2>2. QED
    BY <2>1 DEF TablesKept, RowsApart, RowsOf
<1>4. /\ f \in [RowsOf(b) -> filed[b]]
      /\ \A i, j \in RowsOf(b) : f[i] = f[j] => i = j
      /\ \A c \in filed[b] : \E i \in RowsOf(b) : f[i] = c
  BY <1>1, <1>3
<1>5. Cardinality(RowsOf(b)) = Cardinality(filed[b])
  <2> HIDE DEF f
  <2>1. QED
    BY <1>2, <1>4, SameSize
<1>6. \A c : Filed(c).open = c.open /\ Filed(c).close = c.close
  BY DEF Filed
<1>7. {<<rows[i].closing.open, rows[i].closing.close>> : i \in RowsOf(b)}
        = {<<c.open, c.close>> : c \in filed[b]}
  BY <1>1, <1>6
<1>8. QED
  BY <1>5, <1>7

(* The rows of a pair are all within the bound on the blocks of a run. *)
LEMMA WholeRange ==
  ASSUME TablesKept, NEW b, NEW p
  PROVE  {i \in RowsOf(b) : rows[i].pair = p /\ rows[i].ts >= 0 /\ rows[i].ts <= MaxTotal}
           = {i \in RowsOf(b) : rows[i].pair = p}
<1>1. ASSUME NEW i \in RowsOf(b) PROVE rows[i].ts >= 0 /\ rows[i].ts <= MaxTotal
  <2>1. i \in DOMAIN rows /\ rows \in Seq(Row) /\ IsRow(rows[i])
    BY DEF RowsOf, TablesKept
  <2>2. rows[i].ts \in Nat /\ rows[i].ts = rows[i].closing.closeTs /\ rows[i].closing.closeTs <= MaxTotal
    BY <2>1 DEF Row, IsRow, RowOf
  <2>3. QED
    BY <2>2
<1>2. QED
  BY <1>1

(* Whatever point a process ends at, a backtest is listed with all of what  *)
(* its run closed, each once and with nothing else, and the counts by pair  *)
(* are those of the pairs' pages.                                           *)
THEOREM ReportsAreWhole == ReportSpec => []ReportWhole
<1>1. ReportInv => ReportWhole
  <2> SUFFICES ASSUME TablesKept PROVE ReportWhole
    BY ReportInvParts
  <2>1. DOMAIN ListBacktests = DOMAIN backtests
    BY DEF ListBacktests
  <2>2. \A i \in DOMAIN rows : rows[i].backtest \in DOMAIN backtests
    BY DEF TablesKept
  <2>3. ASSUME NEW b \in DOMAIN backtests, NEW p \in PairsOf(b)
        PROVE  Len(Trades(b, p, 0, MaxTotal)) = 2 * BacktestPairs(b)[p]
    <3> DEFINE found == ClosedTrades(b, p, 0, MaxTotal)
    <3>1. Len(found) = Cardinality({i \in RowsOf(b) : rows[i].pair = p})
      BY FoundCounted, WholeRange
    <3>2. BacktestPairs(b)[p] = Cardinality({i \in RowsOf(b) : rows[i].pair = p})
      BY <2>3 DEF BacktestPairs
    <3>3. 2 * Len(found) \in Nat
      BY FoundRows
    <3>4. Len(Trades(b, p, 0, MaxTotal)) = 2 * Len(found)
      BY <3>3 DEF Trades
    <3>5. QED
      BY <3>1, <3>2, <3>4
  <2>4. QED
    BY <2>1, <2>2, <2>3, RowsFiled DEF ReportWhole
<1>2. QED
  BY <1>1, ReportInvariant, PTL

(* A pair's page shows a token bought and sold in turns, each trade later   *)
(* than the one before it.                                                  *)
THEOREM TradesComeInTurns == ReportSpec => []TradesInTurns
<1>1. ReportInv => TradesInTurns
  <2> SUFFICES ASSUME TablesKept, NEW b, NEW p, NEW from, NEW to,
                      NEW i \in 1..Len(Trades(b, p, from, to)) - 1
               PROVE  /\ Trades(b, p, from, to)[i].ts < Trades(b, p, from, to)[i + 1].ts
                      /\ i % 2 = 1 => Trades(b, p, from, to)[i + 1].closes = Trades(b, p, from, to)[i].hash
    BY ReportInvParts DEF TradesInTurns
  <2> DEFINE found == ClosedTrades(b, p, from, to)
             ticks == Trades(b, p, from, to)
             n == Len(found)
             c(x) == found[x].closing
  <2>1. n \in Nat /\ found \in Seq(Row)
    BY FoundRows
  <2>2. PICK k \in [1..n -> RowsOf(b)] :
          /\ \A x \in 1..n : found[x] = rows[k[x]] /\ rows[k[x]].pair = p
          /\ \A x, y \in 1..n : x < y => k[x] < k[y]
    <3> DEFINE I == {j \in RowsOf(b) : rows[j].pair = p /\ rows[j].ts >= from /\ rows[j].ts <= to}
    <3>1. PICK k \in [1..n -> I] : /\ \A x \in 1..n : found[x] = rows[k[x]]
                                   /\ \A x, y \in 1..n : x < y => k[x] < k[y]
      BY FoundRows
    <3>2. \A x \in 1..n : k[x] \in RowsOf(b) /\ rows[k[x]].pair = p
      BY <3>1
    <3>3. k \in [1..n -> RowsOf(b)]
      BY <3>1, <3>2
    <3>4. QED
      BY <3>1, <3>2, <3>3
  <2>3. /\ Len(ticks) = 2 * n
        /\ \A j \in 1..2 * n : ticks[j] = IF j % 2 = 1 THEN OpenTick(c((j + 1) \div 2))
                                                       ELSE CloseTick(c((j + 1) \div 2))
    BY <2>1 DEF Trades
  <2> HIDE DEF found, ticks
  <2>4. \A x \in 1..n : c(x).openTs < c(x).closeTs /\ c(x).of = c(x).open
    <3>1. \A x \in 1..n : k[x] \in DOMAIN rows /\ IsRow(rows[k[x]])
      BY <2>2 DEF RowsOf, TablesKept
    <3>2. QED
      BY <2>2, <3>1 DEF IsRow
  <2>5. ASSUME NEW x \in 1..n, NEW y \in 1..n, x < y PROVE c(x).closeTs < c(y).openTs
    <3>1. /\ k[x] \in DOMAIN rows /\ k[y] \in DOMAIN rows /\ k[x] < k[y]
          /\ rows[k[x]].backtest = rows[k[y]].backtest /\ rows[k[x]].pair = rows[k[y]].pair
      BY <2>2, <2>5 DEF RowsOf
    <3>2. QED
      BY <2>2, <3>1 DEF TablesKept, RowsInOrder
  <2>6. i \in 1..2 * n /\ i + 1 \in 1..2 * n
    <3>1. ticks = Trades(b, p, from, to) /\ i \in 1..Len(ticks) - 1
      BY DEF ticks
    <3>2. QED
      BY <2>1, <2>3, <3>1
  <2>7. CASE i % 2 = 1
    <3>1. (i + 1) % 2 = 0 /\ (i + 1) \div 2 = ((i + 1) + 1) \div 2 /\ (i + 1) \div 2 \in 1..n
      BY <2>1, <2>6, <2>7
    <3>2. ticks[i] = OpenTick(c((i + 1) \div 2)) /\ ticks[i + 1] = CloseTick(c((i + 1) \div 2))
      BY <2>3, <2>6, <2>7, <3>1
    <3>3. ticks[i].ts < ticks[i + 1].ts /\ ticks[i + 1].closes = ticks[i].hash
      BY <2>4, <3>1, <3>2 DEF OpenTick, CloseTick
    <3>4. QED
      BY <3>3 DEF ticks
  <2>8. CASE i % 2 # 1
    <3>1. /\ (i + 1) % 2 = 1 /\ ((i + 1) + 1) \div 2 = ((i + 1) \div 2) + 1
          /\ (i + 1) \div 2 \in 1..n /\ ((i + 1) + 1) \div 2 \in 1..n /\ (i + 1) \div 2 < ((i + 1) + 1) \div 2
      BY <2>1, <2>6, <2>8
    <3>2. ticks[i] = CloseTick(c((i + 1) \div 2)) /\ ticks[i + 1] = OpenTick(c(((i + 1) + 1) \div 2))
      BY <2>3, <2>6, <2>8, <3>1
    <3>3. ticks[i].ts < ticks[i + 1].ts
      BY <2>5, <3>1, <3>2 DEF OpenTick, CloseTick
    <3>4. QED
      BY <2>8, <3>3 DEF ticks
  <2>9. QED
    BY <2>7, <2>8
<1>2. QED
  BY <1>1, ReportInvariant, PTL

(* Across runs of the process too, the book keeps its types, files every    *)
(* close with the trade it was asked for and is quiet between blocks.       *)
THEOREM BookKeptAcrossRuns == ReportSpec => [](TypeOK /\ ClosedPairsMatch /\ BacktestQuiescent)
<1>1. ReportInv => TypeOK /\ ClosedPairsMatch /\ BacktestQuiescent
  BY DEF ReportInv, BookInv, InlineInv, BacktestQuiescent, OwnerExists, TaskPhase, Owning
<1>2. QED
  BY <1>1, ReportInvariant, PTL
=============================================================================
