--------------------------- MODULE PositionLedger ---------------------------
(***************************************************************************)
(* What the trade controller promises to its user, the strategy executor   *)
(* and the backtest report: every token is either flat or holds exactly    *)
(* one trade, a position is opened with a trade that was never used        *)
(* before, and closing a position takes it off the book and files it, once, *)
(* with the trade that closed it.  Requests, locks, confirmations and      *)
(* reverts are invisible at this level.                                    *)
(***************************************************************************)
CONSTANTS Tokens,   \* token addresses
          Trades,   \* everything that can identify an executed trade
          NoTrade   \* the book entry of a flat token, not one of Trades

VARIABLES
  held,    \* held[t]: the open position of token t, or NoTrade
  filed    \* the closed positions: records of an opening and a closing trade

ledgerVars == <<held, filed>>

(* The trades the ledger has ever recorded. *)
Known == {held[t] : t \in Tokens} \cup {c.open : c \in filed} \cup {c.close : c \in filed}

LedgerInit == /\ held = [t \in Tokens |-> NoTrade]
              /\ filed = {}

(* A flat token takes a position with a fresh trade. *)
OpenPosition(t) ==
  /\ held[t] = NoTrade
  /\ held'[t] \in Trades /\ held'[t] \notin Known
  /\ held' = [held EXCEPT ![t] = held'[t]]
  /\ UNCHANGED filed

(* The position of a token is closed by a fresh trade and filed with it. *)
ClosePosition(t) ==
  /\ held[t] # NoTrade
  /\ held' = [held EXCEPT ![t] = NoTrade]
  /\ \E c \in filed' :
       /\ c.token = t /\ c.open = held[t]
       /\ c.close \in Trades /\ c.close \notin Known
       /\ filed' = filed \cup {c}

LedgerNext == \E t \in Tokens : OpenPosition(t) \/ ClosePosition(t)

LedgerSpec == LedgerInit /\ [][LedgerNext]_ledgerVars
=============================================================================
