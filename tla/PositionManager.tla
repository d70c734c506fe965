--------------------------- MODULE PositionManager ---------------------------
(***************************************************************************)
(* The position-manager process: run_position_manager and _cycle           *)
(* (app/engines/position_manager/runner.py), PositionWatcher.run           *)
(* (app/services/positions/watcher.py) and dispatch_cycle                  *)
(* (app/services/positions/dispatch.py).                                   *)
(*                                                                         *)
(* One cycle is one database transaction.  It lists the open positions,    *)
(* processes each in a savepoint of its own (close it, or store its stop   *)
(* stage), refreshes the equity and commits; only then does it send the    *)
(* Telegram cards and write the research outcomes, from memory.  The       *)
(* process may crash between any two steps and starts again with a sleep.  *)
(* The worker opens positions meanwhile.                                   *)
(*                                                                         *)
(* Equity is balance plus unrealized pnl; the model keeps which balance    *)
(* and which positions it was computed from.                               *)
(***************************************************************************)
EXTENDS Integers, FiniteSets, FiniteSetsExt

CONSTANTS
  Ids,             \* the positions that may ever be opened
  InitialBalance,  \* accounts.initial_balance
  PnlValues,       \* realized_pnl values
  MaxFaults        \* bound: write failures, failed commits and crashes

ASSUME ManagerAssumption ==
  /\ InitialBalance \in Int
  /\ PnlValues \subseteq Int
  /\ MaxFaults \in Nat

Stages == {"INITIAL", "BREAKEVEN", "TRAILING"}

VARIABLES
  \* committed rows
  balance, peak, booked, open, closed,
  equity,    \* [cash : the balance, covers : the positions] it was computed from
  pnl,       \* virtual_positions.realized_pnl
  stage,     \* virtual_positions.stop_stage
  \* the process
  pc,        \* "asleep", "running" (the transaction), "dispatch"
  ses,       \* the session: the rows as the transaction sees and wrote them
  todo,      \* listed positions not processed yet
  marks,     \* open_marks: positions held with a current price
  trades,    \* cycle.closed_trades not dispatched yet
  moves,     \* cycle.stop_moves not dispatched yet
  carded,    \* the trade whose card was tried and whose outcome was not
  \* the world
  due,       \* open positions whose candles hold a stop or target exit
  cards,     \* number of close cards sent for a position
  outcomes,  \* number of trade_outcomes rows of a position
  faults     \* faults so far

dbVars == <<balance, peak, booked, open, closed, equity, pnl, stage>>
procVars == <<pc, ses, todo, marks, trades, moves, carded>>
worldVars == <<due, cards, outcomes, faults>>
vars == <<dbVars, procVars, worldVars>>

EquityType == [cash : Int, covers : SUBSET Ids]

SessionType ==
  [balance : Int, peak : Int, booked : Int, closing : SUBSET Ids,
   equity : EquityType, pnl : [Ids -> Int], stage : [Ids -> Stages]]

\* The rows as the first reads of the transaction return them.
Snapshot ==
  [balance |-> balance, peak |-> peak, booked |-> booked, closing |-> {},
   equity |-> equity, pnl |-> pnl, stage |-> stage]

Init ==
  /\ balance = InitialBalance
  /\ peak = InitialBalance
  /\ booked = 0
  /\ open = {}
  /\ closed = {}
  /\ equity = [cash |-> InitialBalance, covers |-> {}]
  /\ pnl = [i \in Ids |-> 0]
  /\ stage = [i \in Ids |-> "INITIAL"]
  /\ pc = "asleep"
  /\ ses = Snapshot
  /\ todo = {} /\ marks = {} /\ trades = {} /\ moves = {} /\ carded = {}
  /\ due = {}
  /\ cards = [i \in Ids |-> 0]
  /\ outcomes = [i \in Ids |-> 0]
  /\ faults = 0

----------------------------------------------------------------------------
(* The world. *)

\* The worker commits a new position (PortfolioManager._open_position).
WorkerOpens(i) ==
  /\ i \in Ids \ (open \cup closed)
  /\ open' = open \cup {i}
  /\ UNCHANGED <<balance, peak, booked, closed, equity, pnl, stage>>
  /\ UNCHANGED procVars
  /\ UNCHANGED worldVars

\* The market reaches a level of an open position; the candle stays in the
\* history that every later cycle replays.
MarketReaches(i) ==
  /\ i \in open \ due
  /\ due' = due \cup {i}
  /\ UNCHANGED dbVars
  /\ UNCHANGED procVars
  /\ UNCHANGED <<cards, outcomes, faults>>

----------------------------------------------------------------------------
(* The cycle. *)

\* Fault variant: a position whose stop has moved is not listed any more.
Wake_SkipsStaged ==
  /\ pc = "asleep"
  /\ pc' = "running"
  /\ ses' = Snapshot
  /\ todo' = {i \in open : stage[i] = "INITIAL"}
  /\ marks' = {}
  /\ UNCHANGED <<trades, moves, carded>>
  /\ UNCHANGED dbVars
  /\ UNCHANGED worldVars

\* The transaction starts: the account and the open positions are read.
Wake ==
  /\ pc = "asleep"
  /\ pc' = "running"
  /\ ses' = Snapshot
  /\ todo' = open
  /\ marks' = {}
  /\ UNCHANGED <<trades, moves, carded>>
  /\ UNCHANGED dbVars
  /\ UNCHANGED worldVars

\* A position is left without a mark: its candles or its funding could not be
\* fetched (the exception is logged), or the exchange returned no candles.
\* Nothing was written inside the savepoint.
Passes(i) ==
  /\ pc = "running" /\ i \in todo
  /\ todo' = todo \ {i}
  /\ UNCHANGED <<pc, ses, marks, trades, moves, carded>>
  /\ UNCHANGED dbVars
  /\ UNCHANGED worldVars

\* _update_stop_stage: the stage is stored when it changed, and announced
\* unless it is the initial one.
Holds(i, s) ==
  /\ pc = "running" /\ i \in todo \ due
  /\ todo' = todo \ {i}
  /\ ses' = [ses EXCEPT !.stage[i] = s]
  /\ moves' = IF s # ses.stage[i] /\ s # "INITIAL" THEN moves \cup {i} ELSE moves
  /\ marks' = marks \cup {i}
  /\ UNCHANGED <<pc, trades, carded>>
  /\ UNCHANGED dbVars
  /\ UNCHANGED worldVars

Higher(a, b) == IF a >= b THEN a ELSE b

\* Fault variant: the balance is written, the event is not appended.
Booking_NoEvent(s, i, a) ==
  [s EXCEPT !.balance = s.balance + a,
            !.peak = Higher(s.peak, s.balance + a),
            !.equity = [cash |-> s.balance + a, covers |-> {}],
            !.closing = s.closing \cup {i}, !.pnl[i] = a]

\* Fault variant: the pnl is stored with the position but not its sign.
Booking_WrongPnl(s, i, a) ==
  [s EXCEPT !.balance = s.balance + a,
            !.booked = s.booked + a,
            !.peak = Higher(s.peak, s.balance + a),
            !.equity = [cash |-> s.balance + a, covers |-> {}],
            !.closing = s.closing \cup {i}, !.pnl[i] = IF a < 0 THEN -a ELSE a]

\* The writes of _close: the position with its pnl, the balance, the equity and
\* the high-water mark, the POSITION_CLOSED event.
Booking(s, i, a) ==
  [s EXCEPT !.balance = s.balance + a,
            !.booked = s.booked + a,
            !.peak = Higher(s.peak, s.balance + a),
            !.equity = [cash |-> s.balance + a, covers |-> {}],
            !.closing = s.closing \cup {i},
            !.pnl[i] = a]

\* Fault variant: the card and the outcome go out inside the transaction.
Closes_Announces(i, a) ==
  /\ pc = "running" /\ i \in todo
  /\ todo' = todo \ {i}
  /\ ses' = Booking(ses, i, a)
  /\ cards' = [cards EXCEPT ![i] = @ + 1]
  /\ outcomes' = [outcomes EXCEPT ![i] = @ + 1]
  /\ UNCHANGED <<pc, marks, moves, carded, trades, due, faults>>
  /\ UNCHANGED dbVars

\* An exit was found: on the candles, or by delisting, funding or expiry.
Closes(i, a) ==
  /\ pc = "running" /\ i \in todo
  /\ todo' = todo \ {i}
  /\ ses' = Booking(ses, i, a)
  /\ trades' = trades \cup {i}
  /\ UNCHANGED <<pc, marks, moves, carded>>
  /\ UNCHANGED dbVars
  /\ UNCHANGED worldVars

\* What a cycle that ends before its commit leaves in the process.
SessionLost ==
  /\ pc' = "asleep"
  /\ ses' = Snapshot
  /\ todo' = {} /\ marks' = {} /\ trades' = {} /\ moves' = {} /\ carded' = {}

\* A write of _close or of _update_stop_stage fails (lock wait timeout, lost
\* connection, value out of range) after the position was modified.  The
\* rollback to the savepoint expires the objects that the savepoint modified,
\* and the handler that should isolate the failure reads position.symbol, which
\* an async session cannot reload: the exception leaves run, session_scope rolls
\* the whole transaction back and the process sleeps until the next cycle.
WriteFails(i) ==
  /\ pc = "running" /\ i \in todo
  /\ faults < MaxFaults
  /\ faults' = faults + 1
  /\ SessionLost
  /\ UNCHANGED dbVars
  /\ UNCHANGED <<due, cards, outcomes>>

\* The commit fails, or the process is killed before it: the same rollback.
CycleFails ==
  /\ pc = "running"
  /\ faults < MaxFaults
  /\ faults' = faults + 1
  /\ SessionLost
  /\ UNCHANGED dbVars
  /\ UNCHANGED <<due, cards, outcomes>>

\* Fault variant: the equity counts every listed position, the closed ones too.
Refreshed_Listed(s, m) == [cash |-> s.balance, covers |-> m \cup s.closing]

\* _refresh_equity: the balance and the positions held with a mark.
Refreshed(s, m) == [cash |-> s.balance, covers |-> m]

\* The equity is refreshed and the transaction is committed.  Positions opened
\* meanwhile by the worker are rows of their own.
Commits ==
  /\ pc = "running" /\ todo = {}
  /\ balance' = ses.balance
  /\ booked' = ses.booked
  /\ peak' = ses.peak
  /\ open' = open \ ses.closing
  /\ closed' = closed \cup ses.closing
  /\ equity' = Refreshed(ses, marks)
  /\ pnl' = ses.pnl
  /\ stage' = ses.stage
  /\ pc' = "dispatch"
  /\ UNCHANGED <<ses, todo, marks, trades, moves, carded>>
  /\ UNCHANGED worldVars

----------------------------------------------------------------------------
(* The side effects, after the commit. *)

\* notify_position_closed: a failure is logged, the card is lost.
SendsCard(i) ==
  /\ pc = "dispatch" /\ carded = {} /\ i \in trades
  /\ trades' = trades \ {i}
  /\ carded' = {i}
  /\ \/ cards' = [cards EXCEPT ![i] = @ + 1]
     \/ cards' = cards
  /\ UNCHANGED <<pc, ses, todo, marks, moves>>
  /\ UNCHANGED dbVars
  /\ UNCHANGED <<due, outcomes, faults>>

\* record_trade_outcome: a failure is logged, the row is lost.
RecordsOutcome(i) ==
  /\ pc = "dispatch" /\ i \in carded
  /\ carded' = {}
  /\ \/ outcomes' = [outcomes EXCEPT ![i] = @ + 1]
     \/ outcomes' = outcomes
  /\ UNCHANGED <<pc, ses, todo, marks, trades, moves>>
  /\ UNCHANGED dbVars
  /\ UNCHANGED <<due, cards, faults>>

\* notify_stop_update, after all the trades.
SendsMove(i) ==
  /\ pc = "dispatch" /\ trades = {} /\ carded = {} /\ i \in moves
  /\ moves' = moves \ {i}
  /\ UNCHANGED <<pc, ses, todo, marks, trades, carded>>
  /\ UNCHANGED dbVars
  /\ UNCHANGED worldVars

\* The cycle is complete; the process sleeps for the interval.
Sleeps ==
  /\ pc = "dispatch" /\ trades = {} /\ carded = {} /\ moves = {}
  /\ SessionLost
  /\ UNCHANGED dbVars
  /\ UNCHANGED worldVars

\* The process is killed while it dispatches: what it had not sent is lost.
DispatchDies ==
  /\ pc = "dispatch"
  /\ faults < MaxFaults
  /\ faults' = faults + 1
  /\ SessionLost
  /\ UNCHANGED dbVars
  /\ UNCHANGED <<due, cards, outcomes>>

----------------------------------------------------------------------------

Next ==
  \/ \E i \in Ids : WorkerOpens(i) \/ MarketReaches(i)
  \/ Wake
  \/ \E i \in Ids : Passes(i) \/ WriteFails(i)
  \/ \E i \in Ids, s \in Stages : Holds(i, s)
  \/ \E i \in Ids, a \in PnlValues : Closes(i, a)
  \/ CycleFails
  \/ Commits
  \/ \E i \in Ids : SendsCard(i) \/ RecordsOutcome(i) \/ SendsMove(i)
  \/ Sleeps
  \/ DispatchDies

Spec == Init /\ [][Next]_vars

\* The loop of the process never stops, and the exchange does not fail forever
\* for one position: a position looked at again and again with an exit in its
\* candles is eventually closed by some cycle.
Processes(i) == Passes(i) \/ (\E s \in Stages : Holds(i, s)) \/ (\E a \in PnlValues : Closes(i, a))

Fairness ==
  /\ WF_vars(Wake) /\ WF_vars(Commits) /\ WF_vars(Sleeps)
  /\ \A i \in Ids :
       /\ WF_vars(Processes(i))
       /\ WF_vars(SendsCard(i)) /\ WF_vars(RecordsOutcome(i)) /\ WF_vars(SendsMove(i))
       /\ SF_vars(i \in due /\ \E a \in PnlValues : Closes(i, a))

FairSpec == Spec /\ Fairness

----------------------------------------------------------------------------
(* Properties. *)

\* The values the variables range over.
TypeOK ==
  /\ balance \in Int /\ peak \in Int /\ booked \in Int
  /\ open \subseteq Ids /\ closed \subseteq Ids
  /\ equity \in EquityType
  /\ pnl \in [Ids -> Int]
  /\ stage \in [Ids -> Stages]
  /\ pc \in {"asleep", "running", "dispatch"}
  /\ ses \in SessionType
  /\ todo \subseteq Ids /\ marks \subseteq Ids /\ trades \subseteq Ids
  /\ moves \subseteq Ids /\ carded \subseteq Ids
  /\ due \subseteq Ids
  /\ cards \in [Ids -> Nat] /\ outcomes \in [Ids -> Nat]
  /\ faults \in Nat

\* The cycle implements the account of module Ledger: whatever fails or dies,
\* positions are settled at most once and with all their money.
L == INSTANCE Ledger
ImplementsLedger == L!LedgerSpec

\* The high-water mark never lags behind the balance.
PeakIsHighWater == peak >= balance /\ peak >= InitialBalance

\* The events agree with the rows: the booked total is the sum of realized_pnl
\* over the closed positions, so no close is lost and none is booked twice.
EventsMatchPositions == booked = MapThenSumSet(LAMBDA i : pnl[i], closed)

\* The committed equity belongs to the committed balance and counts open
\* positions only: a position is never in the balance and in the equity twice.
EquityCountsOpenOnly == equity.cash = balance /\ equity.covers \subseteq open

\* watcher.py and dispatch.py: a rollback sends nothing and a restart repeats
\* nothing.  A card or an outcome belongs to a committed close, and there is at
\* most one of each.
AnnouncedOnce ==
  \A i \in Ids :
    /\ cards[i] <= 1 /\ outcomes[i] <= 1
    /\ cards[i] + outcomes[i] > 0 => i \in closed

\* An exit that is in the candles is executed by some cycle, although fetches
\* fail from time to time and the process dies or rolls back a few times.
ExitEventuallyExecuted == \A i \in Ids : i \in due ~> i \in closed

=============================================================================
