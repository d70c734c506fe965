------------------------------ MODULE TradingDB ------------------------------
(***************************************************************************)
(* The processes that share the trading database: the always-on position   *)
(* manager and the `watch` command (one cycle each), `force-close`, the    *)
(* worker and the `pipeline` command (persist_signals), `manual-signal`    *)
(* and `halt-trading` / `resume-trading`.                                  *)
(*                                                                         *)
(* Every process here is one transaction of session_scope (db/engine.py):  *)
(* its reads see a snapshot of the database and its own writes, and its    *)
(* writes reach the others at the commit.  No code takes a lock or names   *)
(* an isolation level: the snapshot is InnoDB's REPEATABLE READ.  An       *)
(* UPDATE of a row somebody else has changed since the snapshot is refused *)
(* by MariaDB with innodb_snapshot_isolation (on since 11.6.2), which rolls*)
(* the transaction back; before that it overwrites the row.                *)
(*                                                                         *)
(* A position is <<process, symbol>>: the transaction that opens it and    *)
(* what it trades.                                                         *)
(***************************************************************************)
EXTENDS Integers, FiniteSets

CONSTANTS
  Symbols,
  Shorts,          \* the symbols whose signals are short
  Pipelines,       \* runs of persist_signals
  Bar,             \* the bar each of them is for
  Serial,          \* they are the ticks of one scheduler, never two at a time
  Manuals,         \* runs of manual-signal
  Managers,        \* cycles of the position manager or of watch
  Closers,         \* runs of force-close
  PnlValues,       \* realized_pnl values
  InitialBalance,  \* accounts.initial_balance
  MaxConcurrent,   \* MAX_CONCURRENT_POSITIONS
  MaxSameDirection,\* MAX_SAME_DIRECTION
  ConflictAborts   \* innodb_snapshot_isolation

ASSUME DatabaseAssumption ==
  /\ Shorts \subseteq Symbols
  /\ PnlValues \subseteq Int /\ InitialBalance \in Int
  /\ MaxConcurrent \in Nat /\ MaxSameDirection \in Nat
  /\ ConflictAborts \in BOOLEAN /\ Serial \in BOOLEAN
  /\ DOMAIN Bar = Pipelines
  /\ (Pipelines \cup Manuals) \cap (Managers \cup Closers) = {}
  /\ Pipelines \cap Manuals = {}

Openers == Pipelines \cup Manuals
Processes == Openers \cup Managers \cup Closers
Positions == Openers \X Symbols

\* ux_signal_symbol_bar: a signal is one symbol's of one bar.
SignalKeys == {<<s, Bar[p]>> : s \in Symbols, p \in Pipelines}

\* A database: the account row (who has written it stands for its version), the
\* positions, the POSITION_CLOSED events, the screener's signals, the halt flag.
Database ==
  [balance : Int, peak : Int, writers : SUBSET (Managers \cup Closers),
   open : SUBSET Positions, closed : SUBSET Positions,
   booked : Int, signals : SUBSET SignalKeys, halted : BOOLEAN]

Fresh ==
  [balance |-> InitialBalance, peak |-> InitialBalance, writers |-> {},
   open |-> {}, closed |-> {}, booked |-> 0, signals |-> {}, halted |-> FALSE]

VARIABLES
  db,    \* the committed database
  pc,    \* per process: "idle", "busy" (in the transaction) or "done"
  seen,  \* per process: the snapshot its transaction reads
  view,  \* per process: the snapshot with its own writes
  todo   \* per process: what is left to do, symbols or positions

vars == <<db, pc, seen, view, todo>>

Init ==
  /\ db = Fresh
  /\ pc = [p \in Processes |-> "idle"]
  /\ seen = [p \in Processes |-> Fresh]
  /\ view = [p \in Processes |-> Fresh]
  /\ todo = [p \in Processes |-> {}]

----------------------------------------------------------------------------
(* Transactions. *)

\* A transaction starts: it will see the database d and has the set t to do.
Begins(p, d, t) ==
  /\ pc[p] = "idle"
  /\ pc' = [pc EXCEPT ![p] = "busy"]
  /\ seen' = [seen EXCEPT ![p] = db]
  /\ view' = [view EXCEPT ![p] = d]
  /\ todo' = [todo EXCEPT ![p] = t]
  /\ UNCHANGED db

\* One piece x of the work, after which the transaction sees the database d.
Does(p, x, d) ==
  /\ pc[p] = "busy" /\ x \in todo[p]
  /\ view' = [view EXCEPT ![p] = d]
  /\ todo' = [todo EXCEPT ![p] = @ \ {x}]
  /\ UNCHANGED <<db, pc, seen>>

\* The transaction is over and its session is forgotten.
Ends(p) ==
  /\ pc[p] = "busy"
  /\ pc' = [pc EXCEPT ![p] = "done"]
  /\ seen' = [seen EXCEPT ![p] = Fresh]
  /\ view' = [view EXCEPT ![p] = Fresh]
  /\ todo' = [todo EXCEPT ![p] = {}]

\* What the transaction has written.
Closed(p) == view[p].closed \ seen[p].closed
Opened(p) == view[p].open \ seen[p].open
NewSignals(p) == view[p].signals \ seen[p].signals

\* Fault variant: only the position row carries a version.
Stale_PositionOnly(p) == Closed(p) \cap db.closed # {}

\* A row it updates was changed by a commit after its snapshot.  Every cycle
\* updates the account row, if only updated_at, and so does every force-close.
Stale(p) ==
  \/ view[p].writers # seen[p].writers /\ db.writers # seen[p].writers
  \/ Closed(p) \cap db.closed # {}

\* Fault variant: the unique key of the signals is missing.
Duplicate_NoKey(p) == FALSE

\* ux_signal_symbol_bar: it inserts a signal that is there already.
Duplicate(p) == NewSignals(p) \cap db.signals # {}

\* The rows after the commit: inserted rows are added, updated rows are replaced
\* by the values of the session, column by column.
Merged(p) ==
  [balance |-> IF Closed(p) # {} THEN view[p].balance ELSE db.balance,
   peak |-> IF view[p].peak # seen[p].peak THEN view[p].peak ELSE db.peak,
   writers |-> db.writers \cup (view[p].writers \ seen[p].writers),
   open |-> (db.open \cup Opened(p)) \ Closed(p),
   closed |-> db.closed \cup Closed(p),
   booked |-> db.booked + (view[p].booked - seen[p].booked),
   signals |-> db.signals \cup NewSignals(p),
   halted |-> db.halted]

Commits(p) ==
  /\ Ends(p) /\ todo[p] = {}
  /\ ~ Duplicate(p)
  /\ ConflictAborts => ~ Stale(p)
  /\ db' = Merged(p)

\* The transaction is rolled back: refused by the database, or because of an
\* exception or a crash.
RollsBack(p) == Ends(p) /\ UNCHANGED db

----------------------------------------------------------------------------
(* Opening: persist_signals, _manual_signal, PortfolioManager.evaluate. *)

Side(s) == IF s \in Shorts THEN "short" ELSE "long"

OpenOn(d, side) == {i \in d.open : Side(i[2]) = side}

\* Fault variant: both caps are off by one.
Gated_OffByOne(d, s) ==
  \/ Cardinality(d.open) > MaxConcurrent
  \/ Cardinality(OpenOn(d, Side(s))) > MaxSameDirection

\* The slot checks of _gate.  The drawdown and funding checks read numbers that
\* the model leaves out: they are one more way to skip (Persists, Enters).
Gated(d, s) ==
  \/ Cardinality(d.open) >= MaxConcurrent
  \/ Cardinality(OpenOn(d, Side(s))) >= MaxSameDirection

\* Fault variant: deduplication looks at the positions it opened itself.
Held_Own(d, p, s) == <<p, s>> \in d.open

\* get_open_by_symbol.
Held(d, p, s) == \E i \in d.open : i[2] = s

\* The databases that evaluate may leave behind: with the position, if nothing
\* stands against it.
Evaluated(d, p, s) ==
  {d} \cup IF Gated(d, s) \/ Held(d, p, s) THEN {}
           ELSE {[d EXCEPT !.open = @ \cup {<<p, s>>}]}

\* The signals of the run are ready; those of the other candidates are not
\* told apart from those that are refused.
PipelineBegins(p) ==
  /\ Serial => \A q \in Pipelines : pc[q] # "busy"
  /\ \E S \in SUBSET Symbols \ {{}} : Begins(p, db, S)

\* Fault variant: the halt flag is not looked at.
AfterSignal_NoHalt(d, p, s) == Evaluated(d, p, s)

\* _apply_decision: the halt flag, the fill, the portfolio manager.
AfterSignal(d, p, s) == IF d.halted THEN {d} ELSE Evaluated(d, p, s)

\* One signal of persist_signals: skipped if the bar has it, else stored and
\* decided.
Persists(p, s) ==
  LET key == <<s, Bar[p]>>
  IN  IF key \in view[p].signals
      THEN Does(p, s, view[p])
      ELSE \E d \in AfterSignal([view[p] EXCEPT !.signals = @ \cup {key}], p, s) :
             Does(p, s, d)

\* _manual_signal: a signal of a bar of its own, no look at the halt flag.
ManualBegins(p) == \E s \in Symbols : Begins(p, db, {s})
Enters(p, s) == \E d \in Evaluated(view[p], p, s) : Does(p, s, d)

----------------------------------------------------------------------------
(* Closing: PositionWatcher.run, force_close, _close. *)

Higher(a, b) == IF a >= b THEN a ELSE b

\* Fault variant: the high-water mark is forgotten.
Settled_KeepsPeak(d, i, a) ==
  [d EXCEPT !.balance = d.balance + a, !.booked = d.booked + a,
            !.open = d.open \ {i}, !.closed = d.closed \cup {i}]

\* The position i is closed with the pnl a.
Settled(d, i, a) ==
  [d EXCEPT !.balance = d.balance + a,
            !.peak = Higher(d.peak, d.balance + a),
            !.booked = d.booked + a,
            !.open = d.open \ {i},
            !.closed = d.closed \cup {i}]

Touched(p) == [db EXCEPT !.writers = @ \cup {p}]

\* A cycle lists the open positions.
ManagerBegins(p) == Begins(p, Touched(p), db.open)

\* _process: the position is held, or closed.
Keeps(p, i) == Does(p, i, view[p])
Closes(p, i, a) == Does(p, i, Settled(view[p], i, a))

\* _force_close, of a position that the snapshot shows open.
CloserBegins(p) == \E i \in db.open : Begins(p, Touched(p), {i})

----------------------------------------------------------------------------

\* halt-trading and resume-trading.
SetsHalt(b) ==
  /\ db.halted # b
  /\ db' = [db EXCEPT !.halted = b]
  /\ UNCHANGED <<pc, seen, view, todo>>

Next ==
  \/ \E p \in Pipelines : PipelineBegins(p) \/ \E s \in Symbols : Persists(p, s)
  \/ \E p \in Manuals : ManualBegins(p) \/ \E s \in Symbols : Enters(p, s)
  \/ \E p \in Managers : ManagerBegins(p) \/ \E i \in Positions : Keeps(p, i)
  \/ \E p \in Closers : CloserBegins(p)
  \/ \E p \in Managers \cup Closers, i \in Positions, a \in PnlValues : Closes(p, i, a)
  \/ \E p \in Processes : Commits(p) \/ RollsBack(p)
  \/ \E b \in BOOLEAN : SetsHalt(b)

Spec == Init /\ [][Next]_vars

----------------------------------------------------------------------------
(* Properties. *)

\* The values the variables range over.
TypeOK ==
  /\ db \in Database
  /\ pc \in [Processes -> {"idle", "busy", "done"}]
  /\ seen \in [Processes -> Database]
  /\ view \in [Processes -> Database]
  /\ todo \in [Processes -> SUBSET (Symbols \cup Positions)]

\* Whoever closes positions at the same time, each is settled at most once and
\* the balance, the high-water mark and the events tell the same story.
L == INSTANCE Ledger WITH
       Ids <- Positions, balance <- db.balance, peak <- db.peak,
       booked <- db.booked, open <- db.open, closed <- db.closed
ImplementsLedger == L!LedgerSpec

\* dispatch.py:13-14: the position, the event and the balance are committed
\* atomically.  So the balance accounts for every POSITION_CLOSED event.
BalanceAccountsForEvents == db.balance = InitialBalance + db.booked

\* virtual_position.py:16-19: at most one OPEN position per account and symbol,
\* by a read before the write in the transaction that opens it.
OneOpenPerSymbol == \A i, j \in db.open : i[2] = j[2] => i = j

\* ux_signal_symbol_bar, persistence.py:31: runs for the same bar, one after the
\* other or at the same time, enter a symbol at most once, however soon the
\* position is closed.
OneEntryPerBar ==
  \A i, j \in db.open \cup db.closed :
    /\ {i[1], j[1]} \subseteq Pipelines
    /\ i[2] = j[2] /\ Bar[i[1]] = Bar[j[1]]
    => i = j

\* _gate: never more open positions than slots, in all and per direction.
CapsHold ==
  /\ Cardinality(db.open) <= MaxConcurrent
  /\ \A side \in {"long", "short"} : Cardinality(OpenOn(db, side)) <= MaxSameDirection

\* persist_signals: a run that starts while trading is halted opens nothing, also
\* when trading is resumed before it commits.
PipelineRespectsHalt ==
  [][\A p \in Pipelines : Commits(p) /\ seen[p].halted => db'.open \subseteq db.open]_vars

=============================================================================
