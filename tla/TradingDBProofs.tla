--------------------------- MODULE TradingDBProofs ---------------------------
(***************************************************************************)
(* Proofs about TradingDB, for any number of concurrent processes.  When   *)
(* the database refuses to overwrite rows changed since the snapshot       *)
(* (ConflictAborts), cycles and force-closes that overlap still settle     *)
(* every position at most once and lose no money.  The invariant says, for *)
(* every open transaction, what its session may differ in from its         *)
(* snapshot, and that the snapshot of the account row is current unless    *)
(* somebody else has written it.                                           *)
(***************************************************************************)
EXTENDS TradingDB, FiniteSetTheorems, TLAPS

Writers == Managers \cup Closers

\* The account, the high-water mark and the events of a database agree, and no
\* position is open and closed.
Sound(d) ==
  /\ d.balance = InitialBalance + d.booked
  /\ d.peak >= d.balance
  /\ d.open \cap d.closed = {}

\* A session of a cycle or a force-close: it moves positions from open to
\* closed, and touches the money only with that.
ClosingSession(p) ==
  /\ Sound(view[p])
  /\ view[p].writers = seen[p].writers \cup {p}
  /\ todo[p] \subseteq seen[p].open
  /\ seen[p].closed \subseteq view[p].closed
  /\ view[p].open \subseteq seen[p].open
  /\ view[p].peak >= seen[p].peak
  /\ Closed(p) \subseteq seen[p].open
  /\ Closed(p) = {} => view[p].balance = seen[p].balance /\ view[p].peak = seen[p].peak
                       /\ view[p].booked = seen[p].booked

\* A session that opens positions: it adds its own, and leaves the account be.
OpeningSession(p) ==
  /\ view[p].writers = seen[p].writers
  /\ view[p].closed = seen[p].closed
  /\ Opened(p) \subseteq {p} \X Symbols
  /\ view[p].balance = seen[p].balance /\ view[p].peak = seen[p].peak
  /\ view[p].booked = seen[p].booked

\* The snapshot of a transaction is a past database: what it shows open may be
\* closed by now, and its account row is current unless it was written since.
PastSnapshot(p) ==
  /\ seen[p].writers \subseteq db.writers
  /\ seen[p].open \subseteq db.open \cup db.closed
  /\ seen[p].writers = db.writers =>
       /\ seen[p].balance = db.balance /\ seen[p].peak = db.peak
       /\ seen[p].booked = db.booked /\ seen[p].closed = db.closed

SessionInv(p) ==
  pc[p] = "busy" =>
    /\ Sound(seen[p])
    /\ PastSnapshot(p)
    /\ p \in Writers => ClosingSession(p)
    /\ p \in Openers => OpeningSession(p)

\* A process leaves no trace in the database before it has committed.
NoTraceYet(p) ==
  pc[p] # "done" =>
    /\ p \notin db.writers
    /\ \A s \in Symbols : <<p, s>> \notin db.open \cup db.closed

DBInv ==
  /\ TypeOK
  /\ Sound(db)
  /\ \A p \in Processes : SessionInv(p) /\ NoTraceYet(p)

----------------------------------------------------------------------------
(* Type correctness. *)

\* Writing one field, with a value of its type, keeps the type of a database.
LEMMA FieldType ==
  ASSUME NEW d \in Database
  PROVE  /\ \A x \in Int : [d EXCEPT !.balance = x] \in Database
         /\ \A x \in Int : [d EXCEPT !.peak = x] \in Database
         /\ \A x \in Int : [d EXCEPT !.booked = x] \in Database
         /\ \A x \in SUBSET Writers : [d EXCEPT !.writers = x] \in Database
         /\ \A x \in SUBSET Positions : [d EXCEPT !.open = x] \in Database
         /\ \A x \in SUBSET Positions : [d EXCEPT !.closed = x] \in Database
         /\ \A x \in SUBSET SignalKeys : [d EXCEPT !.signals = x] \in Database
         /\ \A x \in BOOLEAN : [d EXCEPT !.halted = x] \in Database
BY DEF Database, Writers

\* The fresh database is one.
LEMMA FreshType == Fresh \in Database
BY DatabaseAssumption DEF Fresh, Database

\* Settling a position keeps the type, and changes what it says.
LEMMA SettledFacts ==
  ASSUME NEW d \in Database, NEW i \in Positions, NEW a \in Int
  PROVE  LET e == Settled(d, i, a)
         IN  /\ e \in Database
             /\ e.balance = d.balance + a /\ e.booked = d.booked + a
             /\ e.peak >= d.peak /\ e.peak >= d.balance + a
             /\ e.open = d.open \ {i} /\ e.closed = d.closed \cup {i}
             /\ e.writers = d.writers
<1> DEFINE d1 == [d EXCEPT !.balance = d.balance + a]
           d2 == [d1 EXCEPT !.peak = Higher(d.peak, d.balance + a)]
           d3 == [d2 EXCEPT !.booked = d.booked + a]
           d4 == [d3 EXCEPT !.open = d.open \ {i}]
           d5 == [d4 EXCEPT !.closed = d.closed \cup {i}]
<1>1. /\ d.balance + a \in Int /\ d.booked + a \in Int
      /\ Higher(d.peak, d.balance + a) \in Int
      /\ d.open \ {i} \in SUBSET Positions /\ d.closed \cup {i} \in SUBSET Positions
  BY DEF Database, Higher
<1>2. Settled(d, i, a) = d5
  BY DEF Settled
<1>3. /\ d5.balance = d.balance + a /\ d5.booked = d.booked + a
      /\ d5.peak >= d.peak /\ d5.peak >= d.balance + a
      /\ d5.open = d.open \ {i} /\ d5.closed = d.closed \cup {i}
      /\ d5.writers = d.writers
  BY DEF Database, Higher
<1>4. d1 \in Database
  BY <1>1, FieldType
<1> HIDE DEF d1
<1>5. d2 \in Database
  BY <1>1, <1>4, FieldType
<1> HIDE DEF d2
<1>6. d3 \in Database
  BY <1>1, <1>5, FieldType
<1> HIDE DEF d3
<1>7. d4 \in Database
  BY <1>1, <1>6, FieldType
<1> HIDE DEF d4
<1>8. d5 \in Database
  BY <1>1, <1>7, FieldType
<1> QED
  BY <1>2, <1>3, <1>8

\* What evaluate may leave behind differs from what it found in one open
\* position of the process at most.
LEMMA EvaluatedFacts ==
  ASSUME NEW d \in Database, NEW p \in Openers, NEW s \in Symbols,
         NEW e \in Evaluated(d, p, s)
  PROVE  /\ e \in Database
         /\ e.balance = d.balance /\ e.booked = d.booked /\ e.peak = d.peak
         /\ e.closed = d.closed /\ e.writers = d.writers
         /\ e.signals = d.signals /\ e.halted = d.halted
         /\ d.open \subseteq e.open /\ e.open \subseteq d.open \cup {<<p, s>>}
         /\ e.open # d.open => ~ Gated(d, s) /\ ~ Held(d, p, s)
<1>1. CASE e = d
  BY <1>1
<1>2. CASE e = [d EXCEPT !.open = @ \cup {<<p, s>>}]
  <2>1. d.open \cup {<<p, s>>} \in SUBSET Positions
    BY DEF Database, Positions
  <2>2. e = [d EXCEPT !.open = d.open \cup {<<p, s>>}]
    BY <1>2
  <2>3. e \in Database
    BY <2>1, <2>2, FieldType
  <2>4. CASE Gated(d, s) \/ Held(d, p, s)
    BY <1>1, <2>4 DEF Evaluated
  <2>5. CASE ~ (Gated(d, s) \/ Held(d, p, s))
    BY <2>2, <2>3, <2>5 DEF Database
  <2> QED
    BY <2>4, <2>5
<1> QED
  BY <1>1, <1>2 DEF Evaluated

\* What persist_signals does with one signal: it may store the signal and open
\* the position, and opens none unless the signal is new to it, trading is not
\* halted and nothing stands against it.
LEMMA PersistsFacts ==
  ASSUME TypeOK, NEW p \in Pipelines, NEW s \in Symbols, Persists(p, s)
  PROVE  \E d \in Database :
           /\ Does(p, s, d)
           /\ d.balance = view[p].balance /\ d.booked = view[p].booked
           /\ d.peak = view[p].peak /\ d.closed = view[p].closed
           /\ d.writers = view[p].writers /\ d.halted = view[p].halted
           /\ view[p].signals \subseteq d.signals
           /\ view[p].open \subseteq d.open
           /\ d.open \subseteq view[p].open \cup {<<p, s>>}
           /\ d.open # view[p].open =>
                /\ ~ view[p].halted
                /\ <<s, Bar[p]>> \in d.signals \ view[p].signals
                /\ ~ Gated(view[p], s) /\ ~ Held(view[p], p, s)
<1> DEFINE key == <<s, Bar[p]>>
           v == [view[p] EXCEPT !.signals = @ \cup {key}]
<1>1. view[p] \in Database /\ p \in Openers
  BY DEF TypeOK, Openers, Processes
<1>2. view[p].signals \cup {key} \in SUBSET SignalKeys
  BY <1>1 DEF Database, SignalKeys
<1>3. v \in Database
  BY <1>1, <1>2, FieldType
<1>4. /\ v.balance = view[p].balance /\ v.booked = view[p].booked
      /\ v.peak = view[p].peak /\ v.closed = view[p].closed
      /\ v.writers = view[p].writers /\ v.open = view[p].open
      /\ v.halted = view[p].halted /\ v.signals = view[p].signals \cup {key}
  BY <1>1 DEF Database
<1>5. CASE key \in view[p].signals
  <2>1. Does(p, s, view[p])
    BY <1>5 DEF Persists
  <2> QED
    BY <1>1, <2>1
<1>6. CASE key \notin view[p].signals
  <2>1. PICK d \in AfterSignal(v, p, s) : Does(p, s, d)
    BY <1>6 DEF Persists
  <2>2. (Gated(v, s) <=> Gated(view[p], s)) /\ (Held(v, p, s) <=> Held(view[p], p, s))
    BY <1>4 DEF Gated, OpenOn, Held
  <2> HIDE DEF v
  <2>3. d = v \/ (d \in Evaluated(v, p, s) /\ ~ v.halted)
    BY <2>1 DEF AfterSignal
  <2>4. /\ d \in Database
        /\ d.balance = v.balance /\ d.booked = v.booked /\ d.peak = v.peak
        /\ d.closed = v.closed /\ d.writers = v.writers
        /\ d.signals = v.signals /\ d.halted = v.halted
        /\ v.open \subseteq d.open /\ d.open \subseteq v.open \cup {<<p, s>>}
        /\ d.open # v.open => ~ Gated(v, s) /\ ~ Held(v, p, s) /\ ~ v.halted
    BY <1>1, <1>3, <2>3, EvaluatedFacts
  <2>5. /\ d.balance = view[p].balance /\ d.booked = view[p].booked
        /\ d.peak = view[p].peak /\ d.closed = view[p].closed
        /\ d.writers = view[p].writers /\ d.halted = view[p].halted
        /\ view[p].signals \subseteq d.signals /\ key \in d.signals
        /\ view[p].open \subseteq d.open /\ d.open \subseteq view[p].open \cup {<<p, s>>}
        /\ d.open # view[p].open => /\ ~ view[p].halted
                                    /\ ~ Gated(view[p], s) /\ ~ Held(view[p], p, s)
    BY <1>4, <2>2, <2>4
  <2> QED
    BY <1>6, <2>1, <2>4, <2>5
<1> QED
  BY <1>5, <1>6

\* The session variables of the process p change as a step of it may.
SessionStep(p) ==
  \A q \in Processes \ {p} :
    pc'[q] = pc[q] /\ seen'[q] = seen[q] /\ view'[q] = view[q] /\ todo'[q] = todo[q]

\* Starting, working and ending change one session, with the values they name.
LEMMA BeginsFacts ==
  ASSUME TypeOK, NEW p \in Processes, NEW d \in Database,
         NEW t \in SUBSET (Symbols \cup Positions), Begins(p, d, t)
  PROVE  /\ TypeOK' /\ SessionStep(p) /\ db' = db
         /\ pc[p] = "idle" /\ pc'[p] = "busy"
         /\ seen'[p] = db /\ view'[p] = d /\ todo'[p] = t
BY DEF TypeOK, Begins, SessionStep

\* Working.
LEMMA DoesFacts ==
  ASSUME TypeOK, NEW p \in Processes, NEW d \in Database, NEW x, Does(p, x, d)
  PROVE  /\ TypeOK' /\ SessionStep(p) /\ db' = db
         /\ pc[p] = "busy" /\ pc'[p] = "busy" /\ x \in todo[p]
         /\ seen'[p] = seen[p] /\ view'[p] = d /\ todo'[p] = todo[p] \ {x}
<1>1. todo[p] \ {x} \in SUBSET (Symbols \cup Positions)
  BY DEF TypeOK
<1>2. /\ view' \in [Processes -> Database] /\ db' = db /\ pc' = pc /\ seen' = seen
      /\ todo' \in [Processes -> SUBSET (Symbols \cup Positions)]
  BY <1>1 DEF TypeOK, Does
<1>3. TypeOK'
  BY <1>2 DEF TypeOK
<1>4. /\ pc[p] = "busy" /\ x \in todo[p]
      /\ view'[p] = d /\ todo'[p] = todo[p] \ {x} /\ SessionStep(p)
  BY DEF TypeOK, Does, SessionStep
<1> QED
  BY <1>2, <1>3, <1>4

\* Ending.
LEMMA EndsFacts ==
  ASSUME TypeOK, NEW p \in Processes, Ends(p), db' \in Database
  PROVE  /\ TypeOK' /\ SessionStep(p) /\ pc[p] = "busy" /\ pc'[p] = "done"
<1>1. TypeOK'
  BY FreshType DEF TypeOK, Ends
<1>2. SessionStep(p) /\ pc[p] = "busy" /\ pc'[p] = "done"
  BY DEF TypeOK, Ends, SessionStep
<1> QED
  BY <1>1, <1>2

----------------------------------------------------------------------------
(* The invariant. *)

\* The first state satisfies the invariant.
LEMMA InitInv == Init => DBInv
<1> SUFFICES ASSUME Init PROVE DBInv
  OBVIOUS
<1>1. TypeOK
  BY FreshType DEF Init, TypeOK
<1>2. Sound(db)
  BY DatabaseAssumption DEF Init, Fresh, Sound
<1>3. ASSUME NEW p \in Processes PROVE SessionInv(p) /\ NoTraceYet(p)
  BY DEF Init, Fresh, SessionInv, NoTraceYet
<1> QED
  BY <1>1, <1>2, <1>3 DEF DBInv

\* A step inside one session leaves the other sessions, and what is committed,
\* as they were.
LEMMA LocalStep ==
  ASSUME DBInv, TypeOK', NEW p \in Processes, SessionStep(p), db' = db,
         pc[p] = "done" => pc'[p] = "done",
         SessionInv(p)'
  PROVE  DBInv'
<1>1. Sound(db)'
  BY DEF DBInv, Sound
<1>2. NoTraceYet(p)'
  BY DEF DBInv, NoTraceYet
<1>3. ASSUME NEW q \in Processes \ {p} PROVE SessionInv(q)' /\ NoTraceYet(q)'
  <2>1. /\ pc'[q] = pc[q] /\ seen'[q] = seen[q] /\ view'[q] = view[q]
        /\ todo'[q] = todo[q]
    BY DEF SessionStep
  <2>2. SessionInv(q) /\ NoTraceYet(q)
    BY DEF DBInv
  <2>3. SessionInv(q)'
    BY <2>1, <2>2 DEF SessionInv, PastSnapshot, Sound, ClosingSession, OpeningSession,
       Closed, Opened
  <2>4. NoTraceYet(q)'
    BY <2>1, <2>2 DEF NoTraceYet
  <2> QED
    BY <2>3, <2>4
<1> QED
  BY <1>1, <1>2, <1>3 DEF DBInv

\* A process either opens or closes.
LEMMA Disjoint == ASSUME NEW p PROVE ~ (p \in Openers /\ p \in Writers)
BY DatabaseAssumption DEF Openers, Writers

\* An opening transaction starts.
LEMMA OpenerBegins ==
  ASSUME DBInv, NEW p \in Openers, NEW t \in SUBSET Symbols, Begins(p, db, t)
  PROVE  DBInv'
<1>1. /\ TypeOK' /\ SessionStep(p) /\ db' = db /\ pc[p] = "idle" /\ p \in Processes
      /\ seen'[p] = db /\ view'[p] = db
  BY BeginsFacts DEF DBInv, TypeOK, Processes
<1>2. SessionInv(p)'
  BY <1>1, Disjoint DEF DBInv, SessionInv, PastSnapshot, Sound, OpeningSession, Opened
<1> QED
  BY <1>1, <1>2, LocalStep

\* A closing transaction starts: it is going to write the account row.
LEMMA WriterBegins ==
  ASSUME DBInv, NEW p \in Writers, NEW t \in SUBSET Positions, t \subseteq db.open,
         Begins(p, Touched(p), t)
  PROVE  DBInv'
<1>1. db \in Database /\ db.writers \cup {p} \in SUBSET Writers
  BY DEF DBInv, TypeOK, Database, Writers
<1>2. Touched(p) \in Database
  BY <1>1, FieldType DEF Touched
<1>3. /\ TypeOK' /\ SessionStep(p) /\ db' = db /\ pc[p] = "idle" /\ p \in Processes
      /\ seen'[p] = db /\ view'[p] = Touched(p) /\ todo'[p] = t
  BY <1>2, BeginsFacts DEF DBInv, Processes, Writers
<1>4. LET d == Touched(p)
      IN  /\ d.writers = db.writers \cup {p} /\ d.balance = db.balance
          /\ d.peak = db.peak /\ d.booked = db.booked
          /\ d.open = db.open /\ d.closed = db.closed
  BY <1>1 DEF Touched, Database
<1>5. Sound(db) /\ db.peak \in Int
  BY <1>1 DEF DBInv, Database
<1>6. PastSnapshot(p)'
  BY <1>3 DEF PastSnapshot
<1>7. ClosingSession(p)'
  BY <1>3, <1>4, <1>5 DEF ClosingSession, Closed, Sound
<1>8. Sound(seen[p])'
  BY <1>3, <1>5 DEF Sound
<1>9. SessionInv(p)'
  BY <1>6, <1>7, <1>8, Disjoint DEF SessionInv
<1> QED
  BY <1>3, <1>9, LocalStep

\* An opening transaction decides one signal.
LEMMA OpenerDoes ==
  ASSUME DBInv, NEW p \in Openers, NEW s \in Symbols, NEW d \in Database,
         d.balance = view[p].balance, d.booked = view[p].booked, d.peak = view[p].peak,
         d.closed = view[p].closed, d.writers = view[p].writers,
         d.open \subseteq view[p].open \cup {<<p, s>>},
         Does(p, s, d)
  PROVE  DBInv'
<1>1. /\ TypeOK' /\ SessionStep(p) /\ db' = db /\ p \in Processes
      /\ pc[p] = "busy" /\ pc'[p] = "busy" /\ seen'[p] = seen[p] /\ view'[p] = d
  BY DoesFacts DEF DBInv, Processes
<1>2. Sound(seen[p]) /\ PastSnapshot(p) /\ OpeningSession(p)
  BY <1>1 DEF DBInv, SessionInv
<1>3. Sound(seen[p])' /\ PastSnapshot(p)'
  BY <1>1, <1>2 DEF Sound, PastSnapshot
<1>4. OpeningSession(p)'
  BY <1>1, <1>2 DEF OpeningSession, Opened
<1>5. SessionInv(p)'
  BY <1>3, <1>4, Disjoint DEF SessionInv
<1> QED
  BY <1>1, <1>5, LocalStep

\* A closing transaction holds a position.
LEMMA WriterKeeps ==
  ASSUME DBInv, NEW p \in Managers, NEW i \in Positions, Keeps(p, i)
  PROVE  DBInv'
<1>0. view[p] \in Database /\ p \in Processes /\ p \in Writers
  BY DEF DBInv, TypeOK, Processes, Writers
<1>1. /\ TypeOK' /\ SessionStep(p) /\ db' = db
      /\ pc[p] = "busy" /\ seen'[p] = seen[p] /\ view'[p] = view[p]
      /\ todo'[p] = todo[p] \ {i}
  BY <1>0, DoesFacts DEF DBInv, Keeps
<1>2. Sound(seen[p]) /\ PastSnapshot(p) /\ ClosingSession(p)
  BY <1>0, <1>1 DEF DBInv, SessionInv
<1>3. Sound(seen[p])' /\ PastSnapshot(p)' /\ ClosingSession(p)'
  BY <1>1, <1>2 DEF Sound, PastSnapshot, ClosingSession, Closed
<1>4. SessionInv(p)'
  BY <1>0, <1>3, Disjoint DEF SessionInv
<1> QED
  BY <1>0, <1>1, <1>4, LocalStep

\* A closing transaction closes a position: both sides of the books move by the
\* same amount.
LEMMA WriterCloses ==
  ASSUME DBInv, NEW p \in Writers, NEW i \in Positions, NEW a \in PnlValues,
         Closes(p, i, a)
  PROVE  DBInv'
<1> DEFINE d == Settled(view[p], i, a)
<1>0. view[p] \in Database /\ seen[p] \in Database /\ p \in Processes /\ a \in Int
  BY DatabaseAssumption DEF DBInv, TypeOK, Processes, Writers
<1>1. /\ d \in Database
      /\ d.balance = view[p].balance + a /\ d.booked = view[p].booked + a
      /\ d.peak >= view[p].peak /\ d.peak >= view[p].balance + a
      /\ d.open = view[p].open \ {i} /\ d.closed = view[p].closed \cup {i}
      /\ d.writers = view[p].writers
  BY <1>0, SettledFacts
<1> HIDE DEF d
<1>2. /\ TypeOK' /\ SessionStep(p) /\ db' = db /\ i \in todo[p]
      /\ pc[p] = "busy" /\ seen'[p] = seen[p] /\ view'[p] = d
      /\ todo'[p] = todo[p] \ {i}
  BY <1>0, <1>1, DoesFacts DEF DBInv, Closes, d
<1>3. Sound(seen[p]) /\ PastSnapshot(p) /\ ClosingSession(p)
  BY <1>0, <1>2 DEF DBInv, SessionInv
<1>4. Sound(seen[p])' /\ PastSnapshot(p)'
  BY <1>2, <1>3 DEF Sound, PastSnapshot
<1>5. /\ view[p].balance \in Int /\ view[p].booked \in Int /\ view[p].peak \in Int
      /\ seen[p].peak \in Int /\ d.peak \in Int
  BY <1>0, <1>1 DEF Database
<1>6. Sound(view[p])'
  BY <1>0, <1>1, <1>2, <1>3, <1>5, DatabaseAssumption DEF Sound, ClosingSession
<1>7. i \in seen[p].open /\ i \notin seen[p].closed
  BY <1>2, <1>3 DEF ClosingSession, Sound
<1>8. d.peak >= seen[p].peak
  BY <1>1, <1>3, <1>5 DEF ClosingSession
<1>9. Closed(p)' = Closed(p) \cup {i}
  BY <1>1, <1>2, <1>7 DEF Closed
<1>10. ClosingSession(p)'
  BY <1>1, <1>2, <1>3, <1>6, <1>7, <1>8, <1>9 DEF ClosingSession
<1>11. SessionInv(p)'
  BY <1>4, <1>10, Disjoint DEF SessionInv
<1> QED
  BY <1>0, <1>2, <1>11, LocalStep

\* The commit of an opening transaction adds its positions and nothing else that
\* the invariant speaks of.
LEMMA OpenerCommits ==
  ASSUME DBInv, NEW p \in Openers, Commits(p)
  PROVE  /\ db'.balance = db.balance /\ db'.peak = db.peak /\ db'.booked = db.booked
         /\ db'.closed = db.closed /\ db'.writers = db.writers
         /\ db'.open = db.open \cup Opened(p) /\ Opened(p) \subseteq {p} \X Symbols
<1>1. /\ OpeningSession(p) /\ view[p] \in Database /\ seen[p] \in Database
      /\ db \in Database
  BY DEF DBInv, TypeOK, SessionInv, Commits, Ends, Processes
<1>2. Closed(p) = {}
  BY <1>1 DEF OpeningSession, Closed
<1>3. db.booked + (view[p].booked - seen[p].booked) = db.booked
  BY <1>1 DEF OpeningSession, Database
<1> QED
  BY <1>1, <1>2, <1>3 DEF Commits, Merged, OpeningSession

\* The commit of a closing transaction, when stale rows are refused: the account
\* row is the one of its snapshot, so the session's values are the right ones,
\* and the positions it closes were still open.
LEMMA WriterCommits ==
  ASSUME DBInv, ConflictAborts, NEW p \in Writers, Commits(p)
  PROVE  /\ db'.balance = view[p].balance /\ db'.peak = view[p].peak
         /\ db'.booked = view[p].booked
         /\ db'.writers = db.writers \cup {p}
         /\ db'.closed = db.closed \cup Closed(p) /\ db'.open = db.open \ Closed(p)
         /\ Closed(p) \subseteq db.open
         /\ db'.peak >= db.peak /\ Sound(view[p])
         /\ Closed(p) = {} => /\ db'.balance = db.balance /\ db'.peak = db.peak
                              /\ db'.booked = db.booked
<1>1. /\ pc[p] = "busy" /\ p \in Processes
      /\ view[p] \in Database /\ seen[p] \in Database /\ db \in Database
  BY DEF DBInv, TypeOK, Commits, Ends, Processes, Writers
<1>2. ClosingSession(p) /\ PastSnapshot(p) /\ Sound(seen[p]) /\ p \notin db.writers
  BY <1>1 DEF DBInv, SessionInv, NoTraceYet
<1>3. seen[p].writers = db.writers
  <2>1. view[p].writers # seen[p].writers
    BY <1>2 DEF ClosingSession, PastSnapshot
  <2> QED
    BY <2>1 DEF Commits, Stale
<1>4. /\ seen[p].balance = db.balance /\ seen[p].peak = db.peak
      /\ seen[p].booked = db.booked /\ seen[p].closed = db.closed
  BY <1>2, <1>3 DEF PastSnapshot
<1>5. Closed(p) \subseteq db.open /\ Opened(p) = {}
  BY <1>2, <1>4 DEF ClosingSession, PastSnapshot, Sound, Closed, Opened
<1>6. db.booked + (view[p].booked - seen[p].booked) = view[p].booked
  BY <1>1, <1>4 DEF Database
<1>7. /\ db'.writers = db.writers \cup {p}
      /\ db'.closed = db.closed \cup Closed(p) /\ db'.open = db.open \ Closed(p)
      /\ db'.booked = view[p].booked
  BY <1>2, <1>3, <1>5, <1>6 DEF Commits, Merged, ClosingSession
<1>8. db'.balance = view[p].balance /\ db'.peak = view[p].peak
  BY <1>2, <1>4 DEF Commits, Merged, ClosingSession
<1>9. db'.peak >= db.peak /\ Sound(view[p])
  BY <1>2, <1>4, <1>8 DEF ClosingSession
<1>10. Closed(p) = {} => /\ db'.balance = db.balance /\ db'.peak = db.peak
                        /\ db'.booked = db.booked
  BY <1>2, <1>4, <1>7, <1>8 DEF ClosingSession
<1> QED
  BY <1>5, <1>7, <1>8, <1>9, <1>10

\* The merged database is a database.
LEMMA MergedType ==
  ASSUME TypeOK, NEW p \in Processes
  PROVE  Merged(p) \in Database
<1>1. view[p] \in Database /\ seen[p] \in Database /\ db \in Database
  BY DEF TypeOK
<1>2. /\ (IF Closed(p) # {} THEN view[p].balance ELSE db.balance) \in Int
      /\ (IF view[p].peak # seen[p].peak THEN view[p].peak ELSE db.peak) \in Int
      /\ db.booked + (view[p].booked - seen[p].booked) \in Int
      /\ db.halted \in BOOLEAN
  BY <1>1 DEF Database
<1>3. /\ db.writers \cup (view[p].writers \ seen[p].writers) \in SUBSET (Managers \cup Closers)
      /\ (db.open \cup Opened(p)) \ Closed(p) \in SUBSET Positions
      /\ db.closed \cup Closed(p) \in SUBSET Positions
      /\ db.signals \cup NewSignals(p) \in SUBSET SignalKeys
  BY <1>1 DEF Database, Opened, Closed, NewSignals
<1> QED
  BY <1>2, <1>3 DEF Merged, Database

\* A commit by p keeps the invariant of every other process, because positions
\* only ever move from open to closed and whoever changes the account signs.
LEMMA CommitOthers ==
  ASSUME DBInv, ConflictAborts, NEW p \in Processes, Commits(p),
         NEW q \in Processes \ {p}
  PROVE  SessionInv(q)' /\ NoTraceYet(q)'
<1>1. /\ pc'[q] = pc[q] /\ seen'[q] = seen[q] /\ view'[q] = view[q]
      /\ todo'[q] = todo[q]
  BY MergedType, EndsFacts DEF DBInv, Commits, SessionStep
<1>2. SessionInv(q) /\ NoTraceYet(q) /\ NoTraceYet(p) /\ pc[p] = "busy"
  BY DEF DBInv, Commits, Ends
<1>3. CASE p \in Openers
  <2>1. /\ db'.balance = db.balance /\ db'.peak = db.peak /\ db'.booked = db.booked
        /\ db'.closed = db.closed /\ db'.writers = db.writers
        /\ db'.open = db.open \cup Opened(p) /\ Opened(p) \subseteq {p} \X Symbols
    BY <1>3, OpenerCommits
  <2>2. NoTraceYet(q)'
    BY <1>1, <1>2, <2>1 DEF NoTraceYet
  <2>3. SessionInv(q)'
    BY <1>1, <1>2, <2>1 DEF SessionInv, PastSnapshot, Sound, ClosingSession,
       OpeningSession, Closed, Opened
  <2> QED
    BY <2>2, <2>3
<1>4. CASE p \in Writers
  <2>1. /\ db'.writers = db.writers \cup {p}
        /\ db'.closed = db.closed \cup Closed(p) /\ db'.open = db.open \ Closed(p)
        /\ Closed(p) \subseteq db.open
    BY <1>4, WriterCommits
  <2>2. NoTraceYet(q)'
    BY <1>1, <1>2, <2>1 DEF NoTraceYet
  <2>3. PastSnapshot(q) /\ p \notin db.writers => PastSnapshot(q)'
    BY <1>1, <2>1 DEF PastSnapshot
  <2>4. SessionInv(q)'
    BY <1>1, <1>2, <2>3 DEF SessionInv, NoTraceYet, Sound, ClosingSession,
       OpeningSession, Closed, Opened
  <2> QED
    BY <2>2, <2>4
<1> QED
  BY <1>3, <1>4 DEF Processes, Writers

\* A commit keeps the invariant.
LEMMA CommitsInv ==
  ASSUME DBInv, ConflictAborts, NEW p \in Processes, Commits(p)
  PROVE  DBInv'
<1>1. TypeOK' /\ pc'[p] = "done" /\ pc[p] = "busy"
  BY MergedType, EndsFacts DEF DBInv, Commits
<1>2. Sound(db)'
  <2>1. Sound(db) /\ db \in Database /\ NoTraceYet(p)
    BY DEF DBInv, TypeOK
  <2>2. CASE p \in Openers
    BY <1>1, <2>1, <2>2, OpenerCommits DEF Sound, NoTraceYet
  <2>3. CASE p \in Writers
    BY <2>1, <2>3, WriterCommits DEF Sound
  <2> QED
    BY <2>2, <2>3 DEF Processes, Writers
<1>3. SessionInv(p)' /\ NoTraceYet(p)'
  BY <1>1 DEF SessionInv, NoTraceYet
<1>4. \A q \in Processes \ {p} : SessionInv(q)' /\ NoTraceYet(q)'
  BY CommitOthers
<1> QED
  BY <1>1, <1>2, <1>3, <1>4 DEF DBInv

\* Every step keeps the invariant.
LEMMA NextInv == DBInv /\ ConflictAborts /\ [Next]_vars => DBInv'
<1> SUFFICES ASSUME DBInv, ConflictAborts, [Next]_vars PROVE DBInv'
  OBVIOUS
<1>1. ASSUME NEW p \in Pipelines, PipelineBegins(p) PROVE DBInv'
  BY <1>1, OpenerBegins DEF PipelineBegins, Openers
<1>2. ASSUME NEW p \in Pipelines, NEW s \in Symbols, Persists(p, s) PROVE DBInv'
  <2>1. PICK d \in Database :
          /\ Does(p, s, d)
          /\ d.balance = view[p].balance /\ d.booked = view[p].booked
          /\ d.peak = view[p].peak /\ d.closed = view[p].closed
          /\ d.writers = view[p].writers
          /\ d.open \subseteq view[p].open \cup {<<p, s>>}
    BY <1>2, PersistsFacts, Zenon DEF DBInv
  <2> QED
    BY <2>1, OpenerDoes DEF Openers
<1>3. ASSUME NEW p \in Manuals, ManualBegins(p) PROVE DBInv'
  <2>1. PICK s \in Symbols : Begins(p, db, {s})
    BY <1>3 DEF ManualBegins
  <2> QED
    BY <2>1, OpenerBegins DEF Openers
<1>4. ASSUME NEW p \in Manuals, NEW s \in Symbols, Enters(p, s) PROVE DBInv'
  <2>1. view[p] \in Database /\ p \in Openers
    BY DEF DBInv, TypeOK, Openers, Processes
  <2>2. PICK d \in Evaluated(view[p], p, s) : Does(p, s, d)
    BY <1>4 DEF Enters
  <2>3. /\ d \in Database
        /\ d.balance = view[p].balance /\ d.booked = view[p].booked
        /\ d.peak = view[p].peak
        /\ d.closed = view[p].closed /\ d.writers = view[p].writers
        /\ d.open \subseteq view[p].open \cup {<<p, s>>}
    BY <2>1, EvaluatedFacts
  <2> QED
    BY <2>1, <2>2, <2>3, OpenerDoes
<1>5. ASSUME NEW p \in Managers, ManagerBegins(p) PROVE DBInv'
  <2>1. db.open \in SUBSET Positions
    BY DEF DBInv, TypeOK, Database
  <2> QED
    BY <1>5, <2>1, WriterBegins DEF ManagerBegins, Writers
<1>6. ASSUME NEW p \in Managers, NEW i \in Positions, Keeps(p, i) PROVE DBInv'
  BY <1>6, WriterKeeps
<1>7. ASSUME NEW p \in Closers, CloserBegins(p) PROVE DBInv'
  <2>1. PICK i \in db.open : Begins(p, Touched(p), {i})
    BY <1>7 DEF CloserBegins
  <2>2. {i} \in SUBSET Positions /\ {i} \subseteq db.open
    BY <2>1 DEF DBInv, TypeOK, Database
  <2> QED
    BY <2>1, <2>2, WriterBegins DEF Writers
<1>8. ASSUME NEW p \in Managers \cup Closers, NEW i \in Positions, NEW a \in PnlValues,
             Closes(p, i, a)
      PROVE  DBInv'
  BY <1>8, WriterCloses DEF Writers
<1>9. ASSUME NEW p \in Processes, Commits(p) PROVE DBInv'
  BY <1>9, CommitsInv
<1>10. ASSUME NEW p \in Processes, RollsBack(p) PROVE DBInv'
  <2>1. Ends(p) /\ db' = db /\ db' \in Database
    BY <1>10 DEF RollsBack, DBInv, TypeOK
  <2>2. TypeOK' /\ SessionStep(p) /\ pc'[p] = "done"
    BY <2>1, EndsFacts DEF DBInv
  <2>3. SessionInv(p)'
    BY <2>2 DEF SessionInv
  <2> QED
    BY <2>1, <2>2, <2>3, LocalStep
<1>11. ASSUME NEW b \in BOOLEAN, SetsHalt(b) PROVE DBInv'
  <2>1. db \in Database /\ db' = [db EXCEPT !.halted = b]
        /\ UNCHANGED <<pc, seen, view, todo>>
    BY <1>11 DEF SetsHalt, DBInv, TypeOK
  <2>2. db' \in Database
    BY <2>1, FieldType
  <2>3. /\ db'.balance = db.balance /\ db'.peak = db.peak /\ db'.booked = db.booked
        /\ db'.open = db.open /\ db'.closed = db.closed /\ db'.writers = db.writers
    BY <2>1 DEF Database
  <2>4. TypeOK' /\ Sound(db)'
    BY <2>1, <2>2, <2>3 DEF DBInv, TypeOK, Sound
  <2>5. ASSUME NEW q \in Processes PROVE SessionInv(q)' /\ NoTraceYet(q)'
    BY <2>1, <2>3 DEF DBInv, SessionInv, NoTraceYet, PastSnapshot, Sound,
       ClosingSession, OpeningSession, Closed, Opened
  <2> QED
    BY <2>4, <2>5 DEF DBInv
<1>12. ASSUME UNCHANGED vars PROVE DBInv'
  BY <1>12 DEF vars, DBInv, TypeOK, SessionInv, NoTraceYet, PastSnapshot, Sound,
     ClosingSession, OpeningSession, Closed, Opened
<1> QED
  BY <1>1, <1>2, <1>3, <1>4, <1>5, <1>6, <1>7, <1>8, <1>9, <1>10, <1>11, <1>12
     DEF Next

\* The invariant holds throughout, where the database refuses stale writes.
LEMMA DBInvariant == ConflictAborts => (Spec => []DBInv)
<1> SUFFICES ASSUME ConflictAborts PROVE Spec => []DBInv
  OBVIOUS
<1>1. Init => DBInv
  BY InitInv
<1>2. DBInv /\ [Next]_vars => DBInv'
  BY NextInv
<1> QED
  BY <1>1, <1>2, PTL DEF Spec

----------------------------------------------------------------------------
(* What follows from it. *)

\* dispatch.py:13-14: with innodb_snapshot_isolation, whatever overlaps, the
\* balance accounts for every POSITION_CLOSED event.
THEOREM NoMoneyLost == ConflictAborts => (Spec => []BalanceAccountsForEvents)
<1> SUFFICES ASSUME ConflictAborts PROVE Spec => []BalanceAccountsForEvents
  OBVIOUS
<1>0. Spec => []DBInv
  BY DBInvariant
<1>1. DBInv => BalanceAccountsForEvents
  BY DEF DBInv, Sound, BalanceAccountsForEvents
<1> QED
  BY <1>0, <1>1, PTL

\* With innodb_snapshot_isolation, every commit is a step of the abstract account:
\* no position is settled twice, no settlement is overwritten.
THEOREM SharedDatabaseImplementsLedger == ConflictAborts => (Spec => ImplementsLedger)
<1> SUFFICES ASSUME ConflictAborts PROVE Spec => ImplementsLedger
  OBVIOUS
<1>0. Spec => []DBInv
  BY DBInvariant
<1>1. Init => L!LedgerInit
  BY DEF Init, Fresh, L!LedgerInit
<1>2. DBInv /\ DBInv' /\ [Next]_vars => [L!LedgerNext]_(L!ledgerVars)
  <2> SUFFICES ASSUME DBInv, DBInv', [Next]_vars
               PROVE  L!LedgerNext \/ UNCHANGED L!ledgerVars
    OBVIOUS
  <2> USE DEF L!ledgerVars
  <2>1. ASSUME NEW p \in Processes, Commits(p)
        PROVE  L!LedgerNext \/ UNCHANGED L!ledgerVars
    <3>1. CASE p \in Openers
      <4>1. /\ db'.balance = db.balance /\ db'.peak = db.peak
            /\ db'.booked = db.booked /\ db'.closed = db.closed
            /\ db'.open = db.open \cup Opened(p) /\ Opened(p) \subseteq {p} \X Symbols
        BY <2>1, <3>1, OpenerCommits
      <4>2. NoTraceYet(p) /\ pc[p] = "busy"
        BY <2>1 DEF DBInv, Commits, Ends
      <4>3. Opened(p) \in SUBSET Positions /\ Opened(p) \cap (db.open \cup db.closed) = {}
        BY <3>1, <4>1, <4>2 DEF NoTraceYet, Positions
      <4>4. Opened(p) # {} => L!Enter(Opened(p))
        BY <4>1, <4>3 DEF L!Enter
      <4> QED
        BY <4>1, <4>3, <4>4 DEF L!LedgerNext
    <3>2. CASE p \in Writers
      <4>1. /\ db'.closed = db.closed \cup Closed(p) /\ db'.open = db.open \ Closed(p)
            /\ Closed(p) \subseteq db.open /\ db'.peak >= db.peak
            /\ Closed(p) = {} => /\ db'.balance = db.balance /\ db'.peak = db.peak
                                 /\ db'.booked = db.booked
        BY <2>1, <3>2, WriterCommits
      <4>2. /\ Sound(db) /\ Sound(db)' /\ db \in Database /\ db' \in Database
        BY DEF DBInv, TypeOK
      <4>3. db'.booked = db.booked + (db'.balance - db.balance)
        BY <4>2, DatabaseAssumption DEF Sound, Database
      <4>4. Closed(p) # {} => L!Settle(Closed(p))
        BY <4>1, <4>2, <4>3 DEF L!Settle, Sound, Database
      <4>5. Closed(p) \in SUBSET Positions
        BY <4>1, <4>2 DEF Database
      <4> QED
        BY <4>1, <4>4, <4>5 DEF L!LedgerNext
    <3> QED
      BY <3>1, <3>2 DEF Processes, Writers
  <2>2. ASSUME NEW b \in BOOLEAN, SetsHalt(b) PROVE UNCHANGED L!ledgerVars
    BY <2>2 DEF SetsHalt, DBInv, TypeOK, Database
  <2>3. CASE db' = db
    BY <2>3
  <2>4. \/ db' = db
        \/ \E p \in Processes : Commits(p)
        \/ \E b \in BOOLEAN : SetsHalt(b)
    BY DEF Next, vars, PipelineBegins, Persists, ManualBegins, Enters, ManagerBegins,
       Keeps, CloserBegins, Closes, Begins, Does, RollsBack
  <2> QED
    BY <2>1, <2>2, <2>3, <2>4
<1> QED
  BY <1>0, <1>1, <1>2, PTL DEF Spec, ImplementsLedger, L!LedgerSpec

----------------------------------------------------------------------------
(* Entries, whatever the database does with stale writes. *)

\* The key of ux_signal_symbol_bar that a pipeline's position was entered with.
KeyOf(i) == <<i[2], Bar[i[1]]>>

\* A session against its snapshot: what it opens is its own and, in a pipeline,
\* of a signal it inserts; a cycle or a force-close opens nothing.
EntrySession(p) ==
  /\ p \in Writers =>
       /\ todo[p] \subseteq seen[p].open /\ view[p].open \subseteq seen[p].open
       /\ Closed(p) \subseteq seen[p].open
  /\ p \in Openers =>
       /\ view[p].closed = seen[p].closed /\ seen[p].open \subseteq view[p].open
       /\ Opened(p) \subseteq {p} \X Symbols
  /\ p \in Pipelines =>
       /\ view[p].halted = seen[p].halted
       /\ seen[p].halted => Opened(p) = {}
       /\ seen[p].signals \subseteq view[p].signals
       /\ \A i \in Opened(p) : KeyOf(i) \in NewSignals(p)

\* The positions and the signals of its snapshot are still in the database: a
\* position may have been closed meanwhile, and no signal is ever deleted.
EntrySnapshot(p) ==
  /\ seen[p].open \subseteq db.open \cup db.closed
  /\ seen[p].signals \subseteq db.signals

\* Whoever has a position of a pipeline in the database has its signal.
EntriesHaveSignals ==
  \A i \in db.open \cup db.closed : i[1] \in Pipelines => KeyOf(i) \in db.signals

EntryInv ==
  /\ TypeOK
  /\ EntriesHaveSignals
  /\ OneEntryPerBar
  /\ \A p \in Processes : pc[p] = "busy" => EntrySession(p) /\ EntrySnapshot(p)

\* The first state satisfies it.
LEMMA InitEntry == Init => EntryInv
<1> SUFFICES ASSUME Init PROVE EntryInv
  OBVIOUS
<1>1. TypeOK
  BY FreshType DEF Init, TypeOK
<1>2. EntriesHaveSignals /\ OneEntryPerBar
  BY DEF Init, Fresh, EntriesHaveSignals, OneEntryPerBar
<1>3. \A p \in Processes : pc[p] # "busy"
  BY DEF Init
<1> QED
  BY <1>1, <1>2, <1>3 DEF EntryInv

\* A step inside one session leaves the rest of the invariant as it was.
LEMMA EntryLocalStep ==
  ASSUME EntryInv, TypeOK', NEW p \in Processes, SessionStep(p), db' = db,
         pc'[p] = "busy" => EntrySession(p)' /\ EntrySnapshot(p)'
  PROVE  EntryInv'
<1>1. EntriesHaveSignals' /\ OneEntryPerBar'
  BY DEF EntryInv, EntriesHaveSignals, OneEntryPerBar, KeyOf
<1>2. ASSUME NEW q \in Processes \ {p}, pc'[q] = "busy"
      PROVE  EntrySession(q)' /\ EntrySnapshot(q)'
  <2>1. /\ pc[q] = "busy" /\ seen'[q] = seen[q] /\ view'[q] = view[q]
        /\ todo'[q] = todo[q]
    BY <1>2 DEF SessionStep
  <2>2. EntrySession(q) /\ EntrySnapshot(q)
    BY <2>1 DEF EntryInv
  <2> QED
    BY <2>1, <2>2 DEF EntrySession, EntrySnapshot, Opened, Closed, NewSignals
<1> QED
  BY <1>1, <1>2 DEF EntryInv

\* A process that opens starts from the database as it is.
LEMMA EntryOpenerBegins ==
  ASSUME EntryInv, NEW p \in Openers, NEW t \in SUBSET Symbols, Begins(p, db, t)
  PROVE  EntryInv'
<1>1. /\ TypeOK' /\ SessionStep(p) /\ db' = db /\ p \in Processes
      /\ seen'[p] = db /\ view'[p] = db
  BY BeginsFacts DEF EntryInv, TypeOK, Processes
<1>2. EntrySession(p)' /\ EntrySnapshot(p)'
  BY <1>1, Disjoint DEF EntrySession, EntrySnapshot, Opened, Closed, NewSignals
<1> QED
  BY <1>1, <1>2, EntryLocalStep

\* One that closes too, with positions of the snapshot to go through.
LEMMA EntryWriterBegins ==
  ASSUME EntryInv, NEW p \in Writers, NEW t \in SUBSET Positions, t \subseteq db.open,
         Begins(p, Touched(p), t)
  PROVE  EntryInv'
<1>1. db \in Database /\ db.writers \cup {p} \in SUBSET Writers
  BY DEF EntryInv, TypeOK, Database, Writers
<1>2. Touched(p) \in Database
  BY <1>1, FieldType DEF Touched
<1>3. /\ TypeOK' /\ SessionStep(p) /\ db' = db /\ p \in Processes
      /\ seen'[p] = db /\ view'[p] = Touched(p) /\ todo'[p] = t
  BY <1>2, BeginsFacts DEF EntryInv, Processes, Writers
<1>4. Touched(p).open = db.open /\ Touched(p).closed = db.closed
  BY <1>1 DEF Touched, Database
<1>5. EntrySession(p)' /\ EntrySnapshot(p)'
  BY <1>3, <1>4, Disjoint DEF EntrySession, EntrySnapshot, Closed, Openers
<1> QED
  BY <1>3, <1>5, EntryLocalStep

\* persist_signals handles a signal.
LEMMA EntryPersists ==
  ASSUME EntryInv, NEW p \in Pipelines, NEW s \in Symbols, Persists(p, s)
  PROVE  EntryInv'
<1>0. p \in Processes /\ p \in Openers /\ p \notin Writers
  BY Disjoint DEF Processes, Openers
<1>1. PICK d \in Database :
        /\ Does(p, s, d)
        /\ d.closed = view[p].closed /\ d.halted = view[p].halted
        /\ view[p].signals \subseteq d.signals
        /\ view[p].open \subseteq d.open
        /\ d.open \subseteq view[p].open \cup {<<p, s>>}
        /\ d.open # view[p].open =>
             ~ view[p].halted /\ <<s, Bar[p]>> \in d.signals \ view[p].signals
  BY PersistsFacts, Zenon DEF EntryInv
<1>2. /\ TypeOK' /\ SessionStep(p) /\ db' = db /\ pc[p] = "busy"
      /\ seen'[p] = seen[p] /\ view'[p] = d
  BY <1>0, <1>1, DoesFacts DEF EntryInv
<1>3. EntrySession(p) /\ EntrySnapshot(p)
  BY <1>0, <1>2 DEF EntryInv
<1>4. EntrySnapshot(p)'
  BY <1>2, <1>3 DEF EntrySnapshot
<1>5. Opened(p)' \subseteq Opened(p) \cup {<<p, s>>} /\ NewSignals(p) \subseteq NewSignals(p)'
  BY <1>1, <1>2 DEF Opened, NewSignals
<1>6. CASE d.open = view[p].open
  <2>1. Opened(p)' = Opened(p)
    BY <1>2, <1>6 DEF Opened
  <2>2. EntrySession(p)'
    BY <1>0, <1>1, <1>2, <1>3, <1>5, <2>1 DEF EntrySession
  <2> QED
    BY <1>0, <1>2, <1>4, <2>2, EntryLocalStep
<1>7. CASE d.open # view[p].open
  <2>1. KeyOf(<<p, s>>) \in NewSignals(p)'
    BY <1>0, <1>1, <1>2, <1>3, <1>7 DEF EntrySession, NewSignals, KeyOf
  <2>2. \A i \in Opened(p)' : KeyOf(i) \in NewSignals(p)'
    BY <1>3, <1>5, <2>1 DEF EntrySession
  <2>3. Opened(p)' \subseteq {p} \X Symbols
    BY <1>0, <1>3, <1>5 DEF EntrySession
  <2>4. EntrySession(p)'
    BY <1>0, <1>1, <1>2, <1>3, <1>7, <2>2, <2>3 DEF EntrySession, KeyOf
  <2> QED
    BY <1>0, <1>2, <1>4, <2>4, EntryLocalStep
<1> QED
  BY <1>6, <1>7

\* manual-signal handles its one.
LEMMA EntryEnters ==
  ASSUME EntryInv, NEW p \in Manuals, NEW s \in Symbols, Enters(p, s)
  PROVE  EntryInv'
<1>0. p \in Processes /\ p \in Openers /\ p \notin Writers /\ p \notin Pipelines
  BY Disjoint, DatabaseAssumption DEF Processes, Openers
<1>1. PICK d \in Evaluated(view[p], p, s) : Does(p, s, d)
  BY DEF Enters
<1>2. /\ d \in Database /\ d.closed = view[p].closed
      /\ view[p].open \subseteq d.open /\ d.open \subseteq view[p].open \cup {<<p, s>>}
  BY <1>0, EvaluatedFacts DEF EntryInv, TypeOK
<1>3. /\ TypeOK' /\ SessionStep(p) /\ db' = db /\ pc[p] = "busy"
      /\ seen'[p] = seen[p] /\ view'[p] = d
  BY <1>0, <1>1, <1>2, DoesFacts DEF EntryInv
<1>4. EntrySession(p) /\ EntrySnapshot(p)
  BY <1>0, <1>3 DEF EntryInv
<1>5. EntrySession(p)' /\ EntrySnapshot(p)'
  BY <1>0, <1>2, <1>3, <1>4 DEF EntrySession, EntrySnapshot, Opened
<1> QED
  BY <1>0, <1>3, <1>5, EntryLocalStep

\* A cycle or a force-close handles a position: held or closed.
LEMMA EntryWriterDoes ==
  ASSUME EntryInv, NEW p \in Writers, NEW i \in Positions, NEW d \in Database,
         Does(p, i, d), d.open \subseteq view[p].open, d.closed \subseteq view[p].closed \cup {i}
  PROVE  EntryInv'
<1>0. p \in Processes /\ p \notin Openers /\ p \notin Pipelines
  BY Disjoint DEF Processes, Writers, Openers
<1>1. /\ TypeOK' /\ SessionStep(p) /\ db' = db /\ pc[p] = "busy" /\ i \in todo[p]
      /\ seen'[p] = seen[p] /\ view'[p] = d /\ todo'[p] = todo[p] \ {i}
  BY <1>0, DoesFacts DEF EntryInv
<1>2. EntrySession(p) /\ EntrySnapshot(p)
  BY <1>0, <1>1 DEF EntryInv
<1>3. EntrySession(p)' /\ EntrySnapshot(p)'
  BY <1>0, <1>1, <1>2 DEF EntrySession, EntrySnapshot, Closed
<1> QED
  BY <1>0, <1>1, <1>3, EntryLocalStep

\* What a commit adds to the positions is what its session opened: closing moves
\* a position, and what was closed was in the database.
LEMMA EntryCommitFacts ==
  ASSUME EntryInv, NEW p \in Processes, Commits(p)
  PROVE  /\ EntrySession(p)
         /\ db'.open \cup db'.closed = db.open \cup db.closed \cup Opened(p)
         /\ p \in Writers => Opened(p) = {}
         /\ Opened(p) \subseteq {p} \X Symbols
         /\ db'.open \subseteq db.open \cup Opened(p)
         /\ db'.signals = db.signals \cup NewSignals(p)
         /\ NewSignals(p) \cap db.signals = {}
<1>1. pc[p] = "busy" /\ db' = Merged(p) /\ ~ Duplicate(p)
  BY DEF Commits, Ends
<1>2. EntrySession(p) /\ EntrySnapshot(p)
  BY <1>1 DEF EntryInv
<1>3. /\ db'.open = (db.open \cup Opened(p)) \ Closed(p)
      /\ db'.closed = db.closed \cup Closed(p)
      /\ db'.signals = db.signals \cup NewSignals(p)
  BY <1>1 DEF Merged
<1>4. Closed(p) \subseteq db.open \cup db.closed
  BY <1>2 DEF EntrySession, EntrySnapshot, Closed, Openers, Processes, Writers
<1>5. p \in Writers => Opened(p) = {}
  BY <1>2 DEF EntrySession, Opened
<1>6. Opened(p) \subseteq {p} \X Symbols
  BY <1>2, <1>5 DEF EntrySession, Processes, Writers
<1> QED
  BY <1>1, <1>2, <1>3, <1>4, <1>5, <1>6 DEF Duplicate

\* A commit keeps the invariant: a second entry of the same symbol for the same
\* bar would insert a signal that is there, which the unique key refuses.
LEMMA EntryCommits ==
  ASSUME EntryInv, NEW p \in Processes, Commits(p)
  PROVE  EntryInv'
<1> DEFINE old == db.open \cup db.closed
           new == Opened(p)
<1>1. TypeOK' /\ SessionStep(p) /\ pc'[p] = "done"
  BY MergedType, EndsFacts DEF EntryInv, Commits
<1>2. /\ EntrySession(p)
      /\ db'.open \cup db'.closed = old \cup new
      /\ new \subseteq {p} \X Symbols
      /\ db'.signals = db.signals \cup NewSignals(p)
      /\ NewSignals(p) \cap db.signals = {}
  BY EntryCommitFacts
<1>3. p \in Pipelines => \A i \in new : i[1] = p /\ KeyOf(i) \in NewSignals(p)
  BY <1>2 DEF EntrySession
<1>4. new # {} /\ p \notin Pipelines => \A i \in new : i[1] \notin Pipelines
  BY <1>2
<1>5. \A i \in old : i[1] \in Pipelines => KeyOf(i) \in db.signals
  BY DEF EntryInv, EntriesHaveSignals
<1>6. EntriesHaveSignals'
  BY <1>2, <1>3, <1>4, <1>5 DEF EntriesHaveSignals, KeyOf
<1>7. ASSUME NEW i \in old \cup new, NEW j \in old \cup new,
             i[1] \in Pipelines, j[1] \in Pipelines,
             i[2] = j[2], Bar[i[1]] = Bar[j[1]]
      PROVE  i = j
  <2>1. KeyOf(i) = KeyOf(j)
    BY <1>7 DEF KeyOf
  <2>2. CASE i \in old /\ j \in old
    BY <1>7, <2>2 DEF EntryInv, OneEntryPerBar
  <2>3. CASE i \in new /\ j \in new
    BY <1>2, <1>7, <2>3
  <2>4. i \in new => KeyOf(i) \notin db.signals
    BY <1>2, <1>3, <1>4, <1>7
  <2>5. j \in new => KeyOf(j) \notin db.signals
    BY <1>2, <1>3, <1>4, <1>7
  <2> QED
    BY <1>5, <1>7, <2>1, <2>2, <2>3, <2>4, <2>5
<1>8. OneEntryPerBar'
  BY <1>2, <1>7 DEF OneEntryPerBar
<1>9. ASSUME NEW q \in Processes, pc'[q] = "busy"
      PROVE  EntrySession(q)' /\ EntrySnapshot(q)'
  <2>1. /\ q # p /\ pc[q] = "busy" /\ seen'[q] = seen[q] /\ view'[q] = view[q]
        /\ todo'[q] = todo[q]
    BY <1>1, <1>9 DEF SessionStep
  <2>2. EntrySession(q) /\ EntrySnapshot(q)
    BY <2>1 DEF EntryInv
  <2>3. EntrySession(q)'
    BY <2>1, <2>2 DEF EntrySession, Opened, Closed, NewSignals
  <2> QED
    BY <1>2, <2>1, <2>2, <2>3 DEF EntrySnapshot
<1> QED
  BY <1>1, <1>6, <1>8, <1>9 DEF EntryInv

\* The step of a transaction that is rolled back, of the halt flag, of nothing.
LEMMA EntryOtherSteps ==
  ASSUME EntryInv
  PROVE  /\ \A p \in Processes : RollsBack(p) => EntryInv'
         /\ \A b \in BOOLEAN : SetsHalt(b) => EntryInv'
         /\ UNCHANGED vars => EntryInv'
<1>1. ASSUME NEW p \in Processes, RollsBack(p) PROVE EntryInv'
  <2>1. Ends(p) /\ db' = db /\ db' \in Database
    BY <1>1 DEF RollsBack, EntryInv, TypeOK
  <2>2. TypeOK' /\ SessionStep(p) /\ pc'[p] = "done"
    BY <2>1, EndsFacts DEF EntryInv
  <2> QED
    BY <2>1, <2>2, EntryLocalStep
<1>2. ASSUME NEW b \in BOOLEAN, SetsHalt(b) PROVE EntryInv'
  <2>1. db \in Database /\ db' = [db EXCEPT !.halted = b]
        /\ UNCHANGED <<pc, seen, view, todo>>
    BY <1>2 DEF SetsHalt, EntryInv, TypeOK
  <2>2. db' \in Database
    BY <2>1, FieldType
  <2>3. db'.open = db.open /\ db'.closed = db.closed /\ db'.signals = db.signals
    BY <2>1 DEF Database
  <2>4. TypeOK'
    BY <2>1, <2>2 DEF EntryInv, TypeOK
  <2> QED
    BY <2>1, <2>3, <2>4 DEF EntryInv, EntriesHaveSignals, OneEntryPerBar, EntrySession,
       EntrySnapshot, Opened, Closed, NewSignals
<1>3. ASSUME UNCHANGED vars PROVE EntryInv'
  BY <1>3 DEF vars, EntryInv, TypeOK, EntriesHaveSignals, OneEntryPerBar, EntrySession,
     EntrySnapshot, Opened, Closed, NewSignals
<1> QED
  BY <1>1, <1>2, <1>3

\* Every step keeps the invariant.
LEMMA NextEntry == EntryInv /\ [Next]_vars => EntryInv'
<1> SUFFICES ASSUME EntryInv, [Next]_vars PROVE EntryInv'
  OBVIOUS
<1>1. ASSUME NEW p \in Pipelines, PipelineBegins(p) PROVE EntryInv'
  BY <1>1, EntryOpenerBegins DEF PipelineBegins, Openers
<1>2. ASSUME NEW p \in Pipelines, NEW s \in Symbols, Persists(p, s) PROVE EntryInv'
  BY <1>2, EntryPersists
<1>3. ASSUME NEW p \in Manuals, ManualBegins(p) PROVE EntryInv'
  <2>1. PICK s \in Symbols : Begins(p, db, {s})
    BY <1>3 DEF ManualBegins
  <2> QED
    BY <2>1, EntryOpenerBegins DEF Openers
<1>4. ASSUME NEW p \in Manuals, NEW s \in Symbols, Enters(p, s) PROVE EntryInv'
  BY <1>4, EntryEnters
<1>5. ASSUME NEW p \in Managers, ManagerBegins(p) PROVE EntryInv'
  <2>1. db.open \in SUBSET Positions
    BY DEF EntryInv, TypeOK, Database
  <2> QED
    BY <1>5, <2>1, EntryWriterBegins DEF ManagerBegins, Writers
<1>6. ASSUME NEW p \in Managers, NEW i \in Positions, Keeps(p, i) PROVE EntryInv'
  <2>1. view[p] \in Database
    BY DEF EntryInv, TypeOK, Processes
  <2> QED
    BY <1>6, <2>1, EntryWriterDoes DEF Keeps, Writers
<1>7. ASSUME NEW p \in Closers, CloserBegins(p) PROVE EntryInv'
  <2>1. PICK i \in db.open : Begins(p, Touched(p), {i})
    BY <1>7 DEF CloserBegins
  <2>2. {i} \in SUBSET Positions /\ {i} \subseteq db.open
    BY <2>1 DEF EntryInv, TypeOK, Database
  <2> QED
    BY <2>1, <2>2, EntryWriterBegins DEF Writers
<1>8. ASSUME NEW p \in Managers \cup Closers, NEW i \in Positions, NEW a \in PnlValues,
             Closes(p, i, a)
      PROVE  EntryInv'
  <2> DEFINE d == Settled(view[p], i, a)
  <2>1. view[p] \in Database /\ a \in Int
    BY DatabaseAssumption DEF EntryInv, TypeOK, Processes
  <2>2. d \in Database /\ d.open = view[p].open \ {i} /\ d.closed = view[p].closed \cup {i}
    BY <2>1, SettledFacts
  <2>3. Does(p, i, d)
    BY <1>8 DEF Closes
  <2> HIDE DEF d
  <2> QED
    BY <2>2, <2>3, EntryWriterDoes DEF Writers
<1>9. ASSUME NEW p \in Processes, Commits(p) PROVE EntryInv'
  BY <1>9, EntryCommits
<1> QED
  BY <1>1, <1>2, <1>3, <1>4, <1>5, <1>6, <1>7, <1>8, <1>9, EntryOtherSteps DEF Next

\* It holds throughout.
LEMMA EntryInvariant == Spec => []EntryInv
BY InitEntry, NextEntry, PTL DEF Spec

\* TypeOK: whatever the database does with stale writes, the variables have their
\* types.
THEOREM DatabaseTypeOK == Spec => []TypeOK
<1>1. EntryInv => TypeOK
  BY DEF EntryInv
<1> QED
  BY <1>1, EntryInvariant, PTL

\* ux_signal_symbol_bar, persistence.py:31: however many runs of persist_signals
\* there are for a bar, one after the other or at the same time, a symbol is
\* entered for it at most once, even when the position has been closed since.
THEOREM EntersOncePerBar == Spec => []OneEntryPerBar
<1>1. EntryInv => OneEntryPerBar
  BY DEF EntryInv
<1> QED
  BY <1>1, EntryInvariant, PTL

\* persist_signals: a run whose snapshot shows trading halted opens nothing when
\* it commits, even when trading has been resumed meanwhile.
THEOREM HaltStopsPipelines == Spec => PipelineRespectsHalt
<1>1. EntryInv /\ [Next]_vars
      => [\A p \in Pipelines : Commits(p) /\ seen[p].halted => db'.open \subseteq db.open]_vars
  <2>1. ASSUME EntryInv, NEW p \in Pipelines, Commits(p), seen[p].halted
        PROVE  db'.open \subseteq db.open
    <3>1. p \in Processes
      BY DEF Processes, Openers
    <3>2. EntrySession(p) /\ db'.open \subseteq db.open \cup Opened(p)
      BY <2>1, <3>1, EntryCommitFacts
    <3> QED
      BY <2>1, <3>2 DEF EntrySession
  <2> QED
    BY <2>1
<1> QED
  BY <1>1, EntryInvariant, PTL DEF Spec, PipelineRespectsHalt

----------------------------------------------------------------------------
(* The slots, for the ticks of one scheduler: no two runs of persist_signals  *)
(* overlap and nobody else opens positions.  Closers may overlap with them.   *)

\* The positions of a database are within the caps, one per symbol.
Slotted(d) ==
  /\ IsFiniteSet(d.open)
  /\ Cardinality(d.open) <= MaxConcurrent
  /\ \A side \in {"long", "short"} : Cardinality(OpenOn(d, side)) <= MaxSameDirection
  /\ \A i, j \in d.open : i[2] = j[2] => i = j

\* A running pipeline has every open position before its eyes: those that its
\* snapshot does not show were closed, never opened, since.
SlotInv ==
  /\ Slotted(db)
  /\ \A p, q \in Pipelines : pc[p] = "busy" /\ pc[q] = "busy" => p = q
  /\ \A p \in Pipelines :
       pc[p] = "busy" => db.open \subseteq seen[p].open /\ Slotted(view[p])

\* Fewer positions need fewer slots.
LEMMA SlottedShrinks ==
  ASSUME NEW d, NEW e, Slotted(d), e.open \subseteq d.open
  PROVE  Slotted(e)
<1>1. IsFiniteSet(d.open) /\ IsFiniteSet(e.open)
  BY FS_Subset DEF Slotted
<1>2. Cardinality(e.open) <= Cardinality(d.open)
  BY <1>1, FS_Subset
<1>3. Cardinality(e.open) <= MaxConcurrent
  BY <1>1, <1>2, FS_CardinalityType, DatabaseAssumption DEF Slotted
<1>4. ASSUME NEW side \in {"long", "short"}
      PROVE  Cardinality(OpenOn(e, side)) <= MaxSameDirection
  <2>1. OpenOn(e, side) \subseteq OpenOn(d, side) /\ OpenOn(d, side) \subseteq d.open
    BY DEF OpenOn
  <2>2. IsFiniteSet(OpenOn(d, side)) /\ IsFiniteSet(OpenOn(e, side))
    BY <1>1, <2>1, FS_Subset
  <2>3. Cardinality(OpenOn(e, side)) <= Cardinality(OpenOn(d, side))
    BY <2>1, <2>2, FS_Subset
  <2>4. Cardinality(OpenOn(d, side)) <= MaxSameDirection
    BY DEF Slotted
  <2> QED
    BY <2>2, <2>3, <2>4, FS_CardinalityType, DatabaseAssumption
<1> QED
  BY <1>1, <1>3, <1>4 DEF Slotted

\* _gate and get_open_by_symbol leave room for the one position they let pass.
LEMMA SlottedGrows ==
  ASSUME NEW d, NEW e, NEW p, NEW s, Slotted(d), d.open \subseteq e.open,
         e.open \subseteq d.open \cup {<<p, s>>},
         e.open # d.open => ~ Gated(d, s) /\ ~ Held(d, p, s)
  PROVE  Slotted(e)
<1> DEFINE new == <<p, s>>
<1>1. CASE e.open = d.open
  BY <1>1, SlottedShrinks
<1>2. CASE e.open # d.open
  <2>1. e.open = d.open \cup {new} /\ new \notin d.open
    BY <1>2
  <2>2. IsFiniteSet(d.open) /\ ~ Gated(d, s) /\ ~ Held(d, p, s)
    BY <1>2 DEF Slotted
  <2>3. IsFiniteSet(e.open) /\ Cardinality(e.open) = Cardinality(d.open) + 1
    BY <2>1, <2>2, FS_AddElement
  <2>4. Cardinality(e.open) <= MaxConcurrent
    BY <2>2, <2>3, FS_CardinalityType, DatabaseAssumption DEF Gated
  <2>5. ASSUME NEW side \in {"long", "short"}
        PROVE  Cardinality(OpenOn(e, side)) <= MaxSameDirection
    <3>0. new[2] = s
      OBVIOUS
    <3>1. IsFiniteSet(OpenOn(d, side))
      BY <2>2, FS_Subset DEF OpenOn
    <3>2. Cardinality(OpenOn(d, side)) <= MaxSameDirection
      BY DEF Slotted
    <3>3. CASE side # Side(s)
      <4>1. OpenOn(e, side) = OpenOn(d, side)
        BY <2>1, <3>0, <3>3 DEF OpenOn
      <4> QED
        BY <3>2, <4>1
    <3>4. CASE side = Side(s)
      <4>1. OpenOn(e, side) = OpenOn(d, side) \cup {new} /\ new \notin OpenOn(d, side)
        BY <2>1, <3>0, <3>4 DEF OpenOn
      <4>2. Cardinality(OpenOn(e, side)) = Cardinality(OpenOn(d, side)) + 1
        BY <3>1, <4>1, FS_AddElement
      <4>3. Cardinality(OpenOn(d, side)) < MaxSameDirection
        BY <2>2, <3>1, <3>4, FS_CardinalityType, DatabaseAssumption DEF Gated
      <4> QED
        BY <3>1, <4>2, <4>3, FS_CardinalityType, DatabaseAssumption
    <3> QED
      BY <3>3, <3>4
  <2>6. ASSUME NEW i \in e.open, NEW j \in e.open, i[2] = j[2] PROVE i = j
    <3>1. \A k \in d.open : k[2] # s
      BY <2>2 DEF Held
    <3> QED
      BY <2>1, <2>6, <3>1 DEF Slotted
  <2> QED
    BY <2>3, <2>4, <2>5, <2>6 DEF Slotted
<1> QED
  BY <1>1, <1>2

\* The first state has every slot free.
LEMMA InitSlots == Init => SlotInv
<1> SUFFICES ASSUME Init PROVE SlotInv
  OBVIOUS
<1>1. db.open = {} /\ \A side \in {"long", "short"} : OpenOn(db, side) = {}
  BY DEF Init, Fresh, OpenOn
<1>2. IsFiniteSet({}) /\ Cardinality({}) = 0
  BY FS_EmptySet
<1>3. 0 <= MaxConcurrent /\ 0 <= MaxSameDirection
  BY DatabaseAssumption
<1>4. \A side \in {"long", "short"} : Cardinality(OpenOn(db, side)) <= MaxSameDirection
  BY <1>1, <1>2, <1>3, Zenon
<1>5. IsFiniteSet(db.open) /\ Cardinality(db.open) <= MaxConcurrent
  BY <1>1, <1>2, <1>3, Zenon
<1>6. Slotted(db)
  BY <1>1, <1>4, <1>5 DEF Slotted
<1>7. \A p \in Pipelines : pc[p] # "busy"
  BY DEF Init, Processes, Openers
<1> QED
  BY <1>6, <1>7 DEF SlotInv

\* Everything but a commit and the start of a pipeline: what the sessions of the
\* pipelines show stays in its slots.
LEMMA SlotLocalStep ==
  ASSUME SlotInv, NEW p \in Processes, SessionStep(p), db'.open = db.open,
         p \in Pipelines => pc'[p] # "busy" \/ (pc[p] = "busy" /\ seen'[p] = seen[p]
                                               /\ Slotted(view'[p]))
  PROVE  SlotInv'
<1>1. Slotted(db)'
  BY SlottedShrinks DEF SlotInv
<1>2. ASSUME NEW q \in Pipelines, pc'[q] = "busy"
      PROVE  pc[q] = "busy" /\ seen'[q] = seen[q] /\ Slotted(view'[q])
  <2>1. CASE q = p
    BY <1>2, <2>1
  <2>2. CASE q # p
    <3>1. q \in Processes
      BY DEF Processes, Openers
    <3> QED
      BY <1>2, <2>2, <3>1 DEF SessionStep, SlotInv
  <2> QED
    BY <2>1, <2>2
<1>3. \A q \in Pipelines : Slotted(view'[q]) <=> Slotted(view[q])'
  BY DEF Slotted, OpenOn
<1> QED
  BY <1>1, <1>2, <1>3 DEF SlotInv

\* A commit: what a pipeline adds is in its view, everybody else only removes.
LEMMA SlotCommits ==
  ASSUME SlotInv, EntryInv, Manuals = {}, NEW p \in Processes, Commits(p)
  PROVE  SlotInv'
<1>1. /\ EntrySession(p) /\ db'.open \subseteq db.open \cup Opened(p)
      /\ p \in Writers => Opened(p) = {}
  BY EntryCommitFacts
<1>2. SessionStep(p) /\ pc[p] = "busy" /\ pc'[p] = "done"
  BY MergedType, EndsFacts DEF EntryInv, Commits
<1>3. CASE p \in Writers
  <2>1. db'.open \subseteq db.open /\ p \notin Pipelines
    BY <1>1, <1>3, Disjoint DEF Openers
  <2>2. Slotted(db)'
    BY <2>1, SlottedShrinks DEF SlotInv
  <2>3. ASSUME NEW q \in Pipelines PROVE pc'[q] = pc[q] /\ seen'[q] = seen[q] /\ view'[q] = view[q]
    BY <1>2, <2>1 DEF SessionStep, Processes, Openers
  <2>4. \A q \in Pipelines : Slotted(view[q]) => Slotted(view[q])'
    BY <2>3 DEF Slotted, OpenOn
  <2> QED
    BY <2>1, <2>2, <2>3, <2>4 DEF SlotInv
<1>4. CASE p \in Pipelines
  <2>1. db.open \subseteq seen[p].open /\ Slotted(view[p])
    BY <1>2, <1>4 DEF SlotInv
  <2>2. seen[p].open \subseteq view[p].open
    BY <1>1, <1>4 DEF EntrySession, Openers
  <2>3. db'.open \subseteq view[p].open
    BY <1>1, <2>1, <2>2 DEF Opened
  <2>4. Slotted(db)'
    BY <2>1, <2>3, SlottedShrinks
  <2>5. ASSUME NEW q \in Pipelines PROVE pc'[q] # "busy"
    BY <1>2, <1>4 DEF SessionStep, SlotInv, Processes, Openers
  <2> QED
    BY <2>4, <2>5 DEF SlotInv
<1> QED
  BY <1>3, <1>4 DEF Processes, Openers, Writers

\* Every step keeps the slots.
LEMMA NextSlots ==
  Serial /\ Manuals = {} /\ SlotInv /\ EntryInv /\ [Next]_vars => SlotInv'
<1> SUFFICES ASSUME Serial, Manuals = {}, SlotInv, EntryInv, [Next]_vars PROVE SlotInv'
  OBVIOUS
<1>0. TypeOK /\ db \in Database
  BY DEF EntryInv, TypeOK
<1>1. ASSUME NEW p \in Pipelines, PipelineBegins(p) PROVE SlotInv'
  <2>0. p \in Processes
    BY DEF Processes, Openers
  <2>1. PICK S \in SUBSET Symbols : Begins(p, db, S)
    BY <1>1 DEF PipelineBegins
  <2>2. SessionStep(p) /\ db' = db /\ seen'[p] = db /\ view'[p] = db
    BY <1>0, <2>0, <2>1, BeginsFacts
  <2>3. \A q \in Pipelines : pc[q] # "busy"
    BY <1>1 DEF PipelineBegins
  <2>4. \A q \in Pipelines : pc'[q] = "busy" => q = p
    BY <2>2, <2>3 DEF SessionStep, Processes, Openers
  <2>5. Slotted(db)' /\ Slotted(view[p])'
    BY <2>2, SlottedShrinks DEF SlotInv
  <2> QED
    BY <2>2, <2>4, <2>5 DEF SlotInv
<1>2. ASSUME NEW p \in Pipelines, NEW s \in Symbols, Persists(p, s) PROVE SlotInv'
  <2>0. p \in Processes
    BY DEF Processes, Openers
  <2>1. PICK d \in Database :
          /\ Does(p, s, d)
          /\ view[p].open \subseteq d.open
          /\ d.open \subseteq view[p].open \cup {<<p, s>>}
          /\ d.open # view[p].open => ~ Gated(view[p], s) /\ ~ Held(view[p], p, s)
    BY <1>0, <1>2, PersistsFacts, Zenon
  <2>2. SessionStep(p) /\ db' = db /\ pc[p] = "busy" /\ seen'[p] = seen[p] /\ view'[p] = d
    BY <1>0, <2>0, <2>1, DoesFacts
  <2>3. Slotted(view[p])
    BY <2>2 DEF SlotInv
  <2>4. Slotted(view'[p])
    BY <2>1, <2>2, <2>3, SlottedGrows
  <2> QED
    BY <2>0, <2>2, <2>4, SlotLocalStep
<1>3. ASSUME NEW p \in Writers, NEW d \in Database, NEW t \in SUBSET (Symbols \cup Positions),
             Begins(p, d, t)
      PROVE  SlotInv'
  <2>1. p \in Processes /\ p \notin Pipelines
    BY Disjoint DEF Processes, Openers, Writers
  <2>2. SessionStep(p) /\ db' = db
    BY <1>0, <1>3, <2>1, BeginsFacts
  <2> QED
    BY <2>1, <2>2, SlotLocalStep
<1>4. \A p \in Writers : Touched(p) \in Database
  <2>1. \A p \in Writers : db.writers \cup {p} \in SUBSET Writers
    BY <1>0 DEF Database, Writers
  <2> QED
    BY <1>0, <2>1, FieldType DEF Touched
<1>5. db.open \in SUBSET (Symbols \cup Positions) /\ \A i \in db.open : {i} \in SUBSET (Symbols \cup Positions)
  BY <1>0 DEF Database
<1>6. ASSUME NEW p \in Managers, ManagerBegins(p) PROVE SlotInv'
  BY <1>3, <1>4, <1>5, <1>6 DEF ManagerBegins, Writers
<1>7. ASSUME NEW p \in Closers, CloserBegins(p) PROVE SlotInv'
  BY <1>3, <1>4, <1>5, <1>7 DEF CloserBegins, Writers
<1>8. ASSUME NEW p \in Writers, NEW i \in Positions, NEW d, Does(p, i, d) PROVE SlotInv'
  <2>1. p \in Processes /\ p \notin Pipelines
    BY Disjoint DEF Processes, Openers, Writers
  <2>2. SessionStep(p) /\ db' = db
    BY <1>0, <1>8 DEF TypeOK, Does, SessionStep
  <2> QED
    BY <2>1, <2>2, SlotLocalStep
<1>9. ASSUME NEW p \in Managers, NEW i \in Positions, Keeps(p, i) PROVE SlotInv'
  BY <1>8, <1>9 DEF Keeps, Writers
<1>10. ASSUME NEW p \in Managers \cup Closers, NEW i \in Positions, NEW a \in PnlValues,
              Closes(p, i, a)
       PROVE  SlotInv'
  BY <1>8, <1>10 DEF Closes, Writers
<1>11. ASSUME NEW p \in Processes, Commits(p) PROVE SlotInv'
  BY <1>11, SlotCommits
<1>12. ASSUME NEW p \in Processes, RollsBack(p) PROVE SlotInv'
  <2>1. SessionStep(p) /\ db' = db /\ pc'[p] = "done"
    BY <1>0, <1>12, EndsFacts DEF RollsBack
  <2> QED
    BY <2>1, SlotLocalStep
<1>13. ASSUME NEW b \in BOOLEAN, SetsHalt(b) PROVE SlotInv'
  <2>1. db'.open = db.open /\ UNCHANGED <<pc, seen, view, todo>>
    BY <1>0, <1>13 DEF SetsHalt, Database
  <2> QED
    BY <2>1 DEF SlotInv, Slotted, OpenOn
<1>14. ASSUME UNCHANGED vars PROVE SlotInv'
  BY <1>14 DEF vars, SlotInv, Slotted, OpenOn
<1> QED
  BY <1>1, <1>2, <1>6, <1>7, <1>9, <1>10, <1>11, <1>12, <1>13, <1>14 DEF Next

\* The slots are kept throughout.
LEMMA SlotInvariant == Serial /\ Manuals = {} => (Spec => []SlotInv)
<1> SUFFICES ASSUME Serial, Manuals = {} PROVE Spec => []SlotInv
  OBVIOUS
<1>1. Init => SlotInv
  BY InitSlots
<1>2. SlotInv /\ EntryInv /\ [Next]_vars => SlotInv'
  BY NextSlots
<1> QED
  BY <1>1, <1>2, EntryInvariant, PTL DEF Spec

\* _gate: the ticks of one scheduler never open more positions than there are
\* slots, in all and per direction, whatever is closed while they run.
THEOREM TicksKeepTheCaps == Serial /\ Manuals = {} => (Spec => []CapsHold)
<1> SUFFICES ASSUME Serial, Manuals = {} PROVE Spec => []CapsHold
  OBVIOUS
<1>0. Spec => []SlotInv
  BY SlotInvariant
<1>1. SlotInv => CapsHold
  BY DEF SlotInv, Slotted, CapsHold
<1> QED
  BY <1>0, <1>1, PTL

\* virtual_position.py:16-19: nor do they ever hold a symbol twice.
THEOREM TicksHoldSymbolsOnce == Serial /\ Manuals = {} => (Spec => []OneOpenPerSymbol)
<1> SUFFICES ASSUME Serial, Manuals = {} PROVE Spec => []OneOpenPerSymbol
  OBVIOUS
<1>0. Spec => []SlotInv
  BY SlotInvariant
<1>1. SlotInv => OneOpenPerSymbol
  BY DEF SlotInv, Slotted, OneOpenPerSymbol
<1> QED
  BY <1>0, <1>1, PTL

----------------------------------------------------------------------------
(* Without one scheduler: who may exceed the slots, then? *)

\* The position i is within the slots of the database d, and alone on its symbol.
Fits(d, i) ==
  /\ Cardinality(d.open) <= MaxConcurrent
  /\ Cardinality(OpenOn(d, Side(i[2]))) <= MaxSameDirection
  /\ \A j \in d.open : j[2] = i[2] => j = i

\* A transaction commits a position beyond the caps, or on a symbol that is held,
\* only if another one has opened positions since its snapshot.
OnlyOverlapsExceed ==
  [][\A p \in Openers :
       Commits(p) /\ db.open \subseteq seen[p].open =>
         \A i \in db'.open \ db.open : Fits(db', i)]_vars

\* Whatever a session opened fits into what the session sees.
Careful(p) == IsFiniteSet(view[p].open) /\ \A i \in Opened(p) : Fits(view[p], i)

CarefulInv ==
  /\ IsFiniteSet(db.open)
  /\ \A p \in Openers : pc[p] = "busy" => Careful(p)

\* With fewer positions, one that is left still fits.
LEMMA FitsShrinks ==
  ASSUME NEW d, NEW e, NEW i, IsFiniteSet(d.open), e.open \subseteq d.open, Fits(d, i)
  PROVE  Fits(e, i)
<1> DEFINE side == Side(i[2])
<1>1. /\ IsFiniteSet(e.open) /\ Cardinality(e.open) <= Cardinality(d.open)
      /\ Cardinality(e.open) \in Nat /\ Cardinality(d.open) \in Nat
  BY FS_Subset, FS_CardinalityType
<1>2. OpenOn(d, side) \subseteq d.open /\ OpenOn(e, side) \subseteq OpenOn(d, side)
  BY DEF OpenOn
<1>3. IsFiniteSet(OpenOn(d, side))
  BY <1>2, FS_Subset
<1>4. IsFiniteSet(OpenOn(e, side)) /\ Cardinality(OpenOn(e, side)) <= Cardinality(OpenOn(d, side))
  BY <1>2, <1>3, FS_Subset
<1>5. Cardinality(OpenOn(e, side)) \in Nat /\ Cardinality(OpenOn(d, side)) \in Nat
  BY <1>3, <1>4, FS_CardinalityType
<1>6. MaxConcurrent \in Nat /\ MaxSameDirection \in Nat
  BY DatabaseAssumption
<1>7. /\ Cardinality(d.open) <= MaxConcurrent
      /\ Cardinality(OpenOn(d, side)) <= MaxSameDirection
      /\ \A j \in e.open : j[2] = i[2] => j = i
  BY DEF Fits
<1> HIDE DEF side
<1>8. Cardinality(e.open) <= MaxConcurrent
  BY <1>1, <1>6, <1>7
<1>9. Cardinality(OpenOn(e, side)) <= MaxSameDirection
  BY <1>4, <1>5, <1>6, <1>7
<1> QED
  BY <1>7, <1>8, <1>9 DEF Fits, side

\* _gate and get_open_by_symbol: what is opened fits, and what fitted before does so
\* with it.
LEMMA FitsGrows ==
  ASSUME NEW d, NEW e, NEW p, NEW s, IsFiniteSet(d.open),
         e.open = d.open \cup {<<p, s>>}, <<p, s>> \notin d.open,
         ~ Gated(d, s), ~ Held(d, p, s)
  PROVE  /\ IsFiniteSet(e.open)
         /\ Fits(e, <<p, s>>)
         /\ \A i \in d.open : Fits(d, i) => Fits(e, i)
<1> DEFINE new == <<p, s>>
<1>0. new[2] = s
  OBVIOUS
<1>1. MaxConcurrent \in Nat /\ MaxSameDirection \in Nat
  BY DatabaseAssumption
<1>2. /\ IsFiniteSet(e.open) /\ Cardinality(e.open) = Cardinality(d.open) + 1
      /\ Cardinality(d.open) \in Nat
  <2>1. Cardinality(d.open) \in Nat
    BY FS_CardinalityType
  <2>2. IsFiniteSet(d.open \cup {new}) /\ new \notin d.open
    BY FS_AddElement
  <2>3. Cardinality(d.open \cup {new}) = Cardinality(d.open) + 1
    BY <2>2, FS_AddElement
  <2> QED
    BY <2>1, <2>2, <2>3
<1>3. Cardinality(e.open) <= MaxConcurrent
  BY <1>1, <1>2 DEF Gated
<1>4. IsFiniteSet(OpenOn(d, Side(s))) /\ Cardinality(OpenOn(d, Side(s))) \in Nat
  <2>1. OpenOn(d, Side(s)) \subseteq d.open
    BY DEF OpenOn
  <2> QED
    BY <2>1, FS_Subset, FS_CardinalityType
<1>5. OpenOn(e, Side(s)) = OpenOn(d, Side(s)) \cup {new} /\ new \notin OpenOn(d, Side(s))
  BY <1>0 DEF OpenOn
<1>6. Cardinality(OpenOn(e, Side(s))) = Cardinality(OpenOn(d, Side(s))) + 1
  BY <1>4, <1>5, FS_AddElement
<1>7. Cardinality(OpenOn(e, Side(s))) <= MaxSameDirection
  BY <1>1, <1>4, <1>6 DEF Gated
<1>8. \A j \in d.open : j[2] # s
  BY DEF Held
<1>9. Fits(e, new)
  <2>1. \A j \in e.open : j[2] = s => j = new
    BY <1>8
  <2> HIDE DEF new
  <2> QED
    BY <1>0, <1>3, <1>7, <2>1 DEF Fits
<1>10. ASSUME NEW i \in d.open, Fits(d, i) PROVE Fits(e, i)
  <2>1. \A j \in e.open : j[2] = i[2] => j = i
    BY <1>0, <1>8, <1>10 DEF Fits
  <2>2. Cardinality(OpenOn(e, Side(i[2]))) <= MaxSameDirection
    <3>1. CASE Side(i[2]) = Side(s)
      BY <1>7, <3>1
    <3>2. CASE Side(i[2]) # Side(s)
      <4>1. OpenOn(e, Side(i[2])) = OpenOn(d, Side(i[2]))
        BY <1>0, <3>2 DEF OpenOn
      <4> QED
        BY <1>10, <4>1 DEF Fits
    <3> QED
      BY <3>1, <3>2
  <2> QED
    BY <1>3, <2>1, <2>2 DEF Fits
<1> QED
  BY <1>2, <1>9, <1>10

\* A step that opens nothing for good and in which the session of p stays careful.
LEMMA CarefulLocalStep ==
  ASSUME CarefulInv, NEW p \in Processes, SessionStep(p), db'.open = db.open,
         p \in Openers => (pc'[p] = "busy" => Careful(p)')
  PROVE  CarefulInv'
<1>1. ASSUME NEW q \in Openers, pc'[q] = "busy" PROVE Careful(q)'
  <2>1. CASE q = p
    BY <1>1, <2>1
  <2>2. CASE q # p
    <3>1. pc[q] = "busy" /\ seen'[q] = seen[q] /\ view'[q] = view[q]
      BY <1>1, <2>2 DEF SessionStep, Processes
    <3>2. Careful(q)
      BY <3>1 DEF CarefulInv
    <3> QED
      BY <3>1, <3>2 DEF Careful, Opened, Fits, OpenOn
  <2> QED
    BY <2>1, <2>2
<1> QED
  BY <1>1 DEF CarefulInv

\* An opener starts with nothing opened.
LEMMA CarefulBegins ==
  ASSUME CarefulInv, EntryInv, NEW p \in Openers, NEW t \in SUBSET Symbols, Begins(p, db, t)
  PROVE  CarefulInv'
<1>1. SessionStep(p) /\ db' = db /\ p \in Processes /\ seen'[p] = db /\ view'[p] = db
  BY BeginsFacts DEF EntryInv, TypeOK, Processes
<1>2. Opened(p)' = {} /\ IsFiniteSet(view'[p].open)
  BY <1>1 DEF Opened, CarefulInv
<1>3. Careful(p)'
  BY <1>2 DEF Careful
<1> QED
  BY <1>1, <1>3, CarefulLocalStep

\* An opener opens one position at most, and one that fits.
LEMMA CarefulDoes ==
  ASSUME CarefulInv, EntryInv, NEW p \in Openers, NEW s \in Symbols, NEW d \in Database,
         Does(p, s, d), view[p].open \subseteq d.open,
         d.open \subseteq view[p].open \cup {<<p, s>>},
         d.open # view[p].open => ~ Gated(view[p], s) /\ ~ Held(view[p], p, s)
  PROVE  CarefulInv'
<1> DEFINE new == <<p, s>>
<1>1. /\ SessionStep(p) /\ db' = db /\ p \in Processes /\ pc[p] = "busy"
      /\ seen'[p] = seen[p] /\ view'[p] = d
  BY DoesFacts DEF EntryInv, Processes
<1>2. Careful(p)
  BY <1>1 DEF CarefulInv
<1>3. CASE d.open = view[p].open
  <2>1. Opened(p)' = Opened(p)
    BY <1>1, <1>3 DEF Opened
  <2>2. IsFiniteSet(d.open) /\ \A i \in Opened(p) : Fits(d, i)
    BY <1>2, <1>3, FitsShrinks DEF Careful
  <2>3. \A i \in Opened(p)' : Fits(view[p], i)'
    BY <1>1, <2>1, <2>2 DEF Fits, OpenOn
  <2>4. Careful(p)'
    BY <1>1, <2>2, <2>3 DEF Careful
  <2> QED
    BY <1>1, <2>4, CarefulLocalStep
<1>4. CASE d.open # view[p].open
  <2>1. d.open = view[p].open \cup {new} /\ new \notin view[p].open
    BY <1>4
  <2>2. ~ Gated(view[p], s) /\ ~ Held(view[p], p, s) /\ IsFiniteSet(view[p].open)
    BY <1>2, <1>4 DEF Careful
  <2>3. /\ IsFiniteSet(d.open) /\ Fits(d, new)
        /\ \A i \in view[p].open : Fits(view[p], i) => Fits(d, i)
    BY <2>1, <2>2, FitsGrows
  <2>4. Opened(p)' \subseteq Opened(p) \cup {new} /\ Opened(p) \subseteq view[p].open
    BY <1>1, <2>1 DEF Opened
  <2>5. \A i \in Opened(p) : Fits(d, i)
    BY <1>2, <2>3, <2>4 DEF Careful
  <2>6. \A i \in Opened(p)' : Fits(d, i)
    BY <2>3, <2>4, <2>5
  <2>7. \A i \in Opened(p)' : Fits(view[p], i)'
    BY <1>1, <2>6 DEF Fits, OpenOn
  <2>8. Careful(p)'
    BY <1>1, <2>3, <2>7 DEF Careful
  <2> QED
    BY <1>1, <2>8, CarefulLocalStep
<1> QED
  BY <1>3, <1>4

\* A commit adds a finite number of positions and leaves the other sessions alone.
LEMMA CarefulCommits ==
  ASSUME CarefulInv, EntryInv, NEW p \in Processes, Commits(p)
  PROVE  CarefulInv'
<1>1. /\ db'.open \subseteq db.open \cup Opened(p) /\ (p \in Writers => Opened(p) = {})
      /\ SessionStep(p) /\ pc[p] = "busy" /\ pc'[p] = "done"
  BY EntryCommitFacts, MergedType, EndsFacts DEF EntryInv, Commits
<1>2. IsFiniteSet(Opened(p))
  <2>1. CASE p \in Writers
    BY <1>1, <2>1, FS_EmptySet
  <2>2. CASE p \in Openers
    <3>1. Opened(p) \subseteq view[p].open /\ IsFiniteSet(view[p].open)
      BY <1>1, <2>2 DEF CarefulInv, Careful, Opened
    <3> QED
      BY <3>1, FS_Subset
  <2> QED
    BY <2>1, <2>2 DEF Processes, Writers
<1>3. IsFiniteSet(db.open \cup Opened(p))
  BY <1>2, FS_Union DEF CarefulInv
<1>4. IsFiniteSet(db'.open)
  BY <1>1, <1>3, FS_Subset
<1>5. ASSUME NEW q \in Openers, pc'[q] = "busy" PROVE Careful(q)'
  <2>1. pc[q] = "busy" /\ seen'[q] = seen[q] /\ view'[q] = view[q]
    BY <1>1, <1>5 DEF SessionStep, Processes
  <2>2. Careful(q)
    BY <2>1 DEF CarefulInv
  <2> QED
    BY <2>1, <2>2 DEF Careful, Opened, Fits, OpenOn
<1> QED
  BY <1>4, <1>5 DEF CarefulInv

\* Every step keeps the sessions careful.
LEMMA NextCareful == CarefulInv /\ EntryInv /\ [Next]_vars => CarefulInv'
<1> SUFFICES ASSUME CarefulInv, EntryInv, [Next]_vars PROVE CarefulInv'
  OBVIOUS
<1>0. TypeOK /\ db \in Database
  BY DEF EntryInv, TypeOK
<1>1. ASSUME NEW p \in Pipelines, PipelineBegins(p) PROVE CarefulInv'
  BY <1>1, CarefulBegins DEF PipelineBegins, Openers
<1>2. ASSUME NEW p \in Pipelines, NEW s \in Symbols, Persists(p, s) PROVE CarefulInv'
  <2>1. PICK d \in Database :
          /\ Does(p, s, d)
          /\ view[p].open \subseteq d.open
          /\ d.open \subseteq view[p].open \cup {<<p, s>>}
          /\ d.open # view[p].open => ~ Gated(view[p], s) /\ ~ Held(view[p], p, s)
    BY <1>0, <1>2, PersistsFacts, Zenon
  <2> QED
    BY <2>1, CarefulDoes DEF Openers
<1>3. ASSUME NEW p \in Manuals, ManualBegins(p) PROVE CarefulInv'
  <2>1. PICK s \in Symbols : Begins(p, db, {s})
    BY <1>3 DEF ManualBegins
  <2> QED
    BY <2>1, CarefulBegins DEF Openers
<1>4. ASSUME NEW p \in Manuals, NEW s \in Symbols, Enters(p, s) PROVE CarefulInv'
  <2>1. PICK d \in Evaluated(view[p], p, s) : Does(p, s, d)
    BY <1>4 DEF Enters
  <2>2. p \in Openers /\ view[p] \in Database
    BY <1>0 DEF Openers, TypeOK, Processes
  <2>3. /\ d \in Database
        /\ view[p].open \subseteq d.open /\ d.open \subseteq view[p].open \cup {<<p, s>>}
        /\ d.open # view[p].open => ~ Gated(view[p], s) /\ ~ Held(view[p], p, s)
    BY <2>2, EvaluatedFacts
  <2> QED
    BY <2>1, <2>2, <2>3, CarefulDoes
<1>5. ASSUME NEW p \in Writers, SessionStep(p), db'.open = db.open PROVE CarefulInv'
  <2>1. p \in Processes /\ p \notin Openers
    BY Disjoint DEF Processes, Writers
  <2> QED
    BY <1>5, <2>1, CarefulLocalStep
<1>6. ASSUME NEW p \in Writers, NEW d, NEW t, Begins(p, d, t) PROVE CarefulInv'
  BY <1>0, <1>5, <1>6 DEF TypeOK, Begins, SessionStep
<1>7. ASSUME NEW p \in Writers, NEW i, NEW d, Does(p, i, d) PROVE CarefulInv'
  BY <1>0, <1>5, <1>7 DEF TypeOK, Does, SessionStep
<1>8. ASSUME NEW p \in Managers, ManagerBegins(p) PROVE CarefulInv'
  BY <1>6, <1>8 DEF ManagerBegins, Writers
<1>9. ASSUME NEW p \in Closers, CloserBegins(p) PROVE CarefulInv'
  BY <1>6, <1>9 DEF CloserBegins, Writers
<1>10. ASSUME NEW p \in Managers, NEW i \in Positions, Keeps(p, i) PROVE CarefulInv'
  BY <1>7, <1>10 DEF Keeps, Writers
<1>11. ASSUME NEW p \in Managers \cup Closers, NEW i \in Positions, NEW a \in PnlValues,
              Closes(p, i, a)
       PROVE  CarefulInv'
  BY <1>7, <1>11 DEF Closes, Writers
<1>12. ASSUME NEW p \in Processes, Commits(p) PROVE CarefulInv'
  BY <1>12, CarefulCommits
<1>13. ASSUME NEW p \in Processes, RollsBack(p) PROVE CarefulInv'
  <2>1. SessionStep(p) /\ db' = db /\ pc'[p] = "done"
    BY <1>0, <1>13, EndsFacts DEF RollsBack
  <2> QED
    BY <2>1, CarefulLocalStep
<1>14. ASSUME NEW b \in BOOLEAN, SetsHalt(b) PROVE CarefulInv'
  <2>1. db'.open = db.open /\ UNCHANGED <<pc, seen, view, todo>>
    BY <1>0, <1>14 DEF SetsHalt, Database
  <2> QED
    BY <2>1 DEF CarefulInv, Careful, Opened, Fits, OpenOn
<1>15. ASSUME UNCHANGED vars PROVE CarefulInv'
  BY <1>15 DEF vars, CarefulInv, Careful, Opened, Fits, OpenOn
<1> QED
  BY <1>1, <1>2, <1>3, <1>4, <1>8, <1>9, <1>10, <1>11, <1>12, <1>13, <1>14, <1>15 DEF Next

\* What a transaction commits fits, if it saw all that is open.
LEMMA CommitFits ==
  ASSUME CarefulInv, EntryInv, NEW p \in Openers, Commits(p),
         db.open \subseteq seen[p].open, NEW i \in db'.open \ db.open
  PROVE  Fits(db', i)
<1>0. p \in Processes
  BY DEF Processes
<1>1. /\ EntrySession(p) /\ db'.open \subseteq db.open \cup Opened(p) /\ pc[p] = "busy"
  BY <1>0, EntryCommitFacts DEF Commits, Ends
<1>2. Careful(p) /\ seen[p].open \subseteq view[p].open
  BY <1>1 DEF CarefulInv, EntrySession
<1>3. i \in Opened(p) /\ db'.open \subseteq view[p].open
  BY <1>1, <1>2 DEF Opened
<1>4. Fits(view[p], i) /\ IsFiniteSet(view[p].open)
  BY <1>2, <1>3 DEF Careful
<1> QED
  BY <1>3, <1>4, FitsShrinks

\* _gate, get_open_by_symbol: with any pipelines and manual signals at the same time,
\* whatever the isolation, a transaction that exceeds the caps or doubles a symbol has
\* overlapped with another one that opened positions in the meantime.
THEOREM OnlyOverlapsOverfill == Spec => OnlyOverlapsExceed
<1>1. Init => CarefulInv
  <2> SUFFICES ASSUME Init PROVE CarefulInv
    OBVIOUS
  <2>1. IsFiniteSet(db.open)
    BY FS_EmptySet DEF Init, Fresh
  <2> QED
    BY <2>1 DEF Init, CarefulInv, Processes
<1>2. CarefulInv /\ EntryInv /\ [Next]_vars => CarefulInv'
  BY NextCareful
<1>3. CarefulInv /\ EntryInv /\ [Next]_vars
      => [\A p \in Openers :
            Commits(p) /\ db.open \subseteq seen[p].open =>
              \A i \in db'.open \ db.open : Fits(db', i)]_vars
  BY CommitFits
<1> QED
  BY <1>1, <1>2, <1>3, EntryInvariant, PTL DEF Spec, OnlyOverlapsExceed
=============================================================================
