------------------------ MODULE PositionManagerProofs ------------------------
(***************************************************************************)
(* Proofs about PositionManager, for every set of positions, every pnl and *)
(* every number of faults.  ManagerInv is the inductive invariant: what    *)
(* the committed rows promise (Committed), what an unfinished transaction  *)
(* may hold (InSession) and which announcements are still to come          *)
(* (Announcements).                                                        *)
(***************************************************************************)
EXTENDS PositionManager, FoldTheorems

\* The committed rows balance, and the equity counts open positions only.
Committed ==
  /\ balance = InitialBalance + booked
  /\ peak >= balance /\ peak >= InitialBalance
  /\ open \cap closed = {}
  /\ equity.cash = balance
  /\ equity.covers \subseteq open

\* The session's rows balance too; it closes open positions only, each of them
\* already taken from the list, and each of them a trade to dispatch.
InSession ==
  pc = "running" =>
    /\ ses.balance = InitialBalance + ses.booked
    /\ ses.peak >= ses.balance /\ ses.peak >= peak
    /\ ses.closing \subseteq open
    /\ ses.closing = {} => ses.balance = balance /\ ses.peak = peak /\ ses.booked = booked
    /\ todo \subseteq open \ ses.closing
    /\ marks \subseteq open \ (ses.closing \cup todo)
    /\ trades = ses.closing
    /\ carded = {}

\* A trade waiting for its card, and one waiting for its outcome only, is closed
\* and has not been announced yet.
Announcements ==
  /\ pc = "asleep" => trades = {} /\ carded = {}
  /\ pc = "dispatch" =>
       /\ trades \subseteq closed /\ carded \subseteq closed
       /\ trades \cap carded = {}
       /\ \A i \in trades : cards[i] = 0 /\ outcomes[i] = 0
       /\ \A i \in carded : outcomes[i] = 0
  /\ \A i \in Ids :
       /\ cards[i] <= 1 /\ outcomes[i] <= 1
       /\ i \notin closed => cards[i] = 0 /\ outcomes[i] = 0

ManagerInv == TypeOK /\ Committed /\ InSession /\ Announcements

----------------------------------------------------------------------------
(* The session. *)

\* The rows read at the start of a transaction have the type of a session.
LEMMA SnapshotType ==
  ASSUME TypeOK
  PROVE  Snapshot \in SessionType
BY DEF TypeOK, Snapshot, SessionType, EquityType

\* Writing one field of a session, with a value of its type, keeps the type.
LEMMA FieldType ==
  ASSUME NEW s \in SessionType
  PROVE  /\ \A b \in Int : [s EXCEPT !.balance = b] \in SessionType
         /\ \A b \in Int : [s EXCEPT !.booked = b] \in SessionType
         /\ \A b \in Int : [s EXCEPT !.peak = b] \in SessionType
         /\ \A e \in EquityType : [s EXCEPT !.equity = e] \in SessionType
         /\ \A c \in SUBSET Ids : [s EXCEPT !.closing = c] \in SessionType
         /\ \A f \in [Ids -> Int] : [s EXCEPT !.pnl = f] \in SessionType
BY DEF SessionType

\* Booking a close keeps the type of the session.
LEMMA BookingType ==
  ASSUME NEW s \in SessionType, NEW i \in Ids, NEW a \in Int
  PROVE  Booking(s, i, a) \in SessionType
<1> DEFINE e  == [cash |-> s.balance + a, covers |-> {}]
           f  == [s.pnl EXCEPT ![i] = a]
           s1 == [s EXCEPT !.balance = s.balance + a]
           s2 == [s1 EXCEPT !.booked = s.booked + a]
           s3 == [s2 EXCEPT !.peak = Higher(s.peak, s.balance + a)]
           s4 == [s3 EXCEPT !.equity = e]
           s5 == [s4 EXCEPT !.closing = s.closing \cup {i}]
           s6 == [s5 EXCEPT !.pnl = f]
<1>1. e \in EquityType
  BY DEF SessionType, EquityType
<1>2. Higher(s.peak, s.balance + a) \in Int
  BY DEF SessionType, Higher
<1>3. f \in [Ids -> Int]
  BY DEF SessionType
<1>4. /\ s.balance + a \in Int /\ s.booked + a \in Int
      /\ s.closing \cup {i} \in SUBSET Ids
  BY DEF SessionType
<1>5. Booking(s, i, a) = s6
  BY DEF Booking
<1> HIDE DEF e, f
<1>6. s1 \in SessionType
  BY <1>4, FieldType
<1> HIDE DEF s1
<1>7. s2 \in SessionType
  BY <1>4, <1>6, FieldType
<1> HIDE DEF s2
<1>8. s3 \in SessionType
  BY <1>2, <1>7, FieldType
<1> HIDE DEF s3
<1>9. s4 \in SessionType
  BY <1>1, <1>8, FieldType
<1> HIDE DEF s4
<1>10. s5 \in SessionType
  BY <1>4, <1>9, FieldType
<1> HIDE DEF s5
<1>11. s6 \in SessionType
  BY <1>3, <1>10, FieldType
<1> QED
  BY <1>5, <1>11

\* What booking a close does to the fields that the invariant speaks of.
LEMMA BookingFields ==
  ASSUME NEW s \in SessionType, NEW i \in Ids, NEW a \in Int
  PROVE  /\ Booking(s, i, a).balance = s.balance + a
         /\ Booking(s, i, a).booked = s.booked + a
         /\ Booking(s, i, a).closing = s.closing \cup {i}
         /\ Booking(s, i, a).peak >= s.peak
         /\ Booking(s, i, a).peak >= s.balance + a
BY DEF SessionType, Booking, Higher

\* Storing a stop stage changes nothing else in the session.
LEMMA StageFields ==
  ASSUME NEW s \in SessionType, NEW i \in Ids, NEW g \in Stages
  PROVE  LET t == [s EXCEPT !.stage[i] = g]
         IN  /\ t \in SessionType
             /\ t.balance = s.balance /\ t.booked = s.booked /\ t.peak = s.peak
             /\ t.closing = s.closing
<1> DEFINE t == [s EXCEPT !.stage[i] = g]
<1>1. [s.stage EXCEPT ![i] = g] \in [Ids -> Stages]
  BY DEF SessionType
<1>2. t = [s EXCEPT !.stage = [s.stage EXCEPT ![i] = g]]
  OBVIOUS
<1>3. t \in SessionType
  BY <1>1, <1>2 DEF SessionType
<1>4. /\ t.balance = s.balance /\ t.booked = s.booked /\ t.peak = s.peak
      /\ t.closing = s.closing
  BY DEF SessionType
<1> QED
  BY <1>3, <1>4

----------------------------------------------------------------------------
(* Type correctness. *)

\* The first state has the types.
LEMMA InitType == Init => TypeOK
BY ManagerAssumption DEF Init, TypeOK, Snapshot, SessionType, EquityType, Stages

\* Every step keeps the types.
LEMMA NextType == TypeOK /\ [Next]_vars => TypeOK'
<1> SUFFICES ASSUME TypeOK, [Next]_vars PROVE TypeOK'
  OBVIOUS
<1> USE DEF dbVars, procVars, worldVars
<1>1. ASSUME NEW i \in Ids, WorkerOpens(i) PROVE TypeOK'
  BY <1>1 DEF WorkerOpens, TypeOK
<1>2. ASSUME NEW i \in Ids, MarketReaches(i) PROVE TypeOK'
  BY <1>2 DEF MarketReaches, TypeOK
<1>3. ASSUME Wake PROVE TypeOK'
  BY <1>3, SnapshotType DEF Wake, TypeOK
<1>4. ASSUME NEW i \in Ids, Passes(i) PROVE TypeOK'
  BY <1>4 DEF Passes, TypeOK
<1>5. ASSUME SessionLost, UNCHANGED dbVars, UNCHANGED <<due, cards, outcomes>>,
             faults' \in Nat
      PROVE  TypeOK'
  BY <1>5, SnapshotType DEF SessionLost, TypeOK
<1>6. ASSUME NEW i \in Ids, WriteFails(i) PROVE TypeOK'
  BY <1>5, <1>6 DEF WriteFails, TypeOK
<1>7. ASSUME NEW i \in Ids, NEW s \in Stages, Holds(i, s) PROVE TypeOK'
  <2>1. ses \in SessionType
    BY DEF TypeOK
  <2>2. ses' \in SessionType
    BY <1>7, <2>1, StageFields DEF Holds
  <2>3. moves' \subseteq Ids /\ marks' \subseteq Ids /\ todo' \subseteq Ids
    BY <1>7 DEF Holds, TypeOK
  <2> QED
    BY <1>7, <2>2, <2>3 DEF Holds, TypeOK
<1>8. ASSUME NEW i \in Ids, NEW a \in PnlValues, Closes(i, a) PROVE TypeOK'
  <2>1. ses' \in SessionType
    BY <1>8, BookingType, ManagerAssumption DEF Closes, TypeOK
  <2> QED
    BY <1>8, <2>1 DEF Closes, TypeOK
<1>9. ASSUME CycleFails PROVE TypeOK'
  BY <1>5, <1>9 DEF CycleFails, TypeOK
<1>10. ASSUME Commits PROVE TypeOK'
  BY <1>10 DEF Commits, Refreshed, TypeOK, SessionType, EquityType
<1>11. ASSUME NEW i \in Ids, SendsCard(i) PROVE TypeOK'
  BY <1>11 DEF SendsCard, TypeOK
<1>12. ASSUME NEW i \in Ids, RecordsOutcome(i) PROVE TypeOK'
  BY <1>12 DEF RecordsOutcome, TypeOK
<1>13. ASSUME NEW i \in Ids, SendsMove(i) PROVE TypeOK'
  BY <1>13 DEF SendsMove, TypeOK
<1>14. ASSUME Sleeps PROVE TypeOK'
  BY <1>5, <1>14 DEF Sleeps, TypeOK
<1>15. ASSUME DispatchDies PROVE TypeOK'
  BY <1>5, <1>15 DEF DispatchDies, TypeOK
<1>16. ASSUME UNCHANGED vars PROVE TypeOK'
  BY <1>16 DEF vars, TypeOK
<1> QED
  BY <1>1, <1>2, <1>3, <1>4, <1>6, <1>7, <1>8, <1>9, <1>10, <1>11, <1>12, <1>13,
     <1>14, <1>15, <1>16 DEF Next

\* Every variable keeps its type in every behaviour.
THEOREM TypeCorrect == Spec => []TypeOK
<1>1. Init => TypeOK
  BY InitType
<1>2. TypeOK /\ [Next]_vars => TypeOK'
  BY NextType
<1> QED
  BY <1>1, <1>2, PTL DEF Spec

----------------------------------------------------------------------------
(* The invariant. *)

\* The first state satisfies the invariant.
LEMMA InitInv == Init => ManagerInv
<1> SUFFICES ASSUME Init PROVE ManagerInv
  OBVIOUS
<1>1. TypeOK
  BY InitType
<1>2. Committed
  BY ManagerAssumption DEF Init, Committed
<1>3. InSession /\ Announcements
  BY DEF Init, InSession, Announcements
<1> QED
  BY <1>1, <1>2, <1>3 DEF ManagerInv

\* A cycle that ends without a commit keeps the invariant: the rows are those
\* of before, and nothing of the session is left.
LEMMA LostInv ==
  ASSUME ManagerInv, SessionLost, UNCHANGED dbVars, UNCHANGED <<due, cards, outcomes>>
  PROVE  Committed' /\ InSession' /\ Announcements'
<1>1. Committed'
  BY DEF ManagerInv, Committed, dbVars
<1>2. InSession'
  BY DEF SessionLost, InSession
<1>3. Announcements'
  BY DEF ManagerInv, Announcements, SessionLost, dbVars
<1> QED
  BY <1>1, <1>2, <1>3

\* The commit publishes the session: its rows balance, its closes leave the open
\* positions and become the trades to dispatch.
LEMMA CommitsInv ==
  ASSUME ManagerInv, Commits
  PROVE  Committed' /\ InSession' /\ Announcements'
<1>1. /\ ses.balance = InitialBalance + ses.booked
      /\ ses.peak >= ses.balance /\ ses.peak >= peak
      /\ ses.closing \subseteq open
      /\ marks \subseteq open \ ses.closing
      /\ trades = ses.closing /\ carded = {}
  BY DEF Commits, ManagerInv, InSession
<1>2. /\ ses.balance \in Int /\ ses.peak \in Int /\ peak \in Int
      /\ peak >= InitialBalance /\ open \cap closed = {}
  BY DEF ManagerInv, TypeOK, SessionType, Committed
<1>3. Committed'
  <2>1. balance' = InitialBalance + booked'
    BY <1>1 DEF Commits
  <2>2. peak' >= balance' /\ peak' >= InitialBalance
    BY <1>1, <1>2, ManagerAssumption DEF Commits
  <2>3. open' \cap closed' = {}
    BY <1>1, <1>2 DEF Commits
  <2>4. equity'.cash = balance' /\ equity'.covers \subseteq open'
    BY <1>1 DEF Commits, Refreshed
  <2> QED
    BY <2>1, <2>2, <2>3, <2>4 DEF Committed
<1>4. InSession'
  BY DEF Commits, InSession
<1>5. Announcements'
  <2>1. \A i \in Ids : /\ cards[i] <= 1 /\ outcomes[i] <= 1
                       /\ i \notin closed => cards[i] = 0 /\ outcomes[i] = 0
    BY DEF ManagerInv, Announcements
  <2>2. /\ cards' = cards /\ outcomes' = outcomes /\ pc' = "dispatch"
        /\ closed' = closed \cup ses.closing
        /\ trades' = ses.closing /\ carded' = {}
    BY <1>1 DEF Commits, worldVars
  <2>3. ses.closing \cap closed = {} /\ ses.closing \subseteq Ids
    BY <1>1, <1>2 DEF ManagerInv, TypeOK
  <2> QED
    BY <2>1, <2>2, <2>3 DEF Announcements
<1> QED
  BY <1>3, <1>4, <1>5

\* A close moves the position from the list to the closes of the session, and
\* books the same amount into the balance and the events.
LEMMA ClosesInv ==
  ASSUME ManagerInv, NEW i \in Ids, NEW a \in PnlValues, Closes(i, a)
  PROVE  Committed' /\ InSession' /\ Announcements'
<1>1. Committed'
  BY DEF ManagerInv, Committed, Closes, dbVars
<1>2. InSession'
  <2>1. /\ ses.balance = InitialBalance + ses.booked
        /\ ses.peak >= ses.balance /\ ses.peak >= peak
        /\ ses.closing \subseteq open
        /\ todo \subseteq open \ ses.closing
        /\ marks \subseteq open \ ses.closing
        /\ trades = ses.closing /\ carded = {}
        /\ marks \cap todo = {}
    BY DEF ManagerInv, InSession, Closes
  <2>2. ses \in SessionType /\ a \in Int /\ ses' = Booking(ses, i, a)
    BY ManagerAssumption DEF ManagerInv, TypeOK, Closes
  <2>3. /\ ses'.balance = ses.balance + a
        /\ ses'.booked = ses.booked + a
        /\ ses'.closing = ses.closing \cup {i}
        /\ ses'.peak >= ses.peak /\ ses'.peak >= ses.balance + a
    BY <2>2, BookingFields
  <2>4. /\ ses.balance \in Int /\ ses.booked \in Int /\ ses.peak \in Int
        /\ ses'.peak \in Int /\ peak \in Int
    BY <2>2, BookingType DEF ManagerInv, TypeOK, SessionType
  <2>5. ses'.balance = InitialBalance + ses'.booked
    BY <2>1, <2>2, <2>3, <2>4, ManagerAssumption
  <2>6. ses'.peak >= ses'.balance /\ ses'.peak >= peak
    BY <2>1, <2>3, <2>4
  <2>7. /\ ses'.closing \subseteq open /\ ses'.closing # {}
        /\ todo' \subseteq open \ ses'.closing
        /\ marks' \subseteq open \ (ses'.closing \cup todo')
        /\ trades' = ses'.closing /\ carded' = {}
    BY <2>1, <2>3 DEF Closes
  <2> QED
    BY <2>5, <2>6, <2>7 DEF InSession, Closes, dbVars
<1>3. Announcements'
  BY DEF ManagerInv, Announcements, Closes, dbVars, worldVars
<1> QED
  BY <1>1, <1>2, <1>3

\* Every step keeps the invariant.
LEMMA NextInv == ManagerInv /\ [Next]_vars => ManagerInv'
<1> SUFFICES ASSUME ManagerInv, [Next]_vars PROVE ManagerInv'
  OBVIOUS
<1> DEFINE Rest == Committed /\ InSession /\ Announcements
<1> USE DEF dbVars, procVars, worldVars
<1>1. TypeOK /\ TypeOK'
  BY NextType DEF ManagerInv
<1>2. ASSUME NEW i \in Ids, WorkerOpens(i) PROVE Rest'
  <2>1. Committed'
    BY <1>2 DEF WorkerOpens, ManagerInv, Committed
  <2>2. InSession'
    BY <1>2 DEF WorkerOpens, ManagerInv, InSession
  <2>3. Announcements'
    BY <1>2 DEF WorkerOpens, ManagerInv, Announcements
  <2> QED
    BY <2>1, <2>2, <2>3
<1>3. ASSUME NEW i \in Ids, MarketReaches(i) PROVE Rest'
  BY <1>3 DEF MarketReaches, ManagerInv, Committed, InSession, Announcements
<1>4. ASSUME Wake PROVE Rest'
  <2>1. Committed'
    BY <1>4 DEF Wake, ManagerInv, Committed
  <2>2. InSession'
    <3>1. /\ ses'.balance = balance /\ ses'.booked = booked /\ ses'.peak = peak
          /\ ses'.closing = {}
      BY <1>4 DEF Wake, Snapshot
    <3>2. /\ balance \in Int /\ peak \in Int /\ balance = InitialBalance + booked
          /\ peak >= balance /\ trades = {} /\ carded = {}
      BY <1>4 DEF Wake, ManagerInv, TypeOK, Committed, Announcements
    <3>3. todo' = open /\ marks' = {} /\ trades' = {} /\ carded' = {}
      BY <1>4, <3>2 DEF Wake
    <3> QED
      BY <1>4, <3>1, <3>2, <3>3 DEF Wake, InSession
  <2>3. Announcements'
    BY <1>4 DEF Wake, ManagerInv, Announcements
  <2> QED
    BY <2>1, <2>2, <2>3
<1>5. ASSUME NEW i \in Ids, Passes(i) PROVE Rest'
  <2>1. Committed' /\ Announcements'
    BY <1>5 DEF Passes, ManagerInv, Committed, Announcements
  <2>2. InSession'
    BY <1>5 DEF Passes, ManagerInv, InSession
  <2> QED
    BY <2>1, <2>2
<1>6. ASSUME NEW i \in Ids, WriteFails(i) PROVE Rest'
  BY <1>6, LostInv DEF WriteFails
<1>7. ASSUME NEW i \in Ids, NEW s \in Stages, Holds(i, s) PROVE Rest'
  <2>1. Committed' /\ Announcements'
    BY <1>7 DEF Holds, ManagerInv, Committed, Announcements
  <2>2. /\ ses'.balance = ses.balance /\ ses'.booked = ses.booked
        /\ ses'.peak = ses.peak /\ ses'.closing = ses.closing
    BY <1>1, <1>7, StageFields DEF Holds, TypeOK
  <2>3. InSession'
    BY <1>7, <2>2 DEF Holds, ManagerInv, InSession
  <2> QED
    BY <2>1, <2>3
<1>8. ASSUME NEW i \in Ids, NEW a \in PnlValues, Closes(i, a) PROVE Rest'
  BY <1>8, ClosesInv
<1>9. ASSUME CycleFails PROVE Rest'
  BY <1>9, LostInv DEF CycleFails
<1>10. ASSUME Commits PROVE Rest'
  BY <1>10, CommitsInv
<1>11. ASSUME NEW i \in Ids, SendsCard(i) PROVE Rest'
  <2>1. Committed' /\ InSession'
    BY <1>11 DEF SendsCard, ManagerInv, Committed, InSession
  <2>2. /\ trades \subseteq closed /\ i \in trades /\ closed' = closed
        /\ cards[i] = 0 /\ outcomes[i] = 0
        /\ pc' = "dispatch" /\ trades' = trades \ {i} /\ carded' = {i}
        /\ outcomes' = outcomes
    BY <1>11 DEF SendsCard, ManagerInv, Announcements
  <2>3. /\ cards' \in [Ids -> Nat] /\ cards'[i] \in {0, 1}
        /\ \A j \in Ids : j # i => cards'[j] = cards[j]
    BY <1>1, <1>11, <2>2 DEF SendsCard, TypeOK
  <2>4. Announcements'
    BY <1>1, <1>11, <2>2, <2>3 DEF SendsCard, ManagerInv, Announcements, TypeOK
  <2> QED
    BY <2>1, <2>4
<1>12. ASSUME NEW i \in Ids, RecordsOutcome(i) PROVE Rest'
  <2>1. Committed' /\ InSession'
    BY <1>12 DEF RecordsOutcome, ManagerInv, Committed, InSession
  <2>2. /\ i \in closed /\ closed' = closed /\ i \notin trades /\ outcomes[i] = 0
        /\ trades \subseteq closed
        /\ pc' = "dispatch" /\ trades' = trades /\ carded' = {} /\ cards' = cards
    BY <1>12 DEF RecordsOutcome, ManagerInv, Announcements
  <2>3. /\ outcomes' \in [Ids -> Nat] /\ outcomes'[i] \in {0, 1}
        /\ \A j \in Ids : j # i => outcomes'[j] = outcomes[j]
    BY <1>1, <1>12, <2>2 DEF RecordsOutcome, TypeOK
  <2>4. Announcements'
    BY <1>1, <1>12, <2>2, <2>3 DEF RecordsOutcome, ManagerInv, Announcements, TypeOK
  <2> QED
    BY <2>1, <2>4
<1>13. ASSUME NEW i \in Ids, SendsMove(i) PROVE Rest'
  BY <1>13 DEF SendsMove, ManagerInv, Committed, InSession, Announcements
<1>14. ASSUME Sleeps PROVE Rest'
  BY <1>14, LostInv DEF Sleeps
<1>15. ASSUME DispatchDies PROVE Rest'
  BY <1>15, LostInv DEF DispatchDies
<1>16. ASSUME UNCHANGED vars PROVE Rest'
  BY <1>16 DEF vars, ManagerInv, Committed, InSession, Announcements
<1>17. Rest'
  BY <1>2, <1>3, <1>4, <1>5, <1>6, <1>7, <1>8, <1>9, <1>10, <1>11, <1>12, <1>13,
     <1>14, <1>15, <1>16 DEF Next
<1> QED
  BY <1>1, <1>17 DEF ManagerInv

\* The invariant holds throughout.
LEMMA ManagerInvariant == Spec => []ManagerInv
<1>1. Init => ManagerInv
  BY InitInv
<1>2. ManagerInv /\ [Next]_vars => ManagerInv'
  BY NextInv
<1> QED
  BY <1>1, <1>2, PTL DEF Spec

----------------------------------------------------------------------------
(* What follows from it. *)

\* The high-water mark that entry/manager.py's drawdown breaker reads is never
\* below the balance, whatever is rolled back.
THEOREM HighWater == Spec => []PeakIsHighWater
<1>1. ManagerInv => PeakIsHighWater
  BY DEF ManagerInv, Committed, PeakIsHighWater
<1> QED
  BY <1>1, ManagerInvariant, PTL

\* The committed equity never counts a closed position (_close, _refresh_equity).
THEOREM EquityIsCurrent == Spec => []EquityCountsOpenOnly
<1>1. ManagerInv => EquityCountsOpenOnly
  BY DEF ManagerInv, Committed, EquityCountsOpenOnly
<1> QED
  BY <1>1, ManagerInvariant, PTL

\* dispatch.py: side effects after the commit are neither premature nor repeated.
THEOREM NoDuplicateAnnouncement == Spec => []AnnouncedOnce
<1>1. ManagerInv => AnnouncedOnce
  <2> SUFFICES ASSUME ManagerInv, NEW i \in Ids
               PROVE  /\ cards[i] <= 1 /\ outcomes[i] <= 1
                      /\ cards[i] + outcomes[i] > 0 => i \in closed
    BY DEF AnnouncedOnce
  <2>1. /\ cards[i] <= 1 /\ outcomes[i] <= 1
        /\ i \notin closed => cards[i] = 0 /\ outcomes[i] = 0
    BY DEF ManagerInv, Announcements
  <2> QED
    BY <2>1
<1> QED
  BY <1>1, ManagerInvariant, PTL

\* The cycle, with its sessions, failures and crashes, implements the account
\* that settles each position at most once: a commit is a settlement of the
\* positions the session closed, and every other step of it is invisible.
THEOREM CycleImplementsLedger == Spec => ImplementsLedger
<1>1. Init => L!LedgerInit
  BY DEF Init, L!LedgerInit
<1>2. ManagerInv /\ [Next]_vars => [L!LedgerNext]_(L!ledgerVars)
  <2> SUFFICES ASSUME ManagerInv, [Next]_vars
               PROVE  L!LedgerNext \/ UNCHANGED L!ledgerVars
    OBVIOUS
  <2> USE DEF dbVars, L!ledgerVars
  <2>1. ASSUME NEW i \in Ids, WorkerOpens(i) PROVE L!LedgerNext
    <3>1. L!Enter({i}) /\ {i} \in SUBSET Ids
      BY <2>1 DEF WorkerOpens, L!Enter
    <3> QED
      BY <3>1 DEF L!LedgerNext
  <2>2. ASSUME Commits PROVE L!LedgerNext \/ UNCHANGED L!ledgerVars
    <3>1. /\ ses.balance = InitialBalance + ses.booked
          /\ ses.peak >= ses.balance /\ ses.peak >= peak
          /\ ses.closing \subseteq open
          /\ ses.closing = {} =>
               ses.balance = balance /\ ses.peak = peak /\ ses.booked = booked
      BY <2>2 DEF Commits, ManagerInv, InSession
    <3>2. CASE ses.closing = {}
      BY <2>2, <3>1, <3>2 DEF Commits
    <3>3. CASE ses.closing # {}
      <4>1. /\ balance = InitialBalance + booked /\ balance \in Int /\ booked \in Int
            /\ ses.balance \in Int /\ ses.booked \in Int /\ ses.peak \in Int
            /\ open \subseteq Ids
        BY DEF ManagerInv, Committed, TypeOK, SessionType
      <4>2. /\ balance' = ses.balance /\ booked' = ses.booked /\ peak' = ses.peak
            /\ open' = open \ ses.closing /\ closed' = closed \cup ses.closing
        BY <2>2 DEF Commits
      <4>3. booked' = booked + (balance' - balance)
        BY <3>1, <4>1, <4>2, ManagerAssumption
      <4>4. L!Settle(ses.closing)
        BY <3>1, <3>3, <4>1, <4>2, <4>3 DEF L!Settle
      <4> QED
        BY <3>1, <4>1, <4>4 DEF L!LedgerNext
    <3> QED
      BY <3>2, <3>3
  <2>3. CASE /\ ~ (\E i \in Ids : WorkerOpens(i))
             /\ ~ Commits
    <3>1. UNCHANGED dbVars
      BY <2>3 DEF Next, vars, MarketReaches, Wake, Passes, Holds, Closes, WriteFails,
         CycleFails, SendsCard, RecordsOutcome, SendsMove, Sleeps, DispatchDies
    <3> QED
      BY <3>1
  <2> QED
    BY <2>1, <2>2, <2>3
<1> QED
  BY <1>1, <1>2, ManagerInvariant, PTL DEF Spec, ImplementsLedger, L!LedgerSpec

----------------------------------------------------------------------------
(* The events and the rows. *)

\* The committed total is the sum of the committed rows, and so it is in the
\* session, over the positions closed before and in it.
Booked ==
  /\ IsFiniteSet(closed) /\ booked = SumOver(pnl, closed)
  /\ pc = "running" =>
       /\ IsFiniteSet(closed \cup ses.closing)
       /\ ses.booked = SumOver(ses.pnl, closed \cup ses.closing)

\* What booking a close does to the pnl column.
LEMMA BookingPnl ==
  ASSUME NEW s \in SessionType, NEW i \in Ids, NEW a \in Int
  PROVE  Booking(s, i, a).pnl = [s.pnl EXCEPT ![i] = a]
BY DEF SessionType, Booking

\* A close adds its pnl to both.
LEMMA BookedCloses ==
  ASSUME ManagerInv, Booked, NEW i \in Ids, NEW a \in PnlValues, Closes(i, a)
  PROVE  Booked'
<1> DEFINE was == closed \cup ses.closing
           f == ses'.pnl
<1>1. /\ pc = "running" /\ i \notin was /\ was \subseteq Ids
      /\ ses \in SessionType /\ a \in Int
  BY ManagerAssumption DEF Closes, ManagerInv, TypeOK, Committed, InSession
<1>2. /\ ses'.booked = ses.booked + a /\ ses'.closing = ses.closing \cup {i}
      /\ f = [ses.pnl EXCEPT ![i] = a]
  BY <1>1, BookingFields, BookingPnl DEF Closes
<1>3. /\ f \in [Ids -> Int] /\ ses.pnl \in [Ids -> Int]
      /\ f[i] = a /\ \A j \in was : f[j] = ses.pnl[j]
  BY <1>1, <1>2 DEF SessionType
<1>4. /\ IntOn(f, was \cup {i}) /\ IntOn(ses.pnl, was)
      /\ IsFiniteSet(was) /\ ses.booked = SumOver(ses.pnl, was)
  BY <1>1, <1>3 DEF IntOn, Booked
<1>5. closed' = closed /\ pnl' = pnl /\ booked' = booked
  BY DEF Closes, dbVars
<1>6. closed' \cup ses'.closing = was \cup {i}
  BY <1>2, <1>5
<1> HIDE DEF was, f
<1>7. SumOver(f, was) = SumOver(ses.pnl, was)
  BY <1>3, <1>4, SumSame
<1>8. SumOver(f, was \cup {i}) = SumOver(f, was) + f[i]
  BY <1>1, <1>4, SumAdd
<1>9. IsFiniteSet(was \cup {i})
  BY <1>4, FS_AddElement
<1>10. ses'.booked = SumOver(f, was \cup {i})
  BY <1>2, <1>3, <1>4, <1>7, <1>8
<1> QED
  BY <1>5, <1>6, <1>9, <1>10 DEF Booked, f

\* Every step keeps the sums.
LEMMA NextBooked == ManagerInv /\ Booked /\ [Next]_vars => Booked'
<1> SUFFICES ASSUME ManagerInv, Booked, [Next]_vars PROVE Booked'
  OBVIOUS
<1> USE DEF dbVars, procVars, worldVars
<1>1. ASSUME Wake PROVE Booked'
  <2>1. /\ ses'.booked = booked /\ ses'.pnl = pnl /\ ses'.closing = {}
        /\ closed' = closed /\ pnl' = pnl /\ booked' = booked
    BY <1>1 DEF Wake, Snapshot
  <2>2. closed' \cup ses'.closing = closed
    BY <2>1
  <2> QED
    BY <2>1, <2>2 DEF Booked
<1>2. ASSUME NEW i \in Ids, NEW s \in Stages, Holds(i, s) PROVE Booked'
  <2>1. ses'.booked = ses.booked /\ ses'.pnl = ses.pnl /\ ses'.closing = ses.closing
    BY <1>2 DEF Holds, ManagerInv, TypeOK, SessionType
  <2> QED
    BY <1>2, <2>1 DEF Holds, Booked
<1>3. ASSUME NEW i \in Ids, NEW a \in PnlValues, Closes(i, a) PROVE Booked'
  BY <1>3, BookedCloses
<1>4. ASSUME Commits PROVE Booked'
  BY <1>4 DEF Commits, Booked
<1>5. ASSUME UNCHANGED <<booked, pnl, closed>>,
             pc' = "running" => pc = "running" /\ ses' = ses
      PROVE  Booked'
  BY <1>5 DEF Booked
<1>6. ASSUME NEW i \in Ids,
             WorkerOpens(i) \/ MarketReaches(i) \/ Passes(i) \/ WriteFails(i)
             \/ SendsCard(i) \/ RecordsOutcome(i) \/ SendsMove(i)
      PROVE  Booked'
  BY <1>5, <1>6 DEF WorkerOpens, MarketReaches, Passes, WriteFails, SendsCard,
     RecordsOutcome, SendsMove, SessionLost
<1>7. ASSUME CycleFails \/ Sleeps \/ DispatchDies \/ UNCHANGED vars PROVE Booked'
  BY <1>5, <1>7 DEF CycleFails, Sleeps, DispatchDies, SessionLost, vars
<1> QED
  BY <1>1, <1>2, <1>3, <1>4, <1>6, <1>7 DEF Next

\* _close: however many positions there are and whatever fails or is killed, the
\* POSITION_CLOSED events add up to realized_pnl of the closed positions.
THEOREM EventsAddUp == Spec => []EventsMatchPositions
<1>1. Init => Booked
  BY SumEmpty, FS_EmptySet DEF Init, Booked
<1>2. ManagerInv /\ Booked /\ [Next]_vars => Booked'
  BY NextBooked
<1>3. Booked => EventsMatchPositions
  BY DEF Booked, EventsMatchPositions, SumOver
<1> QED
  BY <1>1, <1>2, <1>3, ManagerInvariant, PTL DEF Spec
=============================================================================
