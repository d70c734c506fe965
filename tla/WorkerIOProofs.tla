--------------------------- MODULE WorkerIOProofs ---------------------------
(***************************************************************************)
(* Proofs about the worker's clock and about the CoinGlass client, for any *)
(* requests, limits and lengths of time: a bar without a run began during  *)
(* a run; the gate is shut exactly while a task is there to open it, so    *)
(* nobody waits for a gate that stays shut; nothing is sent during a       *)
(* pause; and no more is sent in an interval than the limiter and the      *)
(* semaphore let pass together.                                            *)
(***************************************************************************)
EXTENDS CoinGlass, Scheduler, FoldTheorems

----------------------------------------------------------------------------
(* The clock of the worker. *)

\* A moment lies in its bar.
LEMMA BarHolds ==
  ASSUME NEW t \in Int, NEW c \in Int, c > 0
  PROVE  /\ t \div c \in Int
         /\ (t \div c) * c <= t
         /\ t < (t \div c + 1) * c
  <1>1. t \div c \in Int /\ t % c \in 0 .. c - 1
    OBVIOUS
  <1>2. t = c * (t \div c) + (t % c)
    BY Z3
  <1> QED
    BY <1>1, <1>2

\* The bar of a moment is the only one it lies in.
LEMMA BarIs ==
  ASSUME NEW t \in Int, NEW c \in Int, c > 0, NEW q \in Int, q * c <= t, t < (q + 1) * c
  PROVE  t \div c = q
  BY SMT

\* A moment that does not begin a bar is in the bar of the moment before, and one
\* that does is in the next at most.
LEMMA BarGoesOn ==
  ASSUME NEW t \in Int, NEW c \in Int, c > 0
  PROVE  /\ (t + 1) \div c \in {t \div c, t \div c + 1}
         /\ (t + 1) % c # 0 => (t + 1) \div c = t \div c
  <1> DEFINE q == t \div c
             p == (t + 1) \div c
  <1>1. q \in Int /\ q * c <= t /\ t < (q + 1) * c
    BY BarHolds
  <1>2. p \in Int /\ p * c <= t + 1 /\ t + 1 < (p + 1) * c
    BY BarHolds
  <1>3. t + 1 = c * p + ((t + 1) % c) /\ (t + 1) % c \in Int
    BY Z3
  <1>4. CASE t + 1 < (q + 1) * c
    BY <1>1, <1>4, BarIs
  <1>5. CASE t + 1 = (q + 1) * c
    <2>1. (q + 1) * c <= t + 1 /\ t + 1 < (q + 2) * c
      BY <1>1, <1>5
    <2>2. p = q + 1
      BY <1>1, <2>1, BarIs
    <2>3. (t + 1) % c = 0
      BY <1>1, <1>3, <1>5, <2>2
    <2> QED
      BY <2>2, <2>3
  <1> QED
    BY <1>1, <1>4, <1>5

\* Every bar up to b had its run, or began during one.
Served(b) == \A a \in first .. b : a \in ran \cup overrun

\* What makes SkipsOnlyWhenBusy inductive.  During a run every bar is served; a
\* sleep ends behind the close of the bar in which it began, up to which every bar
\* is served, and the clock does not pass its end.
ScheduleInv ==
  /\ clock \in Nat /\ first \in Int /\ first <= Bar(clock)
  /\ phase \in {"run", "sleep", "stopped"} /\ stop \in BOOLEAN
  /\ phase = "run" => Served(Bar(clock))
  /\ phase = "sleep" =>
       \E b \in Int : /\ first <= b /\ b <= Bar(clock) /\ Served(b)
                      /\ wake = (b + 1) * Cycle + Lag /\ clock <= wake

\* A worker that starts runs at once.
LEMMA ScheduleInit == SchedulerAssumption /\ SchedulerInit => ScheduleInv
  <1> SUFFICES ASSUME SchedulerAssumption, SchedulerInit
               PROVE  ScheduleInv
    OBVIOUS
  <1>1. clock \in Nat
    BY DEF SchedulerAssumption, SchedulerInit
  <1>2. Bar(clock) \in Int
    BY <1>1, BarHolds DEF SchedulerAssumption, Bar
  <1>3. first = Bar(clock) /\ ran = {first} /\ phase = "run" /\ stop = FALSE
    BY DEF SchedulerInit
  <1>4. Served(Bar(clock))
    BY <1>2, <1>3 DEF Served
  <1>5. first \in Int /\ first <= Bar(clock) /\ phase # "sleep"
    BY <1>2, <1>3
  <1> QED
    BY <1>1, <1>3, <1>4, <1>5 DEF ScheduleInv

\* The invariant is inductive: a run ends in a bar that is served, and a sleep in
\* the bar behind the one in which it began.
LEMMA ScheduleStep ==
  ASSUME SchedulerAssumption, ScheduleInv, [SchedulerNext]_schedulerVars
  PROVE  ScheduleInv'
  <1>0. Cycle \in Int /\ Cycle > 0 /\ Lag \in Int /\ 0 < Lag /\ Lag < Cycle
    BY DEF SchedulerAssumption
  <1>1. /\ clock \in Nat /\ clock \in Int
        /\ Bar(clock) \in Int /\ Bar(clock) * Cycle <= clock
        /\ clock < (Bar(clock) + 1) * Cycle
    BY <1>0, BarHolds DEF ScheduleInv, Bar
  <1>2. CASE EndRun
    <2> DEFINE b == Bar(clock)
    <2>1. Served(b) /\ first \in Int /\ first <= b
      BY <1>2 DEF ScheduleInv, EndRun
    <2>2. /\ UNCHANGED <<clock, first, ran, overrun, stop>>
          /\ wake' = (b + 1) * Cycle + Lag
          /\ phase' \in {"stopped", "sleep"}
      BY <1>2 DEF EndRun, NextTick
    <2>3. Served(b)' /\ Bar(clock)' = b
      BY <2>1, <2>2 DEF Served, Bar
    <2>4. b \in Int /\ clock <= (b + 1) * Cycle + Lag
      BY <1>0, <1>1
    <2> HIDE DEF b
    <2> QED
      BY <1>1, <2>1, <2>2, <2>3, <2>4 DEF ScheduleInv, Served
  <1>3. CASE BeginRun
    <2>1. PICK b \in Int : /\ first <= b /\ b <= Bar(clock) /\ Served(b)
                           /\ wake = (b + 1) * Cycle + Lag /\ clock <= wake
      BY <1>3 DEF ScheduleInv, BeginRun
    <2>2. clock = (b + 1) * Cycle + Lag
      BY <1>0, <1>1, <1>3, <2>1 DEF BeginRun
    <2>3. (b + 1) * Cycle <= clock /\ clock < (b + 1 + 1) * Cycle
      BY <1>0, <2>1, <2>2
    <2>4. Bar(clock) = b + 1
      BY <1>0, <1>1, <2>1, <2>3, BarIs DEF Bar
    <2>5. /\ UNCHANGED <<clock, first, overrun, stop>> /\ phase' = "run"
          /\ ran' = ran \cup {b + 1}
      BY <1>3, <2>4 DEF BeginRun
    <2>6. Bar(clock)' = b + 1
      BY <2>4, <2>5 DEF Bar
    <2>7. \A a \in first .. b + 1 : a \in ran' \cup overrun'
      BY <2>1, <2>5 DEF Served, ScheduleInv
    <2> QED
      BY <1>1, <2>1, <2>5, <2>6, <2>7 DEF ScheduleInv, Served
  <1>4. CASE Signal
    <2>1. /\ UNCHANGED <<clock, first, ran, overrun, wake>> /\ stop' = TRUE
          /\ phase' \in {"stopped", phase}
      BY <1>4 DEF Signal
    <2> QED
      BY <2>1 DEF ScheduleInv, Served, Bar
  <1>5. CASE Restart
    <2>1. /\ UNCHANGED clock /\ phase' = "run" /\ stop' = FALSE
          /\ first' = Bar(clock) /\ ran' = {Bar(clock)} /\ overrun' = {}
      BY <1>5 DEF Restart
    <2>2. Bar(clock)' = Bar(clock)
      BY <2>1 DEF Bar
    <2>3. Served(Bar(clock))'
      BY <1>1, <2>1, <2>2 DEF Served
    <2>4. /\ first' \in Int /\ first' <= Bar(clock)' /\ phase' # "sleep"
          /\ clock' \in Nat /\ phase' = "run"
      BY <1>1, <2>1, <2>2
    <2> QED
      BY <2>1, <2>3, <2>4 DEF ScheduleInv
  <1>6. CASE Advance
    <2>1. /\ clock' = clock + 1 /\ UNCHANGED <<phase, stop, wake, first, ran>>
          /\ ~(phase = "sleep" /\ clock >= wake)
      BY <1>6 DEF Advance
    <2>2. overrun' = IF phase = "run" /\ clock' % Cycle = 0
                     THEN overrun \cup {Bar(clock')} ELSE overrun
      BY <1>6 DEF Advance
    <2>3. /\ Bar(clock)' = Bar(clock') /\ Bar(clock') \in {Bar(clock), Bar(clock) + 1}
          /\ clock' % Cycle # 0 => Bar(clock') = Bar(clock)
      BY <1>0, <1>1, <2>1, BarGoesOn DEF Bar
    <2>4. ASSUME phase = "run" PROVE Served(Bar(clock))'
      <3>1. \A a \in first .. Bar(clock) : a \in ran \cup overrun
        BY <2>4 DEF ScheduleInv, Served
      <3>2. \A a \in first .. Bar(clock') : a \in ran \cup overrun'
        BY <1>1, <2>2, <2>3, <2>4, <3>1 DEF ScheduleInv
      <3> QED
        BY <2>1, <2>3, <3>2 DEF Served
    <2>5. ASSUME phase = "sleep"
          PROVE  \E b \in Int : /\ first' <= b /\ b <= Bar(clock)' /\ Served(b)'
                                /\ wake' = (b + 1) * Cycle + Lag /\ clock' <= wake'
      <3>1. PICK b \in Int : /\ first <= b /\ b <= Bar(clock) /\ Served(b)
                             /\ wake = (b + 1) * Cycle + Lag /\ clock <= wake
        BY <2>5 DEF ScheduleInv
      <3>2. Served(b)' /\ b <= Bar(clock)'
        BY <1>1, <2>1, <2>2, <2>3, <2>5, <3>1 DEF Served
      <3>3. wake' = wake /\ wake \in Int /\ clock' <= wake'
        BY <1>0, <1>1, <2>1, <2>5, <3>1
      <3> QED
        BY <2>1, <3>1, <3>2, <3>3
    <2> QED
      BY <1>1, <2>1, <2>3, <2>4, <2>5 DEF ScheduleInv
  <1>7. CASE UNCHANGED schedulerVars
    BY <1>7 DEF schedulerVars, ScheduleInv, Served, Bar
  <1> QED
    BY <1>2, <1>3, <1>4, <1>5, <1>6, <1>7 DEF SchedulerNext

\* A ripe bar of a process that sleeps lies behind the end of its sleep.
LEMMA ServedInTime == SchedulerAssumption /\ ScheduleInv => SkipsOnlyWhenBusy
  <1> SUFFICES ASSUME SchedulerAssumption, ScheduleInv, phase # "stopped",
                      NEW a \in first + 1 .. Bar(clock), clock > a * Cycle + Lag
               PROVE  a \in ran \cup overrun
    BY DEF SkipsOnlyWhenBusy
  <1>0. Cycle \in Int /\ Cycle > 0 /\ Lag \in Int /\ first \in Int /\ clock \in Int
    BY DEF SchedulerAssumption, ScheduleInv
  <1>1. Bar(clock) \in Int /\ a \in Int /\ first <= a /\ a <= Bar(clock)
    BY <1>0, BarHolds DEF Bar
  <1>2. CASE phase = "run"
    BY <1>0, <1>1, <1>2 DEF ScheduleInv, Served
  <1>3. CASE phase = "sleep"
    <2>1. PICK b \in Int : /\ first <= b /\ Served(b)
                           /\ wake = (b + 1) * Cycle + Lag /\ clock <= wake
      BY <1>3 DEF ScheduleInv
    <2>2. a * Cycle < (b + 1) * Cycle
      BY <1>0, <1>1, <2>1
    <2>3. a <= b
      BY <1>0, <1>1, <2>1, <2>2
    <2> QED
      BY <1>0, <1>1, <2>1, <2>3 DEF Served
  <1> QED
    BY <1>2, <1>3 DEF ScheduleInv

\* While the worker is not stopped, a bar that is over without a run began during
\* one (run_forever), for every length of a cycle and every lag below it.
THEOREM SkipsNoRipeBar == SchedulerSpec => []SkipsOnlyWhenBusy
  <1>1. SchedulerAssumption
    BY SchedulerAssumption
  <1> QED
    BY <1>1, ScheduleInit, ScheduleStep, ServedInTime, PTL DEF SchedulerSpec

----------------------------------------------------------------------------
(* The gate of the CoinGlass client. *)

\* The counters that the argument needs are numbers.
Counts ==
  /\ pauseLeft \in Nat
  /\ sentAt \in [0 .. Interval - 1 -> Nat]
  /\ task \in [Requests -> TaskStates]

\* The gate is shut exactly while the task that opens it runs, no pause is left
\* without that task, and whom the gate has woken finds it open.
GateHasItsTask ==
  /\ gate \in BOOLEAN
  /\ reopenTask = "running" <=> ~gate
  /\ pauseLeft > 0 => reopenTask = "running"
  /\ \A r \in Requests : task[r] \in Woken => gate

GateInv == Counts /\ GateHasItsTask

\* What a step that leaves the gate alone needs to keep the invariant.
LEMMA GateUntouched ==
  ASSUME GateInv, UNCHANGED <<gate, reopenTask, pauseLeft>>,
         sentAt' \in [0 .. Interval - 1 -> Nat],
         NEW r \in Requests, NEW place \in TaskStates \ Woken, MovesTo(r, place)
  PROVE  GateInv'
  BY DEF GateInv, Counts, GateHasItsTask, MovesTo

\* Sending ends in a state in which nobody has been woken, and counts one request.
LEMMA SendsMoves ==
  ASSUME CoinGlassAssumption, Counts, NEW r \in Requests, Sends(r)
  PROVE  /\ \E place \in TaskStates \ Woken : MovesTo(r, place)
         /\ sentAt' \in [0 .. Interval - 1 -> Nat]
  <1>1. 0 \in 0 .. Interval - 1
    BY DEF CoinGlassAssumption
  <1>2. {"failed", "sent"} \subseteq TaskStates \ Woken
    BY DEF TaskStates, Woken, Waiting, Ended
  <1> QED
    BY <1>1, <1>2 DEF Sends, Counts

\* The same for a task behind the limiter, which may also stop at the gate.
LEMMA PassesMoves ==
  ASSUME CoinGlassAssumption, Counts, NEW r \in Requests, PassesGate(r)
  PROVE  /\ \E place \in TaskStates \ Woken : MovesTo(r, place)
         /\ sentAt' \in [0 .. Interval - 1 -> Nat]
  <1>1. "gate again" \in TaskStates \ Woken
    BY DEF TaskStates, Woken, Waiting, Ended
  <1> QED
    BY <1>1, SendsMoves DEF PassesGate, Counts

\* The same for a task that takes a slot, which may also have to sleep for it.
LEMMA AcquiresMoves ==
  ASSUME CoinGlassAssumption, Counts, NEW r \in Requests, Acquires(r)
  PROVE  /\ \E place \in TaskStates \ Woken : MovesTo(r, place)
         /\ sentAt' \in [0 .. Interval - 1 -> Nat]
  <1>1. "sleep" \in TaskStates \ Woken
    BY DEF TaskStates, Woken, Waiting, Ended
  <1> QED
    BY <1>1, PassesMoves DEF Acquires, Counts

\* Opening the gate wakes those that wait, with the gate open.
LEMMA OpensKeeps ==
  ASSUME GateInv, Opens, UNCHANGED sentAt
  PROVE  GateInv'
  <1>1. ASSUME NEW r \in Requests
        PROVE  task'[r] \in TaskStates
    <2>1. task[r] \in TaskStates
      BY DEF GateInv, Counts
    <2>2. /\ task[r] = "gate" => task'[r] = "woken"
          /\ task[r] = "gate again" => task'[r] = "woken again"
          /\ task[r] \notin {"gate", "gate again"} => task'[r] = task[r]
      BY DEF Opens
    <2> QED
      BY <2>1, <2>2 DEF TaskStates, Woken
  <1>2. task' = [r \in Requests |-> task'[r]]
    BY DEF Opens
  <1>3. task' \in [Requests -> TaskStates]
    BY <1>1, <1>2
  <1>4. /\ gate' = TRUE
        /\ reopenTask' # "running"
        /\ pauseLeft' = 0
    BY DEF Opens
  <1>5. Counts'
    BY <1>3, <1>4 DEF GateInv, Counts
  <1>6. GateHasItsTask'
    BY <1>4 DEF GateHasItsTask
  <1> QED
    BY <1>5, <1>6 DEF GateInv

\* Shutting the gate starts the task that opens it unless it runs.
LEMMA ShutsKeeps ==
  ASSUME CoinGlassAssumption, GateInv, ShutsGate, NobodyWoken, UNCHANGED sentAt,
         NEW r \in Requests, MovesTo(r, "gate")
  PROVE  GateInv'
  BY DEF CoinGlassAssumption, GateInv, Counts, GateHasItsTask, ShutsGate, NobodyWoken, MovesTo,
         TaskStates, Waiting, Woken, Ended

\* A new client has its gate open.
LEMMA GateInit == CoinGlassAssumption /\ ClientInit("new") => GateInv
  BY DEF CoinGlassAssumption, ClientInit, GateInv, Counts, GateHasItsTask, TaskStates, Waiting,
         Woken, Ended

\* Each step of a request keeps the invariant.
LEMMA FetchKeeps ==
  ASSUME CoinGlassAssumption, GateInv, NEW r \in Requests, Fetch(r) \/ Abandon(r)
  PROVE  GateInv'
  <1> Counts
    BY DEF GateInv
  <1>1. {"answered", "failed", "dropped", "gate"} \subseteq TaskStates \ Woken
    BY DEF TaskStates, Woken, Waiting, Ended
  <1>2. sentAt \in [0 .. Interval - 1 -> Nat]
    BY DEF Counts
  <1>3. CASE Refuse(r)
    BY <1>1, <1>2, <1>3, GateUntouched DEF Refuse
  <1>4. CASE Begin(r)
    <2>1. CASE gate
      <3>1. Acquires(r) /\ UNCHANGED <<gate, reopenTask, pauseLeft>>
        BY <1>4, <2>1 DEF Begin
      <3> QED
        BY <3>1, AcquiresMoves, GateUntouched
    <2>2. CASE ~gate
      <3>1. MovesTo(r, "gate") /\ UNCHANGED <<gate, reopenTask, pauseLeft, sentAt>>
        BY <1>4, <2>2 DEF Begin
      <3> QED
        BY <1>1, <1>2, <3>1, GateUntouched
    <2> QED
      BY <2>1, <2>2
  <1>5. CASE WakeUp(r)
    <2>1. PassesGate(r) /\ UNCHANGED <<gate, reopenTask, pauseLeft>>
      BY <1>5 DEF WakeUp
    <2> QED
      BY <2>1, PassesMoves, GateUntouched
  <1>6. CASE Resume(r)
    <2>1. Acquires(r) \/ Sends(r)
      BY <1>6 DEF Resume
    <2>2. UNCHANGED <<gate, reopenTask, pauseLeft>>
      BY <1>6 DEF Resume
    <2> QED
      BY <2>1, <2>2, AcquiresMoves, SendsMoves, GateUntouched
  <1>7. CASE Answer(r)
    BY <1>1, <1>2, <1>7, GateUntouched DEF Answer
  <1>8. CASE Limited(r)
    <2>1. CASE attempt[r] < MaxRetries - 1
      BY <1>8, <2>1, ShutsKeeps DEF Limited
    <2>2. CASE ~(attempt[r] < MaxRetries - 1)
      BY <1>1, <1>2, <1>8, <2>2, GateUntouched DEF Limited
    <2> QED
      BY <2>1, <2>2
  <1>9. CASE Abandon(r)
    BY <1>1, <1>2, <1>9, GateUntouched DEF Abandon
  <1> QED
    BY <1>3, <1>4, <1>5, <1>6, <1>7, <1>8, <1>9 DEF Fetch

\* The clock keeps it: a pause that gets shorter is still there or over.
LEMMA ElapseKeeps ==
  ASSUME CoinGlassAssumption, GateInv, Elapse
  PROVE  GateInv'
  <1>1. pauseLeft' \in Nat /\ (pauseLeft' > 0 => pauseLeft > 0)
    BY DEF GateInv, Counts, Elapse, Less
  <1>2. sentAt' \in [0 .. Interval - 1 -> Nat]
    <2>1. DOMAIN sentAt = 0 .. Interval - 1
      BY DEF GateInv, Counts
    <2>2. \A a \in 0 .. Interval - 1 : a # 0 => a - 1 \in 0 .. Interval - 1
      BY DEF CoinGlassAssumption
    <2> QED
      BY <2>1, <2>2 DEF GateInv, Counts, Elapse
  <1> QED
    BY <1>1, <1>2 DEF GateInv, Counts, GateHasItsTask, Elapse

\* Every step of the client keeps the gate and its task together.
LEMMA GateStep ==
  ASSUME CoinGlassAssumption, GateInv, [ClientNext]_clientVars
  PROVE  GateInv'
  <1>1. CASE \E r \in Requests : Fetch(r) \/ Abandon(r)
    BY <1>1, FetchKeeps
  <1>2. CASE Reopen
    BY <1>2, OpensKeeps DEF Reopen
  <1>3. CASE Close
    <2>1. CASE reopenTask = "running"
      BY <1>3, <2>1, OpensKeeps DEF Close
    <2>2. CASE reopenTask # "running"
      BY <1>3, <2>2 DEF Close, GateInv, Counts, GateHasItsTask
    <2> QED
      BY <2>1, <2>2
  <1>4. CASE Elapse
    BY <1>4, ElapseKeeps
  <1>5. CASE ClosesHttp \/ UNCHANGED clientVars
    BY <1>5 DEF ClosesHttp, clientVars, GateInv, Counts, GateHasItsTask
  <1> QED
    BY <1>1, <1>2, <1>3, <1>4, <1>5 DEF ClientNext

\* The client of CoinGlass never leaves its gate shut without a task that is going
\* to open it, closed client and given-up requests included (_reopen_gate, close).
THEOREM GateNeverStuck == ClientSpec => []GateInv
  <1>1. CoinGlassAssumption
    BY CoinGlassAssumption
  <1> QED
    BY <1>1, GateInit, GateStep, PTL DEF ClientSpec

\* While a pause is on, no step counts a request: all that could send either see the
\* gate shut, or were woken by it and run before it can shut again.
LEMMA PauseStep ==
  ASSUME CoinGlassAssumption, GateInv, pauseLeft > 0, [ClientNext]_clientVars
  PROVE  sentAt'[0] <= sentAt[0]
  <1>1. ~gate /\ \A r \in Requests : task[r] \notin Woken
    BY DEF GateInv, GateHasItsTask
  <1>2. 0 \in DOMAIN sentAt /\ sentAt[0] \in Nat
    BY DEF GateInv, Counts, CoinGlassAssumption
  <1>3. ASSUME NEW r \in Requests, Fetch(r) \/ Abandon(r)
        PROVE  UNCHANGED sentAt
    <2>1. ~Resume(r)
      BY <1>1 DEF Resume, Woken
    <2>2. PassesGate(r) => UNCHANGED sentAt
      BY <1>1 DEF PassesGate
    <2> QED
      BY <1>1, <1>3, <2>1, <2>2 DEF Fetch, Refuse, Begin, WakeUp, Answer, Limited, Abandon
  <1>4. CASE Reopen \/ Close \/ ClosesHttp \/ UNCHANGED clientVars
    BY <1>2, <1>4 DEF Reopen, Close, ClosesHttp, clientVars
  <1>5. CASE Elapse
    BY <1>2, <1>5 DEF Elapse
  <1> QED
    BY <1>2, <1>3, <1>4, <1>5 DEF ClientNext

\* The pause of a rate-limit answer is kept by all requests (CoinGlassClient._request).
THEOREM PauseIsRespected == ClientSpec => PauseRespected
  <1>1. CoinGlassAssumption
    BY CoinGlassAssumption
  <1>2. GateInv /\ [ClientNext]_clientVars => [pauseLeft > 0 => sentAt'[0] <= sentAt[0]]_clientVars
    BY <1>1, PauseStep
  <1> QED
    BY <1>2, GateNeverStuck, PTL DEF ClientSpec, PauseRespected

----------------------------------------------------------------------------
(* The limiter of the CoinGlass client. *)

\* The limiter let them pass, and the gate holds or held them back.
Held == {r \in Requests : task[r] \in {"gate again", "woken again"}}

\* How many the gate may have held back so far.
Bound == IF reopenTask = "none" THEN 0 ELSE MaxConcurrent

\* The requests of the last k ticks, and those that may join them at once.
Load(k) == FirstSum(sentAt, k) + Cardinality(Held)

\* What is sent in the interval that ends with the slot in x ticks.
SlotFree(x) == x < Interval => Load(Interval - x) <= Bound

Sleeper(r) == task[r] = "sleep"

Apart(x, y) == x >= y + Interval \/ y >= x + Interval

\* What makes RateKept inductive: the slots are an interval apart, so that of the
\* requests that pass the limiter at most one at a time is neither of those that the
\* gate held back nor out of the window when the next passes.
RateInv ==
  /\ GateInv
  /\ debt \in Nat /\ sleep \in [Requests -> Nat]
  /\ Cardinality(Holders) <= MaxConcurrent
  /\ Cardinality(Held) <= Bound
  /\ Load(Interval) <= Bound + 1
  /\ SlotFree(debt)
  /\ \A r \in Requests : Sleeper(r) => SlotFree(sleep[r]) /\ debt >= sleep[r] + Interval
  /\ \A r, s \in Requests : r # s /\ Sleeper(r) /\ Sleeper(s) => Apart(sleep[r], sleep[s])

\* Sets of requests have a size.
LEMMA RequestsCount ==
  ASSUME CoinGlassAssumption
  PROVE  \A S \in SUBSET Requests : IsFiniteSet(S) /\ Cardinality(S) \in Nat
  BY FS_Subset, FS_CardinalityType DEF CoinGlassAssumption

\* Who is held back by the gate has a place of the semaphore.
LEMMA HeldHold == Held \subseteq Holders /\ Held \subseteq Requests /\ Holders \subseteq Requests
  BY DEF Held, Holders, Ended

\* The sums of what was sent are numbers.
LEMMA SentSums ==
  ASSUME CoinGlassAssumption, Counts
  PROVE  /\ Interval \in Nat /\ Interval > 0
         /\ \A k \in 0 .. Interval : FirstSum(sentAt, k) \in Int
         /\ FirstSum(sentAt, 0) = 0
         /\ FirstSum(sentAt, Interval - 1) <= FirstSum(sentAt, Interval)
  <1>1. Interval \in Nat /\ Interval > 0
    BY DEF CoinGlassAssumption
  <1>2. ASSUME NEW k \in 0 .. Interval - 1
        PROVE  /\ FirstSum(sentAt, 0) = 0
               /\ FirstSum(sentAt, k) \in Int /\ FirstSum(sentAt, k + 1) \in Int
               /\ FirstSum(sentAt, k) <= FirstSum(sentAt, k + 1)
    <2>1. k \in Nat /\ IntOn(sentAt, 0 .. k) /\ sentAt[k] \in Nat
      BY <1>1 DEF Counts, IntOn
    <2>2. /\ FirstSum(sentAt, 0) = 0 /\ FirstSum(sentAt, k) \in Int
          /\ FirstSum(sentAt, k + 1) = FirstSum(sentAt, k) + sentAt[k]
      BY <2>1, FirstSumGrows
    <2> QED
      BY <2>1, <2>2
  <1>3. ASSUME NEW k \in 0 .. Interval PROVE FirstSum(sentAt, k) \in Int
    <2>1. CASE k = 0
      BY <1>1, <1>2, <2>1
    <2>2. CASE k # 0
      <3>1. k - 1 \in 0 .. Interval - 1 /\ k - 1 + 1 = k
        BY <1>1, <2>2
      <3> QED
        BY <1>2, <3>1
    <2> QED
      BY <2>1, <2>2
  <1>4. Interval - 1 \in 0 .. Interval - 1 /\ Interval - 1 + 1 = Interval
    BY <1>1
  <1>5. FirstSum(sentAt, 0) = 0 /\ FirstSum(sentAt, Interval - 1) <= FirstSum(sentAt, Interval)
    BY <1>2, <1>4
  <1> QED
    BY <1>1, <1>3, <1>5

\* A request that is sent counts in every sum.
LEMMA SentCounts ==
  ASSUME CoinGlassAssumption, Counts, sentAt' = [sentAt EXCEPT ![0] = @ + 1],
         NEW k \in 1 .. Interval
  PROVE  FirstSum(sentAt, k)' = FirstSum(sentAt, k) + 1
  <1> DEFINE S == 0 .. k - 1
             g == [sentAt EXCEPT ![0] = @ + 1]
             f == sentAt
  <1>1. Interval \in Nat /\ Interval > 0 /\ k \in Nat /\ k > 0
    BY DEF CoinGlassAssumption
  <1>2. /\ 0 \in S /\ IntOn(f, S) /\ IntOn(g, S) /\ f[0] \in Int
        /\ g[0] = f[0] + 1 /\ \A y \in S : y # 0 => g[y] = f[y]
    BY <1>1 DEF Counts, IntOn
  <1>3. IsFiniteSet(S)
    BY <1>1, FS_Interval
  <1>4. FirstSum(sentAt, k) = SumOver(f, S) /\ FirstSum(sentAt, k)' = SumOver(g, S)
    BY DEF FirstSum
  <1>5. SumOver(f, S) \in Int
    <2> HIDE DEF S, f
    <2> QED
      BY <1>2, <1>3, SumUnfold
  <1>6. SumOver(g, S) = SumOver(f, S) + (g[0] - f[0])
    <2> HIDE DEF S, g, f
    <2> QED
      BY <1>2, <1>3, SumChange
  <1> QED
    BY <1>2, <1>4, <1>5, <1>6

\* Where a request goes decides what it holds.
LEMMA MoveCounts ==
  ASSUME Counts, NEW r \in Requests, NEW place \in TaskStates, MovesTo(r, place)
  PROVE  /\ Held' = IF place \in {"gate again", "woken again"} THEN Held \cup {r} ELSE Held \ {r}
         /\ Holders' = IF place \in {"new"} \cup Ended THEN Holders \ {r} ELSE Holders \cup {r}
         /\ \A s \in Requests : Sleeper(s)' <=> IF s = r THEN place = "sleep" ELSE Sleeper(s)
  <1>1. task' = [task EXCEPT ![r] = place] /\ task \in [Requests -> TaskStates]
    BY DEF Counts, MovesTo
  <1>2. \A s \in Requests : task'[s] = IF s = r THEN place ELSE task[s]
    BY <1>1
  <1> QED
    BY <1>2 DEF Held, Holders, Sleeper

\* The bound is a number, at most the semaphore's, and does not fall.
LEMMA BoundGrows ==
  ASSUME CoinGlassAssumption
  PROVE  /\ Bound \in Nat /\ Bound <= MaxConcurrent /\ MaxConcurrent \in Nat
         /\ UNCHANGED reopenTask => Bound' = Bound
         /\ (reopenTask' = "none" => reopenTask = "none") => Bound <= Bound'
  <1>1. MaxConcurrent \in Nat
    BY DEF CoinGlassAssumption
  <1>2. CASE reopenTask = "none"
    BY <1>1, <1>2 DEF Bound
  <1>3. CASE reopenTask # "none"
    BY <1>1, <1>3 DEF Bound
  <1> QED
    BY <1>2, <1>3

\* A step in which nobody passes the limiter and nothing is sent keeps the invariant,
\* however many give up.
LEMMA OthersKeepRate ==
  ASSUME CoinGlassAssumption, RateInv, GateInv', UNCHANGED <<sentAt, debt, sleep>>,
         Held' \subseteq Held, Cardinality(Holders)' <= MaxConcurrent,
         reopenTask' = "none" => reopenTask = "none",
         \A r \in Requests : Sleeper(r)' => Sleeper(r)
  PROVE  RateInv'
  <1>1. /\ Bound \in Nat /\ Bound' \in Nat /\ Bound <= Bound'
    BY BoundGrows DEF CoinGlassAssumption, Bound
  <1>2. /\ Cardinality(Held) \in Nat /\ Cardinality(Held') \in Nat
        /\ Cardinality(Held') <= Cardinality(Held)
    <2>1. IsFiniteSet(Held)
      BY RequestsCount, HeldHold
    <2> QED
      BY <2>1, FS_Subset, FS_CardinalityType
  <1>3. Interval \in Nat /\ Interval > 0 /\ \A k \in 0 .. Interval : FirstSum(sentAt, k) \in Int
    BY SentSums DEF RateInv, GateInv
  <1>4. \A k \in 0 .. Interval : Load(k)' <= Load(k) /\ Load(k) \in Int /\ Load(k)' \in Int
    <2>1. \A k : FirstSum(sentAt, k)' = FirstSum(sentAt, k)
      BY DEF FirstSum
    <2> QED
      BY <1>2, <1>3, <2>1 DEF Load
  <1>5. ASSUME NEW x \in Nat, SlotFree(x) PROVE SlotFree(x)'
    BY <1>1, <1>3, <1>4, <1>5 DEF SlotFree
  <1>6. Cardinality(Held)' <= Bound' /\ Load(Interval)' <= Bound' + 1
    BY <1>1, <1>2, <1>3, <1>4 DEF RateInv
  <1>7. ASSUME NEW r \in Requests, Sleeper(r)'
        PROVE  SlotFree(sleep[r])' /\ (debt >= sleep[r] + Interval)'
    <2>1. SlotFree(sleep[r]) /\ debt >= sleep[r] + Interval /\ sleep[r] \in Nat
      BY <1>7 DEF RateInv
    <2>2. sleep'[r] = sleep[r] /\ debt' = debt
      OBVIOUS
    <2> QED
      BY <1>5, <2>1, <2>2 DEF SlotFree
  <1>8. ASSUME NEW r \in Requests, NEW s \in Requests, r # s, Sleeper(r)', Sleeper(s)'
        PROVE  Apart(sleep[r], sleep[s])'
    BY <1>8 DEF RateInv, Apart
  <1>9. SlotFree(debt)' /\ debt' \in Nat /\ sleep' \in [Requests -> Nat]
    BY <1>5 DEF RateInv, SlotFree
  <1> QED
    BY <1>6, <1>7, <1>8, <1>9 DEF RateInv

\* A request that the gate has let go is sent, and was counted before.
LEMMA ReleaseKeepsRate ==
  ASSUME CoinGlassAssumption, RateInv, GateInv', UNCHANGED <<debt, sleep, reopenTask>>,
         NEW r \in Requests, r \in Held, MovesTo(r, "sent"),
         sentAt' = [sentAt EXCEPT ![0] = @ + 1]
  PROVE  RateInv'
  <1>1. /\ Bound \in Nat /\ Bound' = Bound /\ Counts
    BY BoundGrows DEF RateInv, GateInv
  <1>2. /\ Held' = Held \ {r} /\ Holders' = Holders \cup {r} /\ r \in Holders
        /\ \A s \in Requests : Sleeper(s)' => Sleeper(s)
    <2>1. /\ "sent" \in TaskStates /\ "sent" \notin {"new"} \cup Ended
          /\ "sent" \notin {"gate again", "woken again"} /\ "sent" # "sleep"
      BY DEF TaskStates, Ended
    <2> QED
      BY <1>1, <2>1, MoveCounts, HeldHold
  <1>3. /\ Cardinality(Held) \in Nat /\ Cardinality(Held') = Cardinality(Held) - 1
    <2>1. IsFiniteSet(Held)
      BY RequestsCount, HeldHold
    <2> QED
      BY <1>2, <2>1, FS_RemoveElement, FS_CardinalityType
  <1>4. Interval \in Nat /\ Interval > 0 /\ \A k \in 0 .. Interval : FirstSum(sentAt, k) \in Int
    BY <1>1, SentSums
  <1>5. \A k \in 1 .. Interval : Load(k)' = Load(k) /\ Load(k) \in Int
    <2>1. \A k \in 1 .. Interval : FirstSum(sentAt, k)' = FirstSum(sentAt, k) + 1
      BY <1>1, SentCounts
    <2>2. ASSUME NEW k \in 1 .. Interval PROVE Load(k)' = Load(k) /\ Load(k) \in Int
      <3>1. FirstSum(sentAt, k) \in Int
        BY <1>4
      <3>2. FirstSum(sentAt, k)' = FirstSum(sentAt, k) + 1
        BY <2>1
      <3> QED
        BY <1>3, <3>1, <3>2 DEF Load
    <2> QED
      BY <2>2
  <1>6. ASSUME NEW x \in Nat, SlotFree(x) PROVE SlotFree(x)'
    BY <1>1, <1>4, <1>5, <1>6 DEF SlotFree
  <1>7. /\ Cardinality(Held)' <= Bound' /\ Load(Interval)' <= Bound' + 1
        /\ Cardinality(Holders)' <= MaxConcurrent
    <2>1. Holders' = Holders
      BY <1>2
    <2> QED
      BY <1>1, <1>3, <1>4, <1>5, <2>1 DEF RateInv
  <1>8. ASSUME NEW s \in Requests, Sleeper(s)'
        PROVE  SlotFree(sleep[s])' /\ (debt >= sleep[s] + Interval)'
    <2>1. SlotFree(sleep[s]) /\ debt >= sleep[s] + Interval /\ sleep[s] \in Nat
      BY <1>2, <1>8 DEF RateInv
    <2>2. sleep'[s] = sleep[s] /\ debt' = debt
      OBVIOUS
    <2> QED
      BY <1>6, <2>1, <2>2 DEF SlotFree
  <1>9. ASSUME NEW p \in Requests, NEW s \in Requests, p # s, Sleeper(p)', Sleeper(s)'
        PROVE  Apart(sleep[p], sleep[s])'
    BY <1>2, <1>9 DEF RateInv, Apart
  <1>10. SlotFree(debt)' /\ debt' \in Nat /\ sleep' \in [Requests -> Nat]
    BY <1>6 DEF RateInv, SlotFree
  <1> QED
    BY <1>7, <1>8, <1>9, <1>10 DEF RateInv

\* The request whose slot has come is the only one that passes the limiter in the
\* interval, whether it is sent now or held back by the gate.
LEMMA SlotKeepsRate ==
  ASSUME CoinGlassAssumption, RateInv, GateInv', UNCHANGED reopenTask,
         NEW r \in Requests, r \notin Held, PassesGate(r),
         Cardinality(Holders)' <= MaxConcurrent, Load(Interval) <= Bound,
         debt' \in Nat, debt' >= Interval, sleep' \in [Requests -> Nat],
         \A s \in Requests : s # r /\ Sleeper(s) =>
           sleep'[s] = sleep[s] /\ sleep[s] >= Interval /\ debt' >= sleep[s] + Interval
  PROVE  RateInv'
  <1>1. /\ Bound \in Nat /\ Bound' = Bound /\ Counts /\ Bound <= MaxConcurrent
    BY BoundGrows DEF RateInv, GateInv
  <1> DEFINE Passes == Held' = Held /\ sentAt' = [sentAt EXCEPT ![0] = @ + 1]
             Fails == Held' = Held /\ UNCHANGED sentAt
             Stays == Held' = Held \cup {r} /\ UNCHANGED sentAt /\ ~gate
  <1>2. /\ Passes \/ Fails \/ Stays
        /\ \A s \in Requests : Sleeper(s)' => s # r /\ Sleeper(s)
    <2>1. CASE gate /\ ~closed
      <3>1. MovesTo(r, "sent") /\ sentAt' = [sentAt EXCEPT ![0] = @ + 1]
        BY <2>1 DEF PassesGate, Sends
      <3>2. /\ "sent" \in TaskStates /\ "sent" \notin {"gate again", "woken again"}
            /\ "sent" # "sleep"
        BY DEF TaskStates
      <3>3. Held' = Held \ {r}
        BY <1>1, <3>1, <3>2, MoveCounts
      <3>4. \A s \in Requests : Sleeper(s)' <=> IF s = r THEN FALSE ELSE Sleeper(s)
        BY <1>1, <3>1, <3>2, MoveCounts
      <3> QED
        BY <3>1, <3>3, <3>4
    <2>2. CASE gate /\ closed
      <3>1. MovesTo(r, "failed") /\ sentAt' = sentAt
        BY <2>2 DEF PassesGate, Sends
      <3>2. /\ "failed" \in TaskStates /\ "failed" \notin {"gate again", "woken again"}
            /\ "failed" # "sleep"
        BY DEF TaskStates, Ended
      <3>3. Held' = Held \ {r}
        BY <1>1, <3>1, <3>2, MoveCounts
      <3>4. \A s \in Requests : Sleeper(s)' <=> IF s = r THEN FALSE ELSE Sleeper(s)
        BY <1>1, <3>1, <3>2, MoveCounts
      <3> QED
        BY <3>1, <3>3, <3>4
    <2>3. CASE ~gate
      <3>1. MovesTo(r, "gate again") /\ sentAt' = sentAt
        BY <2>3 DEF PassesGate
      <3>2. "gate again" \in TaskStates
        BY DEF TaskStates, Waiting
      <3>3. Held' = Held \cup {r}
        BY <1>1, <3>1, <3>2, MoveCounts
      <3>4. \A s \in Requests : Sleeper(s)' <=> IF s = r THEN FALSE ELSE Sleeper(s)
        BY <1>1, <3>1, <3>2, MoveCounts
      <3> QED
        BY <2>3, <3>1, <3>3, <3>4
    <2> QED
      BY <2>1, <2>2, <2>3
  <1>3. Cardinality(Held) \in Nat /\ Cardinality(Held \cup {r}) = Cardinality(Held) + 1
    <2>1. IsFiniteSet(Held)
      BY RequestsCount, HeldHold
    <2> QED
      BY <2>1, FS_AddElement, FS_CardinalityType
  <1>4. Interval \in Nat /\ Interval > 0 /\ FirstSum(sentAt, Interval) \in Int
    <2>1. Interval \in Nat /\ Interval > 0 /\ \A k \in 0 .. Interval : FirstSum(sentAt, k) \in Int
      BY <1>1, SentSums
    <2>2. Interval \in 0 .. Interval
      BY <2>1
    <2> QED
      BY <2>1, <2>2
  <1>5. UNCHANGED sentAt => FirstSum(sentAt, Interval)' = FirstSum(sentAt, Interval)
    BY DEF FirstSum
  <1>6. Load(Interval)' <= Bound' + 1
    <2>1. CASE Passes
      <3>1. Interval \in 1 .. Interval
        BY <1>4
      <3>2. FirstSum(sentAt, Interval)' = FirstSum(sentAt, Interval) + 1
        BY <1>1, <2>1, <3>1, SentCounts
      <3> QED
        BY <1>1, <1>3, <1>4, <2>1, <3>2 DEF Load
    <2>2. CASE Fails
      BY <1>1, <1>3, <1>4, <1>5, <2>2 DEF Load
    <2>3. CASE Stays
      BY <1>1, <1>3, <1>4, <1>5, <2>3 DEF Load
    <2> HIDE DEF Passes, Fails, Stays
    <2> QED
      BY <1>2, <2>1, <2>2, <2>3
  <1>7. Cardinality(Held') <= Bound'
    <2>1. CASE Stays
      <3>1. reopenTask = "running" /\ Bound = MaxConcurrent
        BY <2>1 DEF RateInv, GateInv, GateHasItsTask, Bound
      <3>2. Held' \subseteq Holders' /\ Holders' \subseteq Requests
        BY DEF Held, Holders, Ended
      <3>3. IsFiniteSet(Holders') /\ Cardinality(Holders') \in Nat
        BY <3>2, RequestsCount
      <3>4. Cardinality(Held') <= Cardinality(Holders') /\ Cardinality(Held') \in Nat
        BY <3>2, <3>3, FS_Subset, FS_CardinalityType
      <3>5. Cardinality(Holders') <= MaxConcurrent /\ Bound' = MaxConcurrent /\ MaxConcurrent \in Nat
        BY <1>1, <3>1, BoundGrows
      <3> QED
        BY <3>3, <3>4, <3>5
    <2>2. CASE Held' = Held
      BY <1>1, <2>2 DEF RateInv
    <2> QED
      BY <1>2, <2>1, <2>2
  <1>8. ASSUME NEW s \in Requests, Sleeper(s)'
        PROVE  SlotFree(sleep[s])' /\ (debt >= sleep[s] + Interval)'
    <2>1. sleep'[s] >= Interval /\ debt' >= sleep'[s] + Interval /\ sleep'[s] \in Nat
      BY <1>2, <1>8
    <2> QED
      BY <1>4, <2>1 DEF SlotFree
  <1>9. SlotFree(debt)'
    BY <1>4 DEF SlotFree
  <1>10. ASSUME NEW p \in Requests, NEW s \in Requests, p # s, Sleeper(p)', Sleeper(s)'
         PROVE  Apart(sleep[p], sleep[s])'
    <2>1. sleep'[p] = sleep[p] /\ sleep'[s] = sleep[s] /\ Apart(sleep[p], sleep[s])
      BY <1>2, <1>10 DEF RateInv
    <2> QED
      BY <2>1 DEF Apart
  <1> HIDE DEF Passes, Fails, Stays
  <1> QED
    BY <1>6, <1>7, <1>8, <1>9, <1>10 DEF RateInv

\* Taking a slot: the first that is free, an interval behind the one taken last.
LEMMA AcquireKeepsRate ==
  ASSUME CoinGlassAssumption, RateInv, GateInv', UNCHANGED reopenTask,
         NEW r \in Requests, r \notin Held, ~Sleeper(r), Acquires(r),
         Cardinality(Holders)' <= MaxConcurrent
  PROVE  RateInv'
  <1>1. /\ debt \in Nat /\ Interval \in Nat /\ Interval > 0 /\ sleep \in [Requests -> Nat]
        /\ Counts /\ SlotFree(debt)
    BY DEF RateInv, GateInv, CoinGlassAssumption
  <1>2. debt' = debt + Interval /\ sleep' = [sleep EXCEPT ![r] = debt]
    BY DEF Acquires
  <1>3. \A s \in Requests : /\ sleep'[s] = IF s = r THEN debt ELSE sleep[s]
                            /\ sleep[s] \in Nat /\ sleep'[s] \in Nat
    BY <1>1, <1>2
  <1>4. \A s \in Requests : Sleeper(s) => debt >= sleep[s] + Interval
    BY DEF RateInv
  <1>5. sleep' \in [Requests -> Nat] /\ debt' \in Nat /\ debt' >= Interval
    BY <1>1, <1>2
  <1>6. CASE debt = 0
    <2>1. PassesGate(r)
      BY <1>6 DEF Acquires
    <2>2. Load(Interval) <= Bound
      BY <1>1, <1>6 DEF SlotFree
    <2>3. \A s \in Requests : ~Sleeper(s)
      BY <1>1, <1>3, <1>4, <1>6
    <2> QED
      BY <1>5, <2>1, <2>2, <2>3, SlotKeepsRate
  <1>7. CASE debt # 0
    <2>1. MovesTo(r, "sleep") /\ sentAt' = sentAt
      BY <1>7 DEF Acquires
    <2>2. /\ Held' = Held
          /\ \A s \in Requests : Sleeper(s)' <=> s = r \/ Sleeper(s)
      <3>1. "sleep" \in TaskStates /\ "sleep" \notin {"gate again", "woken again"}
        BY DEF TaskStates
      <3>2. Held' = Held \ {r}
        BY <1>1, <2>1, <3>1, MoveCounts
      <3>3. \A s \in Requests : Sleeper(s)' <=> IF s = r THEN TRUE ELSE Sleeper(s)
        BY <1>1, <2>1, <3>1, MoveCounts
      <3> QED
        BY <3>2, <3>3
    <2>3. /\ Bound' = Bound /\ \A k : Load(k)' = Load(k)
          /\ Cardinality(Held)' = Cardinality(Held)
      BY <2>1, <2>2 DEF Bound, Load, FirstSum
    <2>4. Cardinality(Held)' <= Bound' /\ Load(Interval)' <= Bound' + 1
      BY <2>3 DEF RateInv
    <2>5. SlotFree(debt)'
      BY <1>1, <1>5 DEF SlotFree
    <2>6. ASSUME NEW s \in Requests, Sleeper(s)'
          PROVE  SlotFree(sleep[s])' /\ (debt >= sleep[s] + Interval)'
      <3>1. SlotFree(sleep'[s])
        BY <1>1, <1>3, <2>2, <2>6 DEF RateInv
      <3>2. SlotFree(sleep[s])'
        BY <2>3, <3>1 DEF SlotFree
      <3>3. debt' >= sleep'[s] + Interval
        BY <1>1, <1>2, <1>3, <1>4, <2>2, <2>6
      <3> QED
        BY <3>2, <3>3
    <2>7. ASSUME NEW p \in Requests, NEW s \in Requests, p # s, Sleeper(p)', Sleeper(s)'
          PROVE  Apart(sleep[p], sleep[s])'
      <3>1. CASE p = r
        BY <1>3, <1>4, <2>2, <2>7, <3>1 DEF Apart
      <3>2. CASE s = r
        BY <1>3, <1>4, <2>2, <2>7, <3>2 DEF Apart
      <3>3. CASE p # r /\ s # r
        BY <1>3, <2>2, <2>7, <3>3 DEF Apart, RateInv
      <3> QED
        BY <3>1, <3>2, <3>3
    <2> QED
      BY <1>5, <2>4, <2>5, <2>6, <2>7 DEF RateInv
  <1> QED
    BY <1>6, <1>7

\* The clock: sums move to older terms, and slots come nearer.
LEMMA ElapseKeepsRate ==
  ASSUME CoinGlassAssumption, RateInv, GateInv', Elapse
  PROVE  RateInv'
  <1>1. /\ debt \in Nat /\ Interval \in Nat /\ Interval > 0 /\ sleep \in [Requests -> Nat]
        /\ Counts /\ Counts' /\ sentAt \in [0 .. Interval - 1 -> Nat]
    BY DEF RateInv, GateInv, CoinGlassAssumption, Counts
  <1>2. /\ debt' = Less(debt) /\ task' = task /\ reopenTask' = reopenTask
        /\ sleep' = [s \in Requests |-> Less(sleep[s])]
        /\ \A s \in Requests : Sleeper(s) => sleep[s] # 0
    BY DEF Elapse, Sleeper
  <1>3. /\ \A k \in 0 .. Interval : FirstSum(sentAt, k) \in Int
        /\ \A k \in 0 .. Interval : FirstSum(sentAt, k)' \in Int
        /\ FirstSum(sentAt, 0) = 0
        /\ FirstSum(sentAt, Interval - 1) <= FirstSum(sentAt, Interval)
    <2>1. \A k \in 0 .. Interval : FirstSum(sentAt, k) \in Int
      BY <1>1, SentSums
    <2>2. \A k \in 0 .. Interval : FirstSum(sentAt', k) \in Int
      <3>1. ASSUME NEW k \in 0 .. Interval PROVE FirstSum(sentAt', k) \in Int
        <4>1. IntOn(sentAt', 0 .. k - 1) /\ 0 \in Int /\ k - 1 \in Int
          BY <1>1 DEF Counts, IntOn
        <4>2. IsFiniteSet(0 .. k - 1)
          BY <4>1, FS_Interval
        <4> QED
          BY <4>1, <4>2, SumUnfold DEF FirstSum
      <3> QED
        BY <3>1
    <2> QED
      BY <1>1, <2>1, <2>2, SentSums DEF FirstSum
  <1>4. ASSUME NEW k \in 0 .. Interval - 1
        PROVE  FirstSum(sentAt, k + 1)' = FirstSum(sentAt, k)
    <2> DEFINE g == [a \in DOMAIN sentAt |-> IF a = 0 THEN 0 ELSE sentAt[a - 1]]
               f == sentAt
    <2>1. k \in Nat /\ IntOn(f, 0 .. k) /\ g[0] = 0 /\ \A a \in 1 .. k : g[a] = f[a - 1]
      BY <1>1 DEF IntOn
    <2>2. FirstSum(g, k + 1) = FirstSum(f, k)
      <3> HIDE DEF g, f
      <3> QED
        BY <2>1, SumShift
    <2>3. sentAt' = g
      BY DEF Elapse
    <2> QED
      BY <2>2, <2>3 DEF FirstSum
  <1>5. /\ Held' = Held /\ Holders' = Holders /\ Bound' = Bound
        /\ \A s \in Requests : Sleeper(s)' <=> Sleeper(s)
        /\ Bound \in Nat /\ Cardinality(Held) \in Nat
    BY <1>2, BoundGrows, RequestsCount, HeldHold DEF Held, Holders, Bound, Sleeper
  <1>6. /\ \A k \in 0 .. Interval : Load(k) \in Int /\ Load(k)' \in Int
        /\ \A k \in 0 .. Interval - 1 : Load(k + 1)' = Load(k)
        /\ Load(0) <= Bound /\ Load(Interval - 1) <= Load(Interval)
        /\ Load(Interval)' = Load(Interval - 1)
    <2>1. \A k : Load(k)' = FirstSum(sentAt, k)' + Cardinality(Held)
      BY <1>5 DEF Load
    <2>2. Interval - 1 \in 0 .. Interval - 1 /\ Interval - 1 + 1 = Interval
          /\ Interval - 1 \in 0 .. Interval /\ Interval \in 0 .. Interval
      BY <1>1
    <2>3. Cardinality(Held) <= Bound
      BY DEF RateInv
    <2>4. \A k \in 0 .. Interval : Load(k) \in Int /\ Load(k)' \in Int
      BY <1>3, <1>5, <2>1 DEF Load
    <2>5. \A k \in 0 .. Interval - 1 : Load(k + 1)' = Load(k)
      BY <1>4, <2>1 DEF Load
    <2>6. Load(0) <= Bound /\ Load(Interval - 1) <= Load(Interval)
      BY <1>3, <1>5, <2>2, <2>3 DEF Load
    <2> QED
      BY <2>2, <2>4, <2>5, <2>6
  <1> DEFINE Next(k) == FirstSum(sentAt', k) + Cardinality(Held')
  <1>7. ASSUME NEW x \in Nat, NEW y, y = Less(x), SlotFree(x), y < Interval
        PROVE  Next(Interval - y) <= Bound'
    <2>0. \A k \in 0 .. Interval - 1 : Next(k + 1) = Load(k)
      BY <1>4, <1>5 DEF Load, FirstSum
    <2>1. CASE x = 0
      <3>1. Load(Interval) <= Bound /\ Load(Interval - 1) <= Load(Interval)
        BY <1>1, <1>6, <1>7, <2>1 DEF SlotFree
      <3>2. Interval - 1 \in 0 .. Interval - 1 /\ Interval - 1 + 1 = Interval
            /\ Interval - 1 \in 0 .. Interval /\ Interval \in 0 .. Interval
        BY <1>1
      <3>3. Next(Interval) = Load(Interval - 1)
        BY <2>0, <3>2
      <3>4. Interval - y = Interval
        BY <1>1, <1>7, <2>1 DEF Less
      <3> HIDE DEF Next
      <3> QED
        BY <1>5, <1>6, <3>1, <3>2, <3>3, <3>4
    <2>2. CASE x # 0
      <3>1. y = x - 1 /\ Interval - y = Interval - x + 1 /\ x <= Interval
        BY <1>1, <1>7, <2>2 DEF Less
      <3>2. Interval - x \in 0 .. Interval - 1
        BY <1>1, <2>2, <3>1
      <3>3. Next(Interval - y) = Load(Interval - x)
        BY <2>0, <3>1, <3>2
      <3>4. Load(Interval - x) <= Bound
        <4>1. CASE x = Interval
          BY <1>1, <1>6, <4>1
        <4>2. CASE x # Interval
          BY <1>1, <1>7, <3>1, <4>2 DEF SlotFree
        <4> QED
          BY <4>1, <4>2
      <3> HIDE DEF Next
      <3> QED
        BY <1>5, <3>3, <3>4
    <2> QED
      BY <2>1, <2>2
  <1>8. Cardinality(Held)' <= Bound' /\ Load(Interval)' <= Bound' + 1
        /\ Cardinality(Holders)' <= MaxConcurrent
    <2>1. Load(Interval) <= Bound + 1 /\ Load(Interval) \in Int /\ Load(Interval - 1) \in Int
      BY <1>1, <1>6 DEF RateInv
    <2> QED
      BY <1>5, <1>6, <2>1 DEF RateInv
  <1>9. \A s \in Requests : /\ sleep'[s] = Less(sleep[s]) /\ sleep[s] \in Nat
                            /\ sleep'[s] \in Nat
    BY <1>1, <1>2 DEF Less
  <1>10. ASSUME NEW s \in Requests, Sleeper(s)'
         PROVE  SlotFree(sleep[s])' /\ (debt >= sleep[s] + Interval)'
    <2>1. /\ SlotFree(sleep[s]) /\ debt >= sleep[s] + Interval /\ sleep[s] # 0
      BY <1>2, <1>5, <1>10 DEF RateInv
    <2>2. sleep'[s] < Interval => Next(Interval - sleep'[s]) <= Bound'
      <3> HIDE DEF Next
      <3> QED
        BY <1>7, <1>9, <2>1
    <2>3. SlotFree(sleep[s])'
      BY <2>2 DEF SlotFree, Load, FirstSum
    <2>4. debt' >= sleep'[s] + Interval
      BY <1>1, <1>2, <1>9, <2>1 DEF Less
    <2> QED
      BY <2>3, <2>4
  <1>11. ASSUME NEW p \in Requests, NEW s \in Requests, p # s, Sleeper(p)', Sleeper(s)'
         PROVE  Apart(sleep[p], sleep[s])'
    <2>1. Apart(sleep[p], sleep[s]) /\ sleep[p] # 0 /\ sleep[s] # 0
      BY <1>2, <1>5, <1>11 DEF RateInv
    <2>2. /\ sleep'[p] = sleep[p] - 1 /\ sleep'[s] = sleep[s] - 1
          /\ sleep[p] \in Nat /\ sleep[s] \in Nat
      BY <1>9, <2>1 DEF Less
    <2> QED
      BY <1>1, <2>1, <2>2 DEF Apart
  <1>12. SlotFree(debt)' /\ debt' \in Nat /\ sleep' \in [Requests -> Nat]
    <2>1. debt' < Interval => Next(Interval - debt') <= Bound'
      <3> HIDE DEF Next
      <3> QED
        BY <1>1, <1>2, <1>7 DEF RateInv
    <2>2. SlotFree(debt)'
      BY <2>1 DEF SlotFree, Load, FirstSum
    <2>3. debt' \in Nat
      BY <1>1, <1>2 DEF Less
    <2>4. sleep' \in [Requests -> Nat]
      BY <1>2, <1>9
    <2> QED
      BY <2>2, <2>3, <2>4
  <1> QED
    BY <1>8, <1>10, <1>11, <1>12 DEF RateInv

\* A new client has sent nothing.
LEMMA RateInit == CoinGlassAssumption /\ ClientInit("new") => RateInv
  <1> SUFFICES ASSUME CoinGlassAssumption, ClientInit("new")
               PROVE  RateInv
    OBVIOUS
  <1>1. /\ Interval \in Nat /\ Interval > 0 /\ MaxConcurrent \in Nat
        /\ GateInv /\ debt = 0 /\ reopenTask = "none"
        /\ task = [r \in Requests |-> "new"] /\ sleep = [r \in Requests |-> 0]
    BY GateInit DEF ClientInit, CoinGlassAssumption
  <1>2. Held = {} /\ Holders = {} /\ \A r \in Requests : ~Sleeper(r)
    BY <1>1 DEF Held, Holders, Sleeper
  <1>3. Cardinality({}) = 0 /\ Bound = 0
    BY <1>1, FS_EmptySet DEF Bound
  <1>4. FirstSum(sentAt, Interval) = 0
    <2> DEFINE S == 0 .. Interval - 1
               f == sentAt
               g == [a \in 0 .. Interval - 1 |-> 0]
               bad == {k \in 0 .. Interval : FirstSum(f, k) # 0}
    <2> SUFFICES ASSUME bad # {} PROVE FALSE
      BY <1>1
    <2>1. PICK k \in bad : \A m \in bad : k <= m
      <3>1. bad \in SUBSET Nat
        OBVIOUS
      <3> HIDE DEF bad
      <3> QED
        BY <3>1, SmallestNumber
    <2>2. FirstSum(f, 0) = 0
      BY SumEmpty DEF FirstSum
    <2>3. k \in 0 .. Interval /\ FirstSum(f, k) # 0 /\ k # 0
      BY <2>1, <2>2
    <2>4. k - 1 \in 0 .. Interval /\ k - 1 \notin bad /\ k - 1 \in Nat /\ k - 1 + 1 = k
      BY <1>1, <2>1, <2>3
    <2>5. IntOn(f, 0 .. k - 1) /\ f[k - 1] = 0
      BY <1>1, <2>3 DEF ClientInit, IntOn
    <2>6. FirstSum(f, k - 1) = 0
      BY <2>4
    <2> HIDE DEF bad, f
    <2>7. FirstSum(f, k - 1 + 1) = FirstSum(f, k - 1) + f[k - 1]
      BY <2>4, <2>5, FirstSumGrows
    <2> QED
      BY <2>3, <2>4, <2>5, <2>6, <2>7
  <1>5. Load(Interval) = 0
    BY <1>2, <1>3, <1>4 DEF Load
  <1>6. SlotFree(debt)
    BY <1>1, <1>3, <1>5 DEF SlotFree
  <1> QED
    BY <1>1, <1>2, <1>3, <1>5, <1>6 DEF RateInv

\* Each step of a request keeps to the rate.
LEMMA FetchKeepsRate ==
  ASSUME CoinGlassAssumption, RateInv, NEW r \in Requests, Fetch(r) \/ Abandon(r)
  PROVE  RateInv'
  <1>0. GateInv /\ GateInv' /\ Counts
    BY FetchKeeps DEF RateInv, GateInv
  <1>1. /\ \A S \in SUBSET Requests : IsFiniteSet(S) /\ Cardinality(S) \in Nat
        /\ Holders \subseteq Requests /\ MaxConcurrent \in Nat
        /\ Cardinality(Holders) <= MaxConcurrent
        /\ IsFiniteSet(Holders)
    BY RequestsCount, HeldHold DEF RateInv, CoinGlassAssumption
  <1>2. ASSUME Holders' \subseteq Holders
         PROVE  Cardinality(Holders)' <= MaxConcurrent
    <2>1. Cardinality(Holders') <= Cardinality(Holders) /\ Cardinality(Holders') \in Nat
          /\ Cardinality(Holders) \in Nat
      BY <1>1, <1>2, FS_Subset, FS_CardinalityType
    <2> QED
      BY <1>1, <2>1
  <1>3. ASSUME NEW place \in Ended \cup {"gate", "sleep", "sent", "gate again"},
               MovesTo(r, place), place \in Ended \/ r \in Holders
        PROVE  Cardinality(Holders)' <= MaxConcurrent
    <2>1. place \in TaskStates
      BY DEF TaskStates, Waiting, Ended
    <2>2. Holders' = IF place \in {"new"} \cup Ended THEN Holders \ {r} ELSE Holders \cup {r}
      BY <1>0, <1>3, <2>1, MoveCounts
    <2>3. Holders' \subseteq Holders
      BY <1>3, <2>2 DEF Ended
    <2> QED
      BY <1>2, <2>3
  <1>4. ASSUME NEW place \in Ended \cup {"gate"}, MovesTo(r, place)
        PROVE  /\ Held' \subseteq Held
               /\ \A s \in Requests : Sleeper(s)' => Sleeper(s)
    <2>1. /\ place \in TaskStates /\ place \notin {"gate again", "woken again"}
          /\ place # "sleep"
      BY DEF TaskStates, Waiting, Ended
    <2>2. Held' = IF place \in {"gate again", "woken again"} THEN Held \cup {r} ELSE Held \ {r}
      BY <1>0, <1>4, <2>1, MoveCounts
    <2>3. \A s \in Requests : Sleeper(s)' <=> IF s = r THEN place = "sleep" ELSE Sleeper(s)
      BY <1>0, <1>4, <2>1, MoveCounts
    <2> QED
      BY <2>1, <2>2, <2>3
  <1>5. ASSUME UNCHANGED <<sentAt, debt, sleep>>, reopenTask' = "none" => reopenTask = "none",
               NEW place \in Ended \cup {"gate"}, MovesTo(r, place),
               place \in Ended \/ r \in Holders
        PROVE  RateInv'
    <2>1. Cardinality(Holders)' <= MaxConcurrent
      BY <1>3, <1>5
    <2>2. /\ Held' \subseteq Held
          /\ \A s \in Requests : Sleeper(s)' => Sleeper(s)
      BY <1>4, <1>5
    <2> QED
      BY <1>0, <1>5, <2>1, <2>2, OthersKeepRate
  <1>6. CASE Refuse(r)
    <2>1. MovesTo(r, "answered") /\ "answered" \in Ended
      BY <1>6 DEF Refuse, Ended
    <2> QED
      BY <1>5, <1>6, <2>1 DEF Refuse
  <1>7. CASE Begin(r)
    <2>1. /\ task[r] = "new" /\ Cardinality(Holders) < MaxConcurrent
          /\ UNCHANGED reopenTask
      BY <1>7 DEF Begin
    <2>2. r \notin Held /\ r \notin Holders /\ ~Sleeper(r)
      BY <2>1 DEF Held, Holders, Sleeper
    <2>3. Cardinality(Holders)' <= MaxConcurrent
      <3>1. Holders' \subseteq Holders \cup {r}
        <4>1. PICK place : MovesTo(r, place)
          BY <1>7 DEF Begin, Acquires, PassesGate, Sends
        <4> QED
          BY <1>0, <4>1 DEF MovesTo, Holders, Counts
      <3>2. /\ IsFiniteSet(Holders \cup {r})
            /\ Cardinality(Holders \cup {r}) = Cardinality(Holders) + 1
            /\ Cardinality(Holders) \in Nat
        BY <1>1, <2>2, FS_AddElement, FS_CardinalityType
      <3>3. /\ Cardinality(Holders') <= Cardinality(Holders \cup {r})
            /\ Cardinality(Holders') \in Nat
        BY <3>1, <3>2, FS_Subset, FS_CardinalityType
      <3> QED
        BY <1>1, <2>1, <3>2, <3>3
    <2>4. CASE gate
      <3>1. Acquires(r)
        BY <1>7, <2>4 DEF Begin
      <3> QED
        BY <1>0, <2>1, <2>2, <2>3, <3>1, AcquireKeepsRate
    <2>5. CASE ~gate
      <3>1. MovesTo(r, "gate") /\ UNCHANGED <<sleep, debt, sentAt>>
        BY <1>7, <2>5 DEF Begin
      <3>2. Held' \subseteq Held /\ \A s \in Requests : Sleeper(s)' => Sleeper(s)
        BY <1>4, <3>1
      <3> QED
        BY <1>0, <2>1, <2>3, <3>1, <3>2, OthersKeepRate
    <2> QED
      BY <2>4, <2>5
  <1>8. ASSUME PassesGate(r), r \in Holders
        PROVE  Cardinality(Holders)' <= MaxConcurrent
    <2>1. \E place \in {"sent", "failed", "gate again"} : MovesTo(r, place)
      BY <1>8 DEF PassesGate, Sends
    <2>2. PICK place : place \in {"sent", "failed", "gate again"} /\ MovesTo(r, place)
      BY <2>1
    <2>3. place \in Ended \cup {"gate", "sleep", "sent", "gate again"}
      BY <2>2 DEF Ended
    <2> QED
      BY <1>3, <1>8, <2>2, <2>3
  <1>9. CASE WakeUp(r)
    <2>1. /\ task[r] = "sleep" /\ sleep[r] = 0 /\ PassesGate(r)
          /\ UNCHANGED <<sleep, debt, reopenTask>>
      BY <1>9 DEF WakeUp
    <2>2. r \notin Held /\ r \in Holders /\ Sleeper(r)
      BY <2>1 DEF Held, Holders, Sleeper, Ended
    <2>3. /\ Interval \in Nat /\ Interval > 0 /\ debt \in Nat /\ sleep \in [Requests -> Nat]
          /\ SlotFree(0) /\ debt >= Interval
      <3>1. SlotFree(sleep[r]) /\ debt >= sleep[r] + Interval
        BY <2>2 DEF RateInv
      <3> QED
        BY <2>1, <3>1 DEF RateInv, CoinGlassAssumption
    <2>4. Load(Interval) <= Bound
      BY <2>3 DEF SlotFree
    <2>5. ASSUME NEW s \in Requests, s # r, Sleeper(s)
          PROVE  sleep[s] >= Interval /\ debt >= sleep[s] + Interval
      <3>1. Apart(sleep[r], sleep[s]) /\ debt >= sleep[s] + Interval
        BY <2>2, <2>5 DEF RateInv
      <3> QED
        BY <2>1, <2>3, <3>1 DEF Apart
    <2>6. Cardinality(Holders)' <= MaxConcurrent
      BY <1>8, <2>1, <2>2
    <2> QED
      BY <1>0, <2>1, <2>2, <2>3, <2>4, <2>5, <2>6, SlotKeepsRate
  <1>10. CASE Resume(r)
    <2>1. CASE task[r] = "woken"
      <3>1. Acquires(r) /\ UNCHANGED reopenTask
        BY <1>10, <2>1 DEF Resume
      <3>2. r \notin Held /\ r \in Holders /\ ~Sleeper(r)
        BY <2>1 DEF Held, Holders, Sleeper, Ended
      <3>3. Cardinality(Holders)' <= MaxConcurrent
        <4>1. PassesGate(r) \/ MovesTo(r, "sleep")
          BY <3>1 DEF Acquires
        <4> QED
          BY <1>3, <1>8, <3>2, <4>1
      <3> QED
        BY <1>0, <3>1, <3>2, <3>3, AcquireKeepsRate
    <2>2. CASE task[r] = "woken again"
      <3>1. Sends(r) /\ UNCHANGED <<sleep, debt, reopenTask>>
        BY <1>10, <2>2 DEF Resume
      <3>2. r \in Held
        BY <2>2 DEF Held
      <3>3. CASE closed
        <4>1. MovesTo(r, "failed") /\ UNCHANGED sentAt /\ "failed" \in Ended
          BY <3>1, <3>3 DEF Sends, Ended
        <4> QED
          BY <1>5, <3>1, <4>1
      <3>4. CASE ~closed
        <4>1. MovesTo(r, "sent") /\ sentAt' = [sentAt EXCEPT ![0] = @ + 1]
          BY <3>1, <3>4 DEF Sends
        <4> QED
          BY <1>0, <3>1, <3>2, <4>1, ReleaseKeepsRate
      <3> QED
        BY <3>3, <3>4
    <2> QED
      BY <1>10, <2>1, <2>2 DEF Resume
  <1>11. CASE Answer(r)
    <2>1. PICK end \in {"answered", "failed"} : MovesTo(r, end)
      BY <1>11 DEF Answer
    <2>2. end \in Ended
      BY <2>1 DEF Ended
    <2> QED
      BY <1>5, <1>11, <2>1, <2>2 DEF Answer
  <1>12. CASE Limited(r)
    <2>1. r \in Holders /\ UNCHANGED <<sentAt, debt, sleep>>
      BY <1>12 DEF Limited, Holders, Ended
    <2>2. CASE attempt[r] < MaxRetries - 1
      <3>1. MovesTo(r, "gate") /\ (reopenTask' = "none" => reopenTask = "none")
        BY <1>12, <2>2 DEF Limited, ShutsGate
      <3> QED
        BY <1>5, <2>1, <3>1
    <2>3. CASE ~(attempt[r] < MaxRetries - 1)
      <3>1. MovesTo(r, "dropped") /\ reopenTask' = reopenTask /\ "dropped" \in Ended
        BY <1>12, <2>3 DEF Limited, Ended
      <3> QED
        BY <1>5, <2>1, <3>1
    <2> QED
      BY <2>2, <2>3
  <1>13. CASE Abandon(r)
    <2>1. MovesTo(r, "failed") /\ "failed" \in Ended
      BY <1>13 DEF Abandon, Ended
    <2> QED
      BY <1>5, <1>13, <2>1 DEF Abandon
  <1> QED
    BY <1>6, <1>7, <1>9, <1>10, <1>11, <1>12, <1>13 DEF Fetch

\* Every step of the client keeps the slots apart and the window within its bound.
LEMMA RateStep ==
  ASSUME CoinGlassAssumption, RateInv, [ClientNext]_clientVars
  PROVE  RateInv'
  <1>0. GateInv' /\ Cardinality(Holders) <= MaxConcurrent
    BY GateStep DEF RateInv
  <1>1. CASE \E r \in Requests : Fetch(r) \/ Abandon(r)
    BY <1>1, FetchKeepsRate
  <1>2. ASSUME UNCHANGED <<sentAt, debt, sleep>>, Opens
        PROVE  RateInv'
    <2>1. \A r \in Requests :
            /\ task[r] = "gate" => task'[r] = "woken"
            /\ task[r] = "gate again" => task'[r] = "woken again"
            /\ task[r] \notin {"gate", "gate again"} => task'[r] = task[r]
      BY <1>2 DEF Opens
    <2>2. /\ Held' \subseteq Held /\ Holders' = Holders
          /\ \A r \in Requests : Sleeper(r)' => Sleeper(r)
      BY <2>1 DEF Held, Holders, Ended, Sleeper
    <2>3. reopenTask' # "none"
      BY <1>2 DEF Opens
    <2> QED
      BY <1>0, <1>2, <2>2, <2>3, OthersKeepRate
  <1>3. CASE Reopen
    BY <1>2, <1>3 DEF Reopen
  <1>4. ASSUME UNCHANGED <<sentAt, debt, sleep, task, reopenTask>>
        PROVE  RateInv'
    <2>1. /\ Held' = Held /\ Holders' = Holders
          /\ \A r \in Requests : Sleeper(r)' => Sleeper(r)
      BY <1>4 DEF Held, Holders, Sleeper
    <2> QED
      BY <1>0, <1>4, <2>1, OthersKeepRate
  <1>5. CASE Close
    BY <1>2, <1>4, <1>5 DEF Close
  <1>6. CASE Elapse
    BY <1>0, <1>6, ElapseKeepsRate
  <1>7. CASE ClosesHttp \/ UNCHANGED clientVars
    BY <1>4, <1>7 DEF ClosesHttp, clientVars
  <1> QED
    BY <1>1, <1>3, <1>5, <1>6, <1>7 DEF ClientNext

\* The rate is what the invariant says of the whole window.
LEMMA RateIsKept == CoinGlassAssumption /\ RateInv => RateKept
  <1> SUFFICES ASSUME CoinGlassAssumption, RateInv
               PROVE  RateKept
    OBVIOUS
  <1>1. /\ Cardinality(Held) \in Nat /\ Bound \in Nat /\ Bound <= MaxConcurrent
        /\ MaxConcurrent \in Nat /\ reopenTask = "none" => Bound = 0
    BY RequestsCount, HeldHold, BoundGrows DEF Bound
  <1>2. FirstSum(sentAt, Interval) \in Int
    <2>1. Interval \in Nat /\ \A k \in 0 .. Interval : FirstSum(sentAt, k) \in Int
      BY SentSums DEF RateInv, GateInv
    <2> QED
      BY <2>1
  <1>3. FirstSum(sentAt, Interval) + Cardinality(Held) <= Bound + 1
    BY DEF RateInv, Load
  <1>4. Sent = FirstSum(sentAt, Interval)
    <2>1. DOMAIN sentAt = 0 .. Interval - 1
      BY DEF RateInv, GateInv, Counts
    <2> QED
      BY <2>1 DEF Sent, FirstSum, SumOver
  <1> QED
    BY <1>1, <1>2, <1>3, <1>4 DEF RateKept

\* In any interval of the limiter at most one request leaves for CoinGlass, and once
\* the gate has been shut at most as many more as the semaphore admits
\* (RateLimiter.acquire, CoinGlassClient._request), for every plan, pause and scan.
THEOREM RateIsAlwaysKept == ClientSpec => []RateKept
  <1>1. CoinGlassAssumption
    BY CoinGlassAssumption
  <1> QED
    BY <1>1, RateInit, RateStep, RateIsKept, PTL DEF ClientSpec
=============================================================================
