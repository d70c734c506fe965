----------------------------- MODULE CoinGlass ------------------------------
(***************************************************************************)
(* The CoinGlass client (CoinGlassClient._request) under the concurrent    *)
(* requests of a scan: a semaphore, a gate that a rate-limit answer shuts  *)
(* for all requests, and the leaky bucket of RateLimiter.                  *)
(*                                                                         *)
(* An action is what a task does between two awaits that suspend it.  A    *)
(* task that is woken by the gate runs before the loop turns to the next   *)
(* answer.  Time is counted in ticks, and every clock counts down.         *)
(***************************************************************************)
EXTENDS Integers, FiniteSets, FiniteSetsExt

CONSTANTS
  Requests,       \* calls of the fetch_ methods
  Unpaid,         \* those of endpoints that the active plan does not include
  MaxConcurrent,  \* _MAX_CONCURRENT
  Interval,       \* seconds between two slots of the RateLimiter
  Pause,          \* _RATE_LIMIT_PAUSE_S
  MaxRetries      \* _MAX_RETRIES

ASSUME CoinGlassAssumption ==
  /\ IsFiniteSet(Requests) /\ Unpaid \subseteq Requests
  /\ {MaxConcurrent, Interval, Pause, MaxRetries} \subseteq Nat \ {0}

VARIABLES
  task,        \* where the task of the request is
  attempt,     \* attempt of _request, from 0
  sleep,       \* ticks that the task still sleeps in acquire
  gate,        \* whether _gate is set
  reopenTask,  \* _reopen_task: "none", "running" or "done"
  pauseLeft,   \* ticks until it sets the gate
  debt,        \* ticks until _next_allowed, 0 if it has passed
  sentAt,      \* how many requests were sent a ticks ago, for a < Interval
  closing,     \* whether close opened the gate and still has to close the HTTP client
  closed       \* whether the HTTP client is closed

clientVars == <<task, attempt, sleep, gate, reopenTask, pauseLeft, debt, sentAt,
                closing, closed>>

Ended == {"answered", "dropped", "failed"}
Waiting == {"gate", "gate again"}      \* at _gate.wait(), before and behind acquire
Woken == {"woken", "woken again"}
TaskStates == {"new", "sleep", "sent"} \cup Waiting \cup Woken \cup Ended

ClientInit(start) ==
  /\ task = [r \in Requests |-> start]
  /\ attempt = [r \in Requests |-> 0]
  /\ sleep = [r \in Requests |-> 0]
  /\ gate = TRUE /\ reopenTask = "none" /\ pauseLeft = 0
  /\ debt = 0
  /\ sentAt = [a \in 0 .. Interval - 1 |-> 0]
  /\ closing = FALSE /\ closed = FALSE

Holders == {r \in Requests : task[r] \notin {"new"} \cup Ended}

MovesTo(r, place) == task' = [task EXCEPT ![r] = place]

----------------------------------------------------------------------------
(* One request. *)

\* self._http.get: a closed client raises.
Sends(r) ==
  IF closed
  THEN MovesTo(r, "failed") /\ UNCHANGED sentAt
  ELSE MovesTo(r, "sent") /\ sentAt' = [sentAt EXCEPT ![0] = @ + 1]

\* Fault variant: the gate is not looked at again behind the limiter.
SendsUngated(r) == Sends(r)

\* The second _gate.wait(): the gate may have shut while the task slept.
PassesGate(r) ==
  IF gate THEN Sends(r) ELSE MovesTo(r, "gate again") /\ UNCHANGED sentAt

\* Fault variant: the next slot is counted from now, not from the slot taken.
AcquiresFromNow(r) ==
  /\ debt' = Interval
  /\ sleep' = [sleep EXCEPT ![r] = debt]
  /\ IF debt = 0 THEN PassesGate(r) ELSE MovesTo(r, "sleep") /\ UNCHANGED sentAt

\* RateLimiter.acquire: the slot is taken under the lock and slept for outside.
Acquires(r) ==
  /\ debt' = debt + Interval
  /\ sleep' = [sleep EXCEPT ![r] = debt]
  /\ IF debt = 0 THEN PassesGate(r) ELSE MovesTo(r, "sleep") /\ UNCHANGED sentAt

\* An endpoint outside of the plan answers without a request.
Refuse(r) ==
  /\ task[r] = "new" /\ r \in Unpaid
  /\ MovesTo(r, "answered")
  /\ UNCHANGED <<attempt, sleep, gate, reopenTask, pauseLeft, debt, sentAt, closing, closed>>

\* The semaphore is taken and the loop begins.
Begin(r) ==
  /\ task[r] = "new" /\ r \notin Unpaid
  /\ Cardinality(Holders) < MaxConcurrent
  /\ IF gate THEN Acquires(r) ELSE MovesTo(r, "gate") /\ UNCHANGED <<sleep, debt, sentAt>>
  /\ UNCHANGED <<attempt, gate, reopenTask, pauseLeft, closing, closed>>

WakeUp(r) ==
  /\ task[r] = "sleep" /\ sleep[r] = 0
  /\ PassesGate(r)
  /\ UNCHANGED <<attempt, sleep, gate, reopenTask, pauseLeft, debt, closing, closed>>

\* Event.wait does not look at the flag again once it is woken.
Resume(r) ==
  \/ /\ task[r] = "woken" /\ Acquires(r)
     /\ UNCHANGED <<attempt, gate, reopenTask, pauseLeft, closing, closed>>
  \/ /\ task[r] = "woken again" /\ Sends(r)
     /\ UNCHANGED <<attempt, sleep, gate, reopenTask, pauseLeft, debt, closing, closed>>

NobodyWoken == \A r \in Requests : task[r] \notin Woken

\* An answer with data, or one that ends the request: a dead key, another HTTP
\* error, a timeout, an error in the body.
Answer(r) ==
  /\ task[r] = "sent" /\ NobodyWoken
  /\ \E end \in {"answered", "failed"} : MovesTo(r, end)
  /\ UNCHANGED <<attempt, sleep, gate, reopenTask, pauseLeft, debt, sentAt, closing, closed>>

\* Fault variant: a task that has been started once is not started again.
ShutsGateOnce ==
  /\ gate' = FALSE
  /\ IF gate /\ reopenTask = "none"
     THEN reopenTask' = "running" /\ pauseLeft' = Pause
     ELSE UNCHANGED <<reopenTask, pauseLeft>>

\* The first to be told shuts the gate; a task that is to open it is started
\* unless one is on its way.
ShutsGate ==
  /\ gate' = FALSE
  /\ IF gate /\ reopenTask # "running"
     THEN reopenTask' = "running" /\ pauseLeft' = Pause
     ELSE UNCHANGED <<reopenTask, pauseLeft>>

\* Too Many Requests, as a status or in the body.
Limited(r) ==
  /\ task[r] = "sent" /\ NobodyWoken
  /\ IF attempt[r] < MaxRetries - 1
     THEN /\ ShutsGate
          /\ MovesTo(r, "gate")
          /\ attempt' = [attempt EXCEPT ![r] = @ + 1]
     ELSE /\ MovesTo(r, "dropped")
          /\ UNCHANGED <<attempt, gate, reopenTask, pauseLeft>>
  /\ UNCHANGED <<sleep, debt, sentAt, closing, closed>>

\* The scan gives the request up; its slot stays taken.
Abandon(r) ==
  /\ r \in Holders
  /\ MovesTo(r, "failed")
  /\ UNCHANGED <<attempt, sleep, gate, reopenTask, pauseLeft, debt, sentAt, closing, closed>>

----------------------------------------------------------------------------
(* The gate, the client, the clock. *)

\* _gate.set() wakes all that wait.
Opens ==
  /\ gate' = TRUE
  /\ reopenTask' = "done" /\ pauseLeft' = 0
  /\ task' = [r \in Requests |->
       CASE task[r] = "gate" -> "woken"
         [] task[r] = "gate again" -> "woken again"
         [] OTHER -> task[r]]

Reopen ==
  /\ reopenTask = "running" /\ pauseLeft = 0
  /\ Opens
  /\ UNCHANGED <<attempt, sleep, debt, sentAt, closing, closed>>

\* close: a reopening on its way is cancelled, which opens the gate; close awaits
\* that before it closes the HTTP client, and whom the gate woke runs first.
Close ==
  /\ ~closing /\ ~closed
  /\ IF reopenTask = "running"
     THEN Opens /\ closing' = TRUE /\ UNCHANGED closed
     ELSE closed' = TRUE /\ UNCHANGED <<task, gate, reopenTask, pauseLeft, closing>>
  /\ UNCHANGED <<attempt, sleep, debt, sentAt>>

ClosesHttp ==
  /\ closing /\ NobodyWoken
  /\ closing' = FALSE /\ closed' = TRUE
  /\ UNCHANGED <<task, attempt, sleep, gate, reopenTask, pauseLeft, debt, sentAt>>

Less(n) == IF n = 0 THEN 0 ELSE n - 1

\* Time passes when no task has something to do.
Elapse ==
  /\ NobodyWoken /\ ~closing
  /\ \A r \in Requests : ~(task[r] = "sleep" /\ sleep[r] = 0)
  /\ ~(reopenTask = "running" /\ pauseLeft = 0)
  /\ sleep' = [r \in Requests |-> Less(sleep[r])]
  /\ pauseLeft' = Less(pauseLeft)
  /\ debt' = Less(debt)
  /\ sentAt' = [a \in DOMAIN sentAt |-> IF a = 0 THEN 0 ELSE sentAt[a - 1]]
  /\ UNCHANGED <<task, attempt, gate, reopenTask, closing, closed>>

\* The life of a call of a fetch_ method.
Fetch(r) == Refuse(r) \/ Begin(r) \/ WakeUp(r) \/ Resume(r) \/ Answer(r) \/ Limited(r)

ClientNext ==
  \/ \E r \in Requests : Fetch(r) \/ Abandon(r)
  \/ Reopen
  \/ Close
  \/ ClosesHttp
  \/ Elapse

\* The event loop runs what is due, the clock goes on, a request that is sent is
\* answered or times out (settings.HTTP_TIMEOUT_S), and the semaphore is handed on
\* in the order of asking.
ClientFairness ==
  /\ \A r \in Requests : SF_clientVars(Begin(r)) /\ WF_clientVars(Fetch(r))
  /\ WF_clientVars(Reopen) /\ WF_clientVars(ClosesHttp)
  /\ WF_clientVars(Elapse)

ClientSpec == ClientInit("new") /\ [][ClientNext]_clientVars /\ ClientFairness

----------------------------------------------------------------------------
\* While a pause is on, nothing is sent: not by the requests that were in front of
\* the gate, not by those that had passed it and slept for their slot, and not by
\* the retries of those that were answered in the meantime.
PauseRespected ==
  [][pauseLeft > 0 => sentAt'[0] <= sentAt[0]]_clientVars

Sent == MapThenSumSet(LAMBDA a : sentAt[a], DOMAIN sentAt)

\* The limiter lets one request pass in an interval, also when slots are given up.
\* Those that it let pass and the gate then held back, as many as the semaphore
\* admits, may come on top when the pause is over.
RateKept ==
  /\ reopenTask = "none" => Sent <= 1
  /\ Sent <= MaxConcurrent + 1

\* However often the gate shuts, every request ends.
EveryRequestEnds == \A r \in Requests : <>(task[r] \in Ended)

=============================================================================
