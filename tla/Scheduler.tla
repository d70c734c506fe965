----------------------------- MODULE Scheduler ------------------------------
(***************************************************************************)
(* The clock of the worker (run_forever): a pipeline run at the start and  *)
(* then one behind the close of each bar, when the run before is over.     *)
(* A run takes as long as it takes, and a failed one counts like any.      *)
(***************************************************************************)
EXTENDS Integers

CONSTANTS
  Cycle,    \* _CYCLE_SECONDS
  Lag,      \* _TICK_LAG_SECONDS
  MaxClock  \* bound on the clock

ASSUME SchedulerAssumption ==
  /\ Cycle \in Nat \ {0} /\ Lag \in 1 .. Cycle - 1
  /\ MaxClock \in Nat

VARIABLES
  clock,    \* seconds, bars close at the multiples of Cycle
  phase,    \* "run", "sleep" or "stopped"
  stop,     \* whether a signal has set the event
  wake,     \* when wait_for times out
  first,    \* the bar in which the process was started
  ran,      \* the bars in which it has started a run
  overrun   \* the bars that began during a run

schedulerVars == <<clock, phase, stop, wake, first, ran, overrun>>

Bar(t) == t \div Cycle

\* Fault variant: to the nearest close, and one further.
NextTickRounded(t) == (Bar(t + Cycle \div 2) + 1) * Cycle + Lag

\* now + seconds_until_next_tick(now)
NextTick(t) == (Bar(t) + 1) * Cycle + Lag

SchedulerInit ==
  /\ clock \in 0 .. 2 * Cycle - 1
  /\ phase = "run" /\ stop = FALSE /\ wake = 0
  /\ first = Bar(clock) /\ ran = {first} /\ overrun = {}

\* run_tick is over, well or with a failure that is logged.
EndRun ==
  /\ phase = "run"
  /\ phase' = IF stop THEN "stopped" ELSE "sleep"
  /\ wake' = NextTick(clock)
  /\ UNCHANGED <<clock, stop, first, ran, overrun>>

BeginRun ==
  /\ phase = "sleep" /\ clock >= wake /\ ~stop
  /\ phase' = "run"
  /\ ran' = ran \cup {Bar(clock)}
  /\ UNCHANGED <<clock, stop, wake, first, overrun>>

\* SIGTERM or SIGINT: a run that is on is finished first.
Signal ==
  /\ ~stop /\ stop' = TRUE
  /\ phase' = IF phase = "sleep" THEN "stopped" ELSE phase
  /\ UNCHANGED <<clock, wake, first, ran, overrun>>

\* The process is started again.
Restart ==
  /\ phase = "stopped"
  /\ phase' = "run" /\ stop' = FALSE /\ wake' = 0
  /\ first' = Bar(clock) /\ ran' = {Bar(clock)} /\ overrun' = {}
  /\ UNCHANGED clock

\* The clock moves, but not past a wake-up.
Advance ==
  /\ clock < MaxClock
  /\ ~(phase = "sleep" /\ clock >= wake)
  /\ clock' = clock + 1
  /\ overrun' = IF phase = "run" /\ clock' % Cycle = 0
                THEN overrun \cup {Bar(clock')} ELSE overrun
  /\ UNCHANGED <<phase, stop, wake, first, ran>>

SchedulerNext == EndRun \/ BeginRun \/ Signal \/ Restart \/ Advance

SchedulerSpec == SchedulerInit /\ [][SchedulerNext]_schedulerVars

----------------------------------------------------------------------------
\* A bar of the process's life that is ripe, its lag over, had its run, unless a
\* run was on when it began: "дальше — по закрытию каждого 4h-бара" (run_forever)
\* holds for the bars that begin while the worker sleeps, and for no others.
SkipsOnlyWhenBusy ==
  phase # "stopped" =>
    \A b \in first + 1 .. Bar(clock) :
      clock > b * Cycle + Lag => b \in ran \cup overrun

=============================================================================
