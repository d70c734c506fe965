----------------------------- MODULE AnalysisRun -----------------------------
(***************************************************************************)
(* The analysis stage of the pipeline: run_analysis, _analyze_candidate    *)
(* and _run_setup_chain (app/engines/worker/pipeline/analysis.py), with    *)
(* the debate (app/services/analysts/debate.py) and the setup graph        *)
(* (app/services/agents/setup/), over the LLM gateway.                     *)
(*                                                                         *)
(* A run takes its candidates one after the other.  Each waits for one     *)
(* agent at a time, except in the debate, which gathers two: when one of   *)
(* them fails, gather raises at once and the other call goes on alone.  A  *)
(* failed candidate is logged and the run goes on with the next.           *)
(*                                                                         *)
(* What the agents answer, and what the deterministic stages make of it    *)
(* (aggregation, levels, risk rules, thresholds), is a choice.             *)
(***************************************************************************)
EXTENDS LLMGateway

CONSTANTS
  Runs,    \* runs of the pipeline: the worker's tick, the command
  Count    \* for each run, the number of its candidates

ASSUME RunAssumption == Count \in [Runs -> Nat \ {0}]

MaxAttempts == 2      \* nodes.py, _MAX_ATTEMPTS
ResolveAttempts == 2  \* analysis.py, _SETUP_RESOLVE_ATTEMPTS

Debaters == {"bull", "bear"}
LoneAgents == {"macro", "derivatives", "sentiment", "technical", "trader", "setup", "advocate"}
Agents == LoneAgents \cup Debaters

\* Macro is asked once per run, in the place of a candidate 0.
Places(r) == 0..Count[r]
RunTasks == UNION {{r} \X Places(r) \X Agents : r \in Runs}
ASSUME TaskAssumption == Tasks = RunTasks

Steps == LoneAgents \cup {"idle", "candles", "debate", "failing", "done"}
Verdicts == {"none", "skipped", "failed", "reported"}

VARIABLES
  at,      \* per run: where it is (candidate, step, the agents heard in this
           \* step, prompts and rounds of the setup, calls for the candidate)
  verdict  \* per run and place: how it ended

vars == <<gateVars, at, verdict>>

Init ==
  /\ GatewayInit
  /\ at = [r \in Runs |-> [cand |-> 0, step |-> "idle", heard |-> {},
                           prompts |-> 0, rounds |-> 0, calls |-> 0]]
  /\ verdict = [r \in Runs |-> [c \in Places(r) |-> "none"]]

----------------------------------------------------------------------------
(* Waiting for agents. *)

\* The agents that a step calls.
Called(step) ==
  IF step = "debate" THEN Debaters ELSE {step} \cap LoneAgents

\* The place p, with the calls of its step, which are started.
GoesTo(r, p) ==
  /\ at' = [at EXCEPT ![r] = [p EXCEPT !.heard = {}, !.calls = @ + Cardinality(Called(p.step))]]
  /\ Asks({<<r, p.cand, a>> : a \in Called(p.step)})

MovesTo(r, step) == GoesTo(r, [at[r] EXCEPT !.step = step]) /\ UNCHANGED verdict

\* The candidate is through.  The next one begins; without a macro report, or
\* after the last, the run is over.
Settles(r, v) ==
  LET c == at[r].cand
      over == c = Count[r] \/ (c = 0 /\ v = "failed")
  IN /\ verdict' = [verdict EXCEPT ![r][c] = v]
     /\ GoesTo(r, [cand |-> IF over THEN c ELSE c + 1,
                   step |-> IF over THEN "done" ELSE "derivatives",
                   heard |-> {}, prompts |-> 0, rounds |-> 0, calls |-> 0])

\* Somebody waits for the call t; if not, its outcome is lost.
Awaited(t) ==
  LET p == at[t[1]] IN p.cand = t[2] /\ t[3] \in Called(p.step)

Gets(t) ==
  /\ at' = IF Awaited(t) THEN [at EXCEPT ![t[1]].heard = @ \cup {t[3]}] ELSE at
  /\ UNCHANGED verdict

\* Fault variant: the failure is logged where it happens and not raised.
Misses_Swallows(t) == UNCHANGED <<at, verdict>>

\* gather, or the await, raises.
Misses(t) ==
  /\ at' = IF Awaited(t) THEN [at EXCEPT ![t[1]].step = "failing"] ELSE at
  /\ UNCHANGED verdict

CallPasses(t) == Admits(t) /\ UNCHANGED <<at, verdict>>
CallRefused(t) == Refuses(t) /\ Misses(t)
CallAnswered(t, cost) == Answers(t, cost) /\ Gets(t)
CallBreaks(t) == Breaks(t) /\ Misses(t)

\* Fault variant: the first answer of the debate is enough.
Heard_First(r, step) ==
  at[r].step = step /\ at[r].heard # {}

\* All the calls of the step have answered.
Heard(r, step) ==
  /\ at[r].step = step
  /\ Called(step) # {} /\ at[r].heard = Called(step)

----------------------------------------------------------------------------
(* The stages of a candidate. *)

Starts(r) == at[r].step = "idle" /\ MovesTo(r, "macro")

MacroKnown(r) == Heard(r, "macro") /\ Settles(r, "reported")

Derivatives(r) == Heard(r, "derivatives") /\ MovesTo(r, "sentiment")

Sentiment(r) == Heard(r, "sentiment") /\ MovesTo(r, "candles")

\* The candles are fetched; without any the candidate is skipped.
Candles(r) ==
  /\ at[r].step = "candles"
  /\ MovesTo(r, "technical") \/ Settles(r, "skipped") \/ Settles(r, "failed")

\* A neutral vote has no debate, and the gates of the setup chain stop it.
Technical(r) ==
  /\ Heard(r, "technical")
  /\ MovesTo(r, "debate") \/ Settles(r, "reported")

Debate(r) == Heard(r, "debate") /\ MovesTo(r, "trader")

AsksSetup(r, prompts, rounds) ==
  /\ GoesTo(r, [at[r] EXCEPT !.step = "setup", !.prompts = prompts, !.rounds = rounds])
  /\ UNCHANGED verdict

\* The gates of _run_setup_chain: confluence, direction, RSI.
Trader(r) ==
  /\ Heard(r, "trader")
  /\ AsksSetup(r, 1, 1) \/ Settles(r, "reported")

\* Fault variant: the retry counter is compared with <=.
Reprompts_OneMore(r) ==
  at[r].prompts <= MaxAttempts /\ AsksSetup(r, at[r].prompts + 1, at[r].rounds)

\* route_after_validate: an invalid intent, and an attempt is left.
Reprompts(r) ==
  at[r].prompts < MaxAttempts /\ AsksSetup(r, at[r].prompts + 1, at[r].rounds)

\* resolve_setup finds no levels: the graph starts afresh with a correction.
Reresolves(r) ==
  at[r].rounds < ResolveAttempts /\ AsksSetup(r, 1, at[r].rounds + 1)

\* Rejected: no valid intent, no levels, or a risk rule.
Setup(r) ==
  /\ Heard(r, "setup")
  /\ \/ Reprompts(r) \/ Reresolves(r)
     \/ MovesTo(r, "advocate")
     \/ Settles(r, "reported")

\* apply_devils_advocate: below the gate is a veto.
Advocate(r) ==
  /\ Heard(r, "advocate")
  /\ Settles(r, "reported")

\* A call has raised, or the code between two calls.
Fails(r) ==
  /\ at[r].step = "failing" \/ \E s \in LoneAgents \cup {"debate"} : Heard(r, s)
  /\ Settles(r, "failed")

Continues(r) ==
  \/ MacroKnown(r) \/ Derivatives(r) \/ Sentiment(r) \/ Candles(r) \/ Technical(r)
  \/ Debate(r) \/ Trader(r) \/ Setup(r) \/ Advocate(r) \/ Fails(r)

CallEnds(t) ==
  \/ CallPasses(t) \/ CallRefused(t) \/ CallBreaks(t)
  \/ \E cost \in 0..MaxCost : CallAnswered(t, cost)

Next ==
  \/ \E r \in Runs : Starts(r) \/ Continues(r)
  \/ \E t \in Tasks : CallEnds(t)
  \/ NewDay /\ UNCHANGED <<at, verdict>>

Spec == Init /\ [][Next]_vars

----------------------------------------------------------------------------
(* Properties. *)

CallsOf(r, c) == {t \in asked \cup flight : t[1] = r /\ t[2] = c}

\* The values the variables range over.
TypeOK ==
  /\ GatewayTypeOK
  /\ \A r \in Runs :
       /\ at[r].cand \in Places(r) /\ at[r].step \in Steps
       /\ at[r].step # "failing" => at[r].heard \subseteq Called(at[r].step)
       /\ at[r].prompts \in 0..MaxAttempts /\ at[r].rounds \in 0..ResolveAttempts
       /\ at[r].calls \in Nat
       /\ verdict[r] \in [Places(r) -> Verdicts]

\* Nothing of a candidate outlives its verdict, except one of the two calls of a
\* debate whose other call has failed.  So the calls in flight are two per run
\* and one for each failed candidate, which bounds the overshoot of the budget.
LoneStragglers ==
  \A r \in Runs : \A c \in Places(r) :
    /\ Cardinality(CallsOf(r, c)) <= 2
    /\ verdict[r][c] # "none" /\ CallsOf(r, c) # {} =>
         /\ verdict[r][c] = "failed"
         /\ \E a \in Debaters : CallsOf(r, c) = {<<r, c, a>>}

\* The two retry loops, one inside the other, ask for a setup four times at
\* most: a candidate costs eleven calls and no more.
CallsBounded ==
  \A r \in Runs : at[r].calls <= 7 + MaxAttempts * ResolveAttempts

\* run_analysis: the failure of one candidate does not stop the run.  A run that
\* has begun and is not over has something that carries it on: the answers it
\* waits for, or a call that will give one.  And it leaves no candidate behind
\* it without a verdict; without macro it ends.
RunGoesOn ==
  \A r \in Runs :
    LET p == at[r]
    IN /\ p.step \notin {"idle", "candles", "failing", "done"} =>
            \A a \in Called(p.step) \ p.heard : <<r, p.cand, a>> \in asked \cup flight
       /\ \A c \in Places(r) : c < p.cand => verdict[r][c] # "none"
       /\ p.step = "done" => verdict[r][0] = "failed" \/ verdict[r][Count[r]] # "none"
=============================================================================
