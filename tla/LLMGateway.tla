----------------------------- MODULE LLMGateway ------------------------------
(***************************************************************************)
(* The door to the LLM: LLMService.structured (app/llm_gateway/service.py) *)
(* with DailyBudgetGuard (budget.py) and LLMClient.complete.               *)
(*                                                                         *)
(* A call checks the daily budget in one short transaction, asks the model *)
(* outside of any, and records its cost in a second transaction.  Calls of *)
(* several tasks and processes interleave between the three.  A call that  *)
(* fails after the check records nothing, whatever the provider charged.   *)
(***************************************************************************)
EXTENDS Integers, FiniteSets

CONSTANTS
  Tasks,    \* the calls that may be made
  Cap,      \* settings.LLM_DAILY_BUDGET_USD
  MaxCost   \* bound: the cost of one call

ASSUME GatewayAssumption == Cap \in Nat /\ MaxCost \in Nat

VARIABLES
  spent,   \* the cost of today's llm_call events
  asked,   \* calls that have not checked the budget yet
  flight,  \* calls that passed the check and recorded no cost yet
  peak     \* history: the most calls that were in flight at a time

gateVars == <<spent, asked, flight, peak>>

GatewayInit == spent = 0 /\ asked = {} /\ flight = {} /\ peak = 0

Larger(a, b) == IF a >= b THEN a ELSE b

\* The calls T are started.
Asks(T) ==
  /\ T \subseteq Tasks
  /\ asked' = asked \cup T
  /\ UNCHANGED <<spent, flight, peak>>

\* Fault variant: the budget is not looked at.
Admits_Unchecked(t) ==
  /\ t \in asked
  /\ asked' = asked \ {t}
  /\ flight' = flight \cup {t}
  /\ peak' = Larger(peak, Cardinality(flight'))
  /\ UNCHANGED spent

\* ensure_within_budget lets the call through.
Admits(t) ==
  /\ t \in asked /\ spent < Cap
  /\ asked' = asked \ {t}
  /\ flight' = flight \cup {t}
  /\ peak' = Larger(peak, Cardinality(flight'))
  /\ UNCHANGED spent

\* It raises: the budget is spent, or the database does not answer.
Refuses(t) ==
  /\ t \in asked
  /\ asked' = asked \ {t}
  /\ UNCHANGED <<spent, flight, peak>>

\* The model has answered and the cost is recorded.
Answers(t, cost) ==
  /\ t \in flight
  /\ flight' = flight \ {t}
  /\ spent' = spent + cost
  /\ UNCHANGED <<asked, peak>>

\* The completion fails, times out or is cancelled, or its event is not written.
Breaks(t) ==
  /\ t \in flight
  /\ flight' = flight \ {t}
  /\ UNCHANGED <<spent, asked, peak>>

\* A UTC day begins; the calls in flight will be booked on it.
NewDay ==
  /\ spent > 0
  /\ spent' = 0
  /\ UNCHANGED <<asked, flight, peak>>

GatewayNext ==
  \/ \E T \in SUBSET Tasks : Asks(T)
  \/ \E t \in Tasks : Admits(t) \/ Refuses(t) \/ Breaks(t)
  \/ \E t \in Tasks, cost \in 0..MaxCost : Answers(t, cost)
  \/ NewDay

GatewaySpec == GatewayInit /\ [][GatewayNext]_gateVars

----------------------------------------------------------------------------

GatewayTypeOK ==
  /\ spent \in Nat /\ peak \in Nat
  /\ asked \subseteq Tasks /\ flight \subseteq Tasks

\* budget.py:24-26: the cap is soft, parallel calls may overshoot it a little.
\* How little: by the cost of what was in flight at one time, less the cent that
\* was left, over any number of calls, failures and days.
OvershootBounded == spent > 0 => spent <= Cap - 1 + MaxCost * peak
=============================================================================
