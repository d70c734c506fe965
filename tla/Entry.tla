------------------------------- MODULE Entry --------------------------------
(***************************************************************************)
(* A candidate on its way to a position: the vote of the analysts          *)
(* (aggregate_signals), the verdict of the trader (apply_trader_verdict),  *)
(* the setup chain (_run_setup_chain), the devil's advocate, then, later   *)
(* and at another price, the fill (evaluate_fill) and the portfolio        *)
(* manager (PortfolioManager.evaluate).                                    *)
(*                                                                         *)
(* The agents answer anything their response models admit.  The market is  *)
(* the candles of the analysis and, when the fill asks again, others.      *)
(***************************************************************************)
EXTENDS SetupLevels, Sequences

CONSTANTS
  VotesHeard,    \* votes the analysts may give
  Convictions,   \* of the trader, in percent
  RsiLevels,     \* RSI values that decide: "oversold", "overbought" or "none"
  Backs,         \* lookbacks of swing references
  IntentsMade,   \* intents the setup builder may return
  Markets,       \* charts of the symbol
  Rates,         \* funding rates, in 1/100000
  Shrinkage,     \* CONFIDENCE_SHRINKAGE, in percent
  MinReward,     \* RISK_REWARD_MIN, in halves
  MaxDrift,      \* MAX_ENTRY_DRIFT_PCT, in thousandths
  KillSwitch,    \* FUNDING_KILL_SWITCH_PCT, in 1/100000
  MaxOpen,       \* MAX_CONCURRENT_POSITIONS
  MaxSameSide    \* MAX_SAME_DIRECTION

Analysts == {"macro", "derivatives", "sentiment", "technical"}
Weight == [macro |-> 20, derivatives |-> 25, sentiment |-> 20, technical |-> 35]
BiasThreshold == 15

MaxAttempts == 2      \* nodes.py, _MAX_ATTEMPTS
ResolveAttempts == 2  \* analysis.py, _SETUP_RESOLVE_ATTEMPTS
AdvocatePenalty == (3 * Whole) \div 20
AdvocateBoost == Whole \div 20

ASSUME EntryAssumption ==
  /\ VotesHeard \subseteq [Analysts -> -1..1]
  /\ Convictions \subseteq 0..100 /\ Shrinkage \in 0..100
  /\ Markets \subseteq Charts(Backs) /\ \A m \in Markets : m.close % Scale = 0
  /\ IntentsMade \subseteq Intents(Backs)
  /\ Rates \subseteq Int
  /\ {MinReward, MaxDrift, KillSwitch, MaxOpen, MaxSameSide} \subseteq Nat

\* The settings' values suit each other: half of a shrunken conviction is below
\* the gate, and the funding that the risk rules allow is 1 percent at most.
ASSUME SettingsAssumption ==
  /\ Shrinkage * 100 < Gate
  /\ MaxFundingCost <= 1000

VARIABLES
  stage,      \* what is done next with the candidate
  synthesis,  \* the weighted vote, the bias and the confluence
  rate,       \* the funding rate that the screener saw
  chart,      \* the candles of the analysis
  tries,      \* prompts in this round, and rounds
  intent,     \* the intent, {} before there is one
  setup,      \* the setup or the final signal, {} before there is one
  position    \* the position opened, {} if there is none

entryVars == <<stage, synthesis, rate, chart, tries, intent, setup, position>>

NoVote == [sum |-> 0, bias |-> "neutral", confluence |-> 0]
NoTries == [prompts |-> 0, rounds |-> 0]

EntryInit ==
  /\ stage = "vote"
  /\ synthesis = NoVote
  /\ rate \in Rates /\ chart \in Markets
  /\ tries = NoTries
  /\ intent = {} /\ setup = {} /\ position = {}

Stage(from, to) == stage = from /\ stage' = to

Rejected == "rejected"

----------------------------------------------------------------------------
(* The synthesis. *)

\* aggregate_signals: the weighted vote, in hundredths.
WeightedSum(v) ==
  Weight.macro * v["macro"] + Weight.derivatives * v["derivatives"]
    + Weight.sentiment * v["sentiment"] + Weight.technical * v["technical"]

\* _classify_bias.  On the threshold the sum of floats decides: 0.35 - 0.20 falls
\* short of 0.15, 0.20 - 0.25 + 0.20 exceeds it.
Bias(sum, v) ==
  LET strong == IF v["technical"] = 0 THEN BiasThreshold ELSE BiasThreshold + 1
  IN IF sum >= strong THEN "long" ELSE IF sum <= - strong THEN "short" ELSE "neutral"

AnalystConfluence(sum) == (Distance(sum, 0) * Shrinkage * Whole) \div 10000

Aggregates(v) ==
  /\ synthesis' = [sum |-> WeightedSum(v), bias |-> Bias(WeightedSum(v), v),
                   confluence |-> AnalystConfluence(WeightedSum(v))]
  /\ Stage("vote", IF synthesis'.bias = "neutral" THEN "gates" ELSE "debate")
  /\ UNCHANGED <<rate, chart, tries, intent, setup, position>>

\* Fault variant: the trader overrules the analysts at no cost.
Confluence_NoPenalty(verdict, conviction) == (conviction * Shrinkage * Whole) \div 10000

\* apply_trader_verdict: half for a trader against the vote.
Confluence(verdict, conviction) ==
  ((IF verdict = synthesis.bias THEN 2 ELSE 1) * conviction * Shrinkage * Whole) \div 20000

Decides(verdict, conviction) ==
  /\ Stage("debate", "gates")
  /\ synthesis' = IF verdict = "no_trade"
                  THEN [NoVote EXCEPT !.sum = synthesis.sum]
                  ELSE [sum |-> synthesis.sum, bias |-> verdict,
                        confluence |-> Confluence(verdict, conviction)]
  /\ UNCHANGED <<rate, chart, tries, intent, setup, position>>

----------------------------------------------------------------------------
(* The setup chain. *)

\* _rsi_extreme_blocks.
RsiBlocks(dir, rsi) ==
  \/ dir = "short" /\ rsi = "oversold"
  \/ dir = "long" /\ rsi = "overbought"

PassesGates(rsi) ==
  /\ synthesis.confluence >= Gate
  /\ synthesis.bias # "neutral"
  /\ ~ RsiBlocks(synthesis.bias, rsi)

Gates(rsi) ==
  /\ IF PassesGates(rsi)
     THEN Stage("gates", "build") /\ tries' = [prompts |-> 1, rounds |-> 1]
     ELSE Stage("gates", Rejected) /\ UNCHANGED tries
  /\ UNCHANGED <<synthesis, rate, chart, intent, setup, position>>

\* build_node and validate_node.  An invalid intent is asked for once more, then
\* there is no setup.
Builds(i) ==
  LET valid == IntentValid(i, synthesis.bias)
      again == tries.prompts < MaxAttempts
  IN /\ Stage("build", IF valid THEN "levels" ELSE IF again THEN "build" ELSE Rejected)
     /\ intent' = IF valid THEN {i} ELSE {}
     /\ tries' = IF ~ valid /\ again THEN [tries EXCEPT !.prompts = @ + 1] ELSE tries
     /\ UNCHANGED <<synthesis, rate, chart, setup, position>>

\* resolve_setup at the close of the analysis.  Without levels the graph runs a
\* second time, with a correction.
FindsLevels ==
  /\ Stage("levels", "risk")
  /\ \E i \in intent : Resolves(i, chart, chart.close) /\ setup' = {Setup(i, chart, chart.close)}
  /\ UNCHANGED <<synthesis, rate, chart, tries, intent, position>>

FindsNoLevels ==
  /\ \A i \in intent : ~ Resolves(i, chart, chart.close)
  /\ \/ /\ tries.rounds < ResolveAttempts
        /\ Stage("levels", "build")
        /\ tries' = [prompts |-> 1, rounds |-> tries.rounds + 1]
     \/ /\ tries.rounds = ResolveAttempts
        /\ Stage("levels", Rejected)
        /\ UNCHANGED tries
  /\ UNCHANGED <<synthesis, rate, chart, intent, setup, position>>

\* validate_risk.  A reward of exactly the minimum, as the default multiples of
\* ATR give it, may come out of the division on either side of it.
RiskOk ==
  /\ Stage("risk", "advocate")
  /\ \A s \in setup, i \in intent :
       /\ 2 * Reward(s) >= MinReward * Risk(s)
       /\ FundingBearable(s.direction, rate, i.hours)
  /\ UNCHANGED <<synthesis, rate, chart, tries, intent, setup, position>>

RiskRefused ==
  /\ Stage("risk", Rejected)
  /\ \E s \in setup, i \in intent :
       \/ 2 * Reward(s) <= MinReward * Risk(s)
       \/ ~ FundingBearable(s.direction, rate, i.hours)
  /\ UNCHANGED <<synthesis, rate, chart, tries, intent, setup, position>>

\* apply_devils_advocate, the veto and format_signal.
Advocate(risks) ==
  LET delta == IF risks >= 2 THEN - AdvocatePenalty ELSE IF risks = 0 THEN AdvocateBoost ELSE 0
      adjusted == Clamped(synthesis.confluence + delta, 0, Whole)
  IN /\ Stage("advocate", IF adjusted < Gate THEN Rejected ELSE "ready")
     /\ synthesis' = [synthesis EXCEPT !.confluence = adjusted]
     /\ UNCHANGED <<rate, chart, tries, intent, setup, position>>

----------------------------------------------------------------------------
(* The fill and the portfolio manager. *)

Drift(live) == \A s \in setup : Distance(live.close, s.entry) <= Permille(MaxDrift, s.entry)

\* evaluate_fill: the intent is resolved again, at the live price.
Filled(i, s, live) == Setup(i, live, live.close)

Fills(live) ==
  /\ Stage("ready", "evaluate")
  /\ Drift(live)
  /\ \E i \in intent, s \in setup :
       Resolves(i, live, live.close) /\ setup' = {Filled(i, s, live)}
  /\ UNCHANGED <<synthesis, rate, chart, tries, intent, position>>

\* No candles, a price that ran away, levels that no longer resolve.
FillFails ==
  /\ Stage("ready", Rejected)
  /\ UNCHANGED <<synthesis, rate, chart, tries, intent, setup, position>>

\* _gate, over a book of open positions and the dedup of the symbol: the slots,
\* the direction, the kill switch.  The drawdown breaker may refuse as well.
Admitted(book) ==
  /\ book.long + book.short < MaxOpen
  /\ \A s \in setup : book[s.direction] < MaxSameSide
  /\ Distance(rate, 0) < KillSwitch
  /\ ~ book.held

\* _open_position.
Opens(book) ==
  /\ Stage("evaluate", "taken")
  /\ Admitted(book)
  /\ position' = {[direction |-> s.direction, entry |-> s.entry, stop |-> s.stop,
                   target |-> s.target,
                   leverage |-> Leverage(i.type, i.aggression),
                   margin |-> MarginShare(AnalystConfluence(synthesis.sum))]
                    : s \in setup, i \in intent}
  /\ UNCHANGED <<synthesis, rate, chart, tries, intent, setup>>

Skips ==
  /\ Stage("evaluate", Rejected)
  /\ UNCHANGED <<synthesis, rate, chart, tries, intent, setup, position>>

\* run_analysis goes on with the next candidate.
NextCandidate ==
  /\ stage \in {Rejected, "taken"} /\ stage' = "vote"
  /\ synthesis' = NoVote /\ tries' = NoTries
  /\ rate' \in Rates /\ chart' \in Markets
  /\ intent' = {} /\ setup' = {} /\ position' = {}

Books == [long : 0..MaxOpen, short : 0..MaxOpen, held : BOOLEAN]

EntryNext ==
  \/ \E v \in VotesHeard : Aggregates(v)
  \/ \E verdict \in Directions \cup {"no_trade"}, c \in Convictions : Decides(verdict, c)
  \/ \E rsi \in RsiLevels : Gates(rsi)
  \/ \E i \in IntentsMade : Builds(i)
  \/ FindsLevels \/ FindsNoLevels \/ RiskOk \/ RiskRefused
  \/ \E risks \in 0..2 : Advocate(risks)
  \/ \E live \in Markets : Fills(live)
  \/ \E book \in Books : Opens(book)
  \/ FillFails \/ Skips \/ NextCandidate

EntrySpec == EntryInit /\ [][EntryNext]_entryVars

----------------------------------------------------------------------------
(* Properties. *)

\* resolve_setup, at the analysis and again at the fill: the stop, the entry and
\* the target are positive and in order for the direction, the stop is between
\* 0.3 and 8 percent away and the target at most 20 percent, whatever references
\* and multiples the model has chosen and whatever the chart looks like.
LevelsSound ==
  \A s \in setup :
    /\ s.stop > 0 /\ s.target > 0
    /\ OrderingOk(s.direction, s.entry, s.stop, s.target)
    /\ Risk(s) \in Permille(MinStop, s.entry)..Permille(MaxStop, s.entry)
    /\ Reward(s) <= Permille(MaxTarget, s.entry)

\* The trader has the last word on the direction, and yet no position is opened
\* against the vote of the analysts: half of a shrunken conviction is below the
\* gate, and the devil's advocate speaks after the gate.
NeverAgainstAnalysts ==
  \A p \in position : IF p.direction = "long" THEN synthesis.sum > 0 ELSE synthesis.sum < 0

\* entry_exit_fees per unit, for a position stopped out at its stop: 0.05 percent
\* (TAKER_FEE_RATE) on the way in and on the way out, rounded up.
StopFees(p) == (p.entry + p.stop) \div 2000 + 1

\* Leverage is chosen without a look at the stop.  A position that is stopped out
\* still loses less than its margin, with both fees and the funding that
\* validate_risk allows: the loss at the stop comes before a liquidation.
StopLossCovered ==
  \A p \in position :
    p.leverage * (Risk(p) + StopFees(p) + Permille(MaxFundingCost \div 100, p.entry)) < p.entry

\* Confluence, margin and leverage multiply.  One position that is stopped out
\* takes, fees included, less than a tenth of the equity: a single loss from the
\* high-water mark does not trip the drawdown breaker.
OneStopIsNoHalt ==
  \A p \in position :
    p.margin * p.leverage * (Risk(p) + StopFees(p)) < 1000 * p.entry
=============================================================================
