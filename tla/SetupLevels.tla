----------------------------- MODULE SetupLevels -----------------------------
(***************************************************************************)
(* From a setup intent to prices: resolve_setup                            *)
(* (app/domain/synthesis/levelcomputer.py), the direction rules of         *)
(* _validate_intent (app/services/agents/setup/nodes.py), validate_risk    *)
(* (riskvalidator.py), compute_leverage (app/domain/risk/leverage.py) and  *)
(* confidence_risk_pct (sizing.py).                                        *)
(*                                                                         *)
(* Prices are integers; a price that is entered at is a multiple of Scale, *)
(* so that its 0.3, 8 and 20 percent are integers.  ATR and its multiples  *)
(* are kept in tenths.  Comparisons are exact: where floating point may    *)
(* round an equality either way, the actions that use them say so.         *)
(***************************************************************************)
EXTENDS Integers

Scale == 1000
Permille(n, price) == n * (price \div Scale)

Directions == {"long", "short"}
SetupTypes == {"trend_continuation", "breakout", "reversal"}
Aggression == {"conservative", "moderate", "aggressive"}

MinStop == 3      \* _MIN_STOP_DISTANCE_PCT, in thousandths
MaxStop == 80     \* _MAX_STOP_DISTANCE_PCT
MaxTarget == 200  \* _MAX_TARGET_DISTANCE_PCT
StopMultiple == 20    \* _DEFAULT_ATR_MULTIPLIER, in tenths
TargetMultiple == 30  \* _DEFAULT_TARGET_ATR_MULTIPLIER

NoLevel == 0  \* no previous day: read as a price that is not positive
Unset == 0    \* a multiplier that is null, or zero: "or" takes the default

\* The candles of a symbol as the levels see them: the last close, ATR, the swing
\* extremes for each lookback, the previous day.
Charts(Backs) ==
  [close : Nat, atr : Nat, high : [Backs -> Nat], low : [Backs -> Nat],
   prevHigh : Nat, prevLow : Nat]

----------------------------------------------------------------------------
(* The geometry of a trade. *)

\* The price d further in the direction of the trade.
Ahead(dir, price, d) == IF dir = "long" THEN price + d ELSE price - d

\* y lies further in the direction of the trade than x.
Beyond(dir, x, y) == IF dir = "long" THEN x < y ELSE y < x

Distance(x, y) == IF x <= y THEN y - x ELSE x - y

Clamped(x, low, high) ==
  IF x < low THEN low ELSE IF x > high THEN high ELSE x

OrderingOk(dir, entry, stop, target) ==
  Beyond(dir, stop, entry) /\ Beyond(dir, entry, target)

----------------------------------------------------------------------------
(* The intent of the setup builder. *)

StopKinds(dir) ==
  {"atr_distance", IF dir = "long" THEN "swing_low" ELSE "swing_high"}

TargetKinds(dir) ==
  {"atr_distance"} \cup IF dir = "long" THEN {"swing_high", "prev_day_high"}
                        ELSE {"swing_low", "prev_day_low"}

Intents(Backs) ==
  [direction : Directions, type : SetupTypes, aggression : Aggression,
   stop : {"atr_distance", "swing_low", "swing_high"}, stopBack : Backs,
   stopAtr : Int, offset : 1..30,
   target : {"atr_distance", "swing_low", "swing_high", "prev_day_low", "prev_day_high"},
   targetBack : Backs, targetAtr : Int, hours : 4..168]

\* _validate_intent: the references suit the direction that was asked for.
IntentValid(i, dir) ==
  /\ i.direction = dir
  /\ i.stop \in StopKinds(dir)
  /\ i.target \in TargetKinds(dir)

----------------------------------------------------------------------------
(* The levels. *)

Anchor(kind, back, m) ==
  CASE kind = "swing_high" -> m.high[back]
    [] kind = "swing_low" -> m.low[back]
    [] kind = "prev_day_high" -> m.prevHigh
    [] kind = "prev_day_low" -> m.prevLow

AtrMultiple(multiple, default, m) ==
  (IF multiple = Unset THEN default ELSE multiple) * m.atr

\* Fault variant: the distance is not limited.
StopPrice_Unclamped(i, m, entry) ==
  IF i.stop = "atr_distance"
  THEN Ahead(i.direction, entry, - AtrMultiple(i.stopAtr, StopMultiple, m))
  ELSE Ahead(i.direction, Anchor(i.stop, i.stopBack, m), - (i.offset * m.atr))

\* A multiple of ATR is limited to the bounds; an anchor is moved by the offset.
StopPrice(i, m, entry) ==
  IF i.stop = "atr_distance"
  THEN Ahead(i.direction, entry,
             - Clamped(AtrMultiple(i.stopAtr, StopMultiple, m),
                       Permille(MinStop, entry), Permille(MaxStop, entry)))
  ELSE Ahead(i.direction, Anchor(i.stop, i.stopBack, m), - (i.offset * m.atr))

WantedTarget(i, m, entry) ==
  IF i.target = "atr_distance"
  THEN Ahead(i.direction, entry, AtrMultiple(i.targetAtr, TargetMultiple, m))
  ELSE Anchor(i.target, i.targetBack, m)

\* A target that is no target gives way to a move of twice the risk.
UncappedTarget(i, m, entry) ==
  LET stop == StopPrice(i, m, entry)
      wanted == WantedTarget(i, m, entry)
  IN IF wanted > 0 /\ OrderingOk(i.direction, entry, stop, wanted) THEN wanted
     ELSE Ahead(i.direction, entry, 2 * Distance(entry, stop))

TargetPrice(i, m, entry) ==
  LET target == UncappedTarget(i, m, entry)
  IN IF Distance(target, entry) <= Permille(MaxTarget, entry) THEN target
     ELSE Ahead(i.direction, entry, Permille(MaxTarget, entry))

\* Fault variant: an anchored stop may be as near or as far as it likes.
Resolves_AnyDistance(i, m, entry) ==
  /\ entry > 0 /\ m.atr > 0
  /\ StopPrice(i, m, entry) > 0 /\ Beyond(i.direction, StopPrice(i, m, entry), entry)

\* resolve_setup does not return None.
Resolves(i, m, entry) ==
  LET stop == StopPrice(i, m, entry)
  IN /\ entry > 0 /\ m.atr > 0
     /\ i.stop # "atr_distance" =>
          Distance(entry, stop) \in Permille(MinStop, entry)..Permille(MaxStop, entry)
     /\ stop > 0 /\ Beyond(i.direction, stop, entry)

Setup(i, m, entry) ==
  [direction |-> i.direction, entry |-> entry,
   stop |-> StopPrice(i, m, entry), target |-> TargetPrice(i, m, entry)]

Risk(s) == Distance(s.entry, s.stop)
Reward(s) == Distance(s.target, s.entry)

----------------------------------------------------------------------------
(* Risk rules and size. *)

CONSTANTS
  MaxFundingCost,   \* FUNDING_COST_MAX_PCT, in 1/100000
  MaxLeverage,      \* MAX_LEVERAGE
  Gate,             \* CONFLUENCE_GATE, in 1/20000
  MinMargin,        \* MARGIN_PER_TRADE_MIN_PCT and
  MaxMargin         \* MARGIN_PER_TRADE_MAX_PCT, in 1/10000

Whole == 20000  \* confluence 1.0

ASSUME RiskAssumption ==
  /\ MaxFundingCost \in Nat /\ MaxLeverage \in Nat \ {0}
  /\ Gate \in 0..(Whole - 1)
  /\ MinMargin \in Nat /\ MaxMargin \in Nat /\ MinMargin <= MaxMargin

\* The cost of funding over the hold, per 8 hours of the rate: the long pays a
\* positive rate and the short receives it.
FundingCost(dir, rate, hours) == (IF dir = "long" THEN rate ELSE - rate) * hours

FundingBearable(dir, rate, hours) == FundingCost(dir, rate, hours) <= MaxFundingCost * 8

LeverageTable ==
  [t \in SetupTypes |->
     CASE t = "trend_continuation" -> [conservative |-> 3, moderate |-> 5, aggressive |-> 8]
       [] t = "breakout" -> [conservative |-> 3, moderate |-> 5, aggressive |-> 7]
       [] t = "reversal" -> [conservative |-> 2, moderate |-> 3, aggressive |-> 5]]

Leverage(type, aggression) == Clamped(LeverageTable[type][aggression], 1, MaxLeverage)

\* Fault variant: the whole of the confluence counts, not what is over the gate.
MarginShare_FromZero(confluence) ==
  MinMargin + (Clamped(2 * confluence, 0, Whole) * (MaxMargin - MinMargin)) \div Whole

\* The margin of a trade grows from the gate to full confluence.
MarginShare(confluence) ==
  MinMargin + (Clamped(confluence - Gate, 0, Whole - Gate) * (MaxMargin - MinMargin))
                \div (Whole - Gate)
=============================================================================
