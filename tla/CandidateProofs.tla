--------------------------- MODULE CandidateProofs ---------------------------
(***************************************************************************)
(* Proofs about the two ends of a candidate's way: Entry, from the votes   *)
(* of the analysts to the levels and the size of a trade, and MarketScan,  *)
(* from the listings to the candidates and what is said of them.           *)
(***************************************************************************)
EXTENDS Entry, MarketScan, FoldTheorems, SequenceTheorems

\* A setup at the close of a chart, with its levels in order and within the bounds.
Sound(s) ==
  /\ s.direction \in Directions
  /\ s.entry \in Nat /\ s.entry % Scale = 0
  /\ \E m \in Markets : s.entry = m.close
  /\ s.stop \in Int /\ s.target \in Int
  /\ s.stop > 0 /\ s.target > 0
  /\ OrderingOk(s.direction, s.entry, s.stop, s.target)
  /\ Risk(s) \in Permille(MinStop, s.entry)..Permille(MaxStop, s.entry)
  /\ Reward(s) <= Permille(MaxTarget, s.entry)

----------------------------------------------------------------------------
(* Levels. *)

\* Ten thousandths, hundredths: the percentages of a multiple of Scale.
LEMMA PermilleInt ==
  ASSUME NEW e \in Nat, e % Scale = 0, e > 0
  PROVE  \E k \in Nat : /\ k > 0 /\ e = 1000 * k
                        /\ Permille(MinStop, e) = 3 * k
                        /\ Permille(MaxStop, e) = 80 * k
                        /\ Permille(MaxTarget, e) = 200 * k
<1>1. e \div 1000 \in Nat /\ e = 1000 * (e \div 1000) /\ e \div 1000 > 0
  BY DEF Scale
<1>. QED BY <1>1 DEF Permille, Scale, MinStop, MaxStop, MaxTarget

\* A clamped integer is within the limits.
LEMMA ClampedWithin ==
  ASSUME NEW x \in Int, NEW low \in Int, NEW high \in Int, low <= high
  PROVE  Clamped(x, low, high) \in low..high
BY DEF Clamped

\* The stop of a setup that resolves is on its side of the entry and within the
\* bounds: a multiple of ATR because it is limited, an anchor because it is checked.
LEMMA StopWithin ==
  ASSUME NEW i, NEW m, NEW e \in Nat, e % Scale = 0,
         i.direction \in Directions, StopPrice(i, m, e) \in Int,
         i.stop = "atr_distance" => AtrMultiple(i.stopAtr, StopMultiple, m) \in Int,
         Resolves(i, m, e)
  PROVE  /\ Distance(e, StopPrice(i, m, e)) \in Permille(MinStop, e)..Permille(MaxStop, e)
         /\ StopPrice(i, m, e) > 0 /\ Beyond(i.direction, StopPrice(i, m, e), e)
<1>. e > 0 BY DEF Resolves
<1>1. PICK k \in Nat : /\ k > 0 /\ e = 1000 * k
                       /\ Permille(MinStop, e) = 3 * k /\ Permille(MaxStop, e) = 80 * k
  BY PermilleInt
<1>2. StopPrice(i, m, e) > 0 /\ Beyond(i.direction, StopPrice(i, m, e), e)
  BY DEF Resolves
<1>3. CASE i.stop # "atr_distance"
  BY <1>2, <1>3 DEF Resolves
<1>4. CASE i.stop = "atr_distance"
  <2> DEFINE d == Clamped(AtrMultiple(i.stopAtr, StopMultiple, m), 3 * k, 80 * k)
  <2>1. d \in (3 * k)..(80 * k)
    <3>1. /\ AtrMultiple(i.stopAtr, StopMultiple, m) \in Int
          /\ 3 * k \in Int /\ 80 * k \in Int /\ 3 * k <= 80 * k
      BY <1>1, <1>4
    <3>. QED BY <3>1, ClampedWithin
  <2>2. StopPrice(i, m, e) = Ahead(i.direction, e, - d)
    BY <1>1, <1>4 DEF StopPrice
  <2>. HIDE DEF d
  <2>3. Distance(e, StopPrice(i, m, e)) = d
    BY <2>1, <2>2, <1>1 DEF Distance, Ahead, Directions
  <2>. QED BY <1>1, <1>2, <2>1, <2>3
<1>. QED BY <1>3, <1>4

\* Whatever target is asked for, the target of a setup lies beyond the entry, is
\* positive and at most 20 percent away.
LEMMA TargetWithin ==
  ASSUME NEW i, NEW m, NEW e \in Nat, e % Scale = 0, e > 0,
         i.direction \in Directions, StopPrice(i, m, e) \in Int,
         WantedTarget(i, m, e) \in Int,
         Distance(e, StopPrice(i, m, e)) \in Permille(MinStop, e)..Permille(MaxStop, e),
         Beyond(i.direction, StopPrice(i, m, e), e)
  PROVE  /\ TargetPrice(i, m, e) \in Int /\ TargetPrice(i, m, e) > 0
         /\ Beyond(i.direction, e, TargetPrice(i, m, e))
         /\ Distance(TargetPrice(i, m, e), e) <= Permille(MaxTarget, e)
<1>1. PICK k \in Nat : /\ k > 0 /\ e = 1000 * k
                       /\ Permille(MinStop, e) = 3 * k /\ Permille(MaxStop, e) = 80 * k
                       /\ Permille(MaxTarget, e) = 200 * k
  BY PermilleInt
<1> DEFINE s == StopPrice(i, m, e)
           w == WantedTarget(i, m, e)
           u == UncappedTarget(i, m, e)
<1>2. u = IF w > 0 /\ OrderingOk(i.direction, e, s, w) THEN w
          ELSE Ahead(i.direction, e, 2 * Distance(e, s))
  BY DEF UncappedTarget
<1>3. TargetPrice(i, m, e) = IF Distance(u, e) <= 200 * k THEN u ELSE Ahead(i.direction, e, 200 * k)
  BY <1>1 DEF TargetPrice
<1>. HIDE DEF s, w, u
<1>4. s \in Int /\ w \in Int /\ Distance(e, s) \in (3 * k)..(80 * k) /\ Beyond(i.direction, s, e)
  BY <1>1 DEF s, w
<1>5. u \in Int /\ Beyond(i.direction, e, u) /\ (u > 0 \/ Distance(u, e) > 200 * k)
  BY <1>1, <1>2, <1>4 DEF OrderingOk, Beyond, Ahead, Distance, Directions
<1>. QED BY <1>1, <1>3, <1>5 DEF Beyond, Ahead, Distance, Directions

\* The levels and the multiples of ATR of an intent and a chart are integers.
LEMMA LevelsTyped ==
  ASSUME NEW i \in IntentsMade, NEW m \in Markets
  PROVE  /\ i.direction \in Directions
         /\ AtrMultiple(i.stopAtr, StopMultiple, m) \in Int
         /\ StopPrice(i, m, m.close) \in Int
         /\ WantedTarget(i, m, m.close) \in Int
<1>1. i \in Intents(Backs) /\ m \in Charts(Backs) /\ m.close % Scale = 0
  BY EntryAssumption
<1>2. /\ m.close \in Int /\ m.atr \in Int /\ m.prevHigh \in Int /\ m.prevLow \in Int
      /\ \A b \in Backs : m.high[b] \in Int /\ m.low[b] \in Int
  BY <1>1 DEF Charts
<1>3. /\ i.direction \in Directions /\ i.stopBack \in Backs /\ i.targetBack \in Backs
      /\ i.stopAtr \in Int /\ i.targetAtr \in Int /\ i.offset \in Int
      /\ i.stop \in {"atr_distance", "swing_low", "swing_high"}
      /\ i.target \in {"atr_distance", "swing_low", "swing_high", "prev_day_low", "prev_day_high"}
  BY <1>1 DEF Intents
<1>4. /\ AtrMultiple(i.stopAtr, StopMultiple, m) \in Int
      /\ AtrMultiple(i.targetAtr, TargetMultiple, m) \in Int
      /\ i.offset * m.atr \in Int
  <2>1. \A x, y \in Int : x * y \in Int
    OBVIOUS
  <2>2. /\ (IF i.stopAtr = Unset THEN StopMultiple ELSE i.stopAtr) \in Int
        /\ (IF i.targetAtr = Unset THEN TargetMultiple ELSE i.targetAtr) \in Int
    BY <1>3 DEF StopMultiple, TargetMultiple
  <2>. QED BY <1>2, <1>3, <2>1, <2>2 DEF AtrMultiple
<1>5. /\ i.stop # "atr_distance" => Anchor(i.stop, i.stopBack, m) \in Int
      /\ i.target # "atr_distance" => Anchor(i.target, i.targetBack, m) \in Int
  BY <1>2, <1>3 DEF Anchor
<1>6. Permille(MinStop, m.close) \in Int /\ Permille(MaxStop, m.close) \in Int
  BY <1>2 DEF Permille, MinStop, MaxStop, Scale
<1> DEFINE stopAt == AtrMultiple(i.stopAtr, StopMultiple, m)
           targetAt == AtrMultiple(i.targetAtr, TargetMultiple, m)
           clamped == Clamped(stopAt, Permille(MinStop, m.close), Permille(MaxStop, m.close))
           off == i.offset * m.atr
<1>7. clamped \in Int
  BY <1>4, <1>6 DEF Clamped
<1>8. /\ StopPrice(i, m, m.close) = IF i.stop = "atr_distance"
                                   THEN Ahead(i.direction, m.close, - clamped)
                                   ELSE Ahead(i.direction, Anchor(i.stop, i.stopBack, m), - off)
      /\ WantedTarget(i, m, m.close) = IF i.target = "atr_distance"
                                      THEN Ahead(i.direction, m.close, targetAt)
                                      ELSE Anchor(i.target, i.targetBack, m)
  BY DEF StopPrice, WantedTarget
<1>9. targetAt \in Int /\ off \in Int
  BY <1>4
<1>. HIDE DEF clamped, targetAt, off
<1>10. \A x, y \in Int : Ahead(i.direction, x, y) \in Int
  BY DEF Ahead
<1>11. StopPrice(i, m, m.close) \in Int
  <2>1. - clamped \in Int /\ - off \in Int
    BY <1>7, <1>9
  <2>2. CASE i.stop = "atr_distance"
    BY <2>1, <2>2, <1>2, <1>8, <1>10
  <2>3. CASE i.stop # "atr_distance"
    BY <2>1, <2>3, <1>5, <1>8, <1>10
  <2>. QED BY <2>2, <2>3
<1>12. WantedTarget(i, m, m.close) \in Int
  BY <1>2, <1>3, <1>5, <1>8, <1>9, <1>10
<1>. QED BY <1>3, <1>4, <1>11, <1>12

\* A setup that resolves is sound.
LEMMA SetupSound ==
  ASSUME NEW i \in IntentsMade, NEW m \in Markets,
         Resolves(i, m, m.close)
  PROVE  Sound(Setup(i, m, m.close)) /\ Setup(i, m, m.close).direction = i.direction
<1> DEFINE e == m.close
           s == StopPrice(i, m, e)
           t == TargetPrice(i, m, e)
<1>1. e \in Nat /\ e % Scale = 0 /\ e > 0
  BY EntryAssumption DEF Resolves, Charts
<1>2. /\ Distance(e, s) \in Permille(MinStop, e)..Permille(MaxStop, e)
      /\ s > 0 /\ Beyond(i.direction, s, e)
  BY <1>1, StopWithin, LevelsTyped
<1>3. /\ t \in Int /\ t > 0 /\ Beyond(i.direction, e, t)
      /\ Distance(t, e) <= Permille(MaxTarget, e)
  BY <1>1, <1>2, TargetWithin, LevelsTyped
<1>4. s \in Int /\ \E c \in Markets : e = c.close BY LevelsTyped
<1>5. Setup(i, m, e) = [direction |-> i.direction, entry |-> e, stop |-> s, target |-> t]
  BY DEF Setup
<1>. HIDE DEF e, s, t
<1>6. Sound([direction |-> i.direction, entry |-> e, stop |-> s, target |-> t])
  BY <1>1, <1>2, <1>3, <1>4, LevelsTyped DEF Sound, OrderingOk, Risk, Reward
<1>7. Setup(i, m, m.close) = [direction |-> i.direction, entry |-> e, stop |-> s, target |-> t]
  BY <1>5 DEF e
<1>. QED BY <1>6, <1>7

----------------------------------------------------------------------------
(* The invariant. *)

SynthesisType == [sum : -100..100, bias : Directions \cup {"neutral"}, confluence : Int]

\* The bias is the side of the weighted vote.
Sided ==
  /\ synthesis.bias = "long" => synthesis.sum > 0
  /\ synthesis.bias = "short" => synthesis.sum < 0

\* The trader may turn the bias, but not past the gate.
Turned == synthesis.confluence < Gate

\* What has been agreed on so far points one way.
OneWay ==
  /\ \A i \in intent : i.direction = synthesis.bias
  /\ \A s \in setup : s.direction = synthesis.bias
  /\ \A p \in position : p.direction = synthesis.bias

\* The margin on a unanimous vote.
FullMargin == MarginShare(AnalystConfluence(100))

EntryInv ==
  /\ synthesis \in SynthesisType
  /\ chart \in Markets /\ intent \subseteq IntentsMade
  /\ \A s \in setup : Sound(s)
  /\ \A p \in position :
       /\ Sound(p) /\ p.leverage \in 1..8
       /\ p.margin \in Nat /\ p.margin <= FullMargin
  /\ OneWay
  /\ stage = "gates" => Sided \/ Turned
  /\ stage \notin {"gates", Rejected} => Sided
  /\ stage \in {"vote", "debate", "gates"} => intent = {} /\ setup = {}
  /\ stage # "taken" => position = {}

\* No pair of type and aggression has more leverage than eight.
LEMMA LeverageWithin ==
  ASSUME NEW t \in SetupTypes, NEW a \in Aggression
  PROVE  Leverage(t, a) \in 1..8
<1>1. LeverageTable[t][a] \in 1..8
  BY DEF LeverageTable, SetupTypes, Aggression
<1>2. MaxLeverage \in Nat \ {0}
  BY RiskAssumption
<1> DEFINE x == LeverageTable[t][a]
<1>3. Leverage(t, a) = Clamped(x, 1, MaxLeverage)
  BY DEF Leverage
<1>4. x \in 1..8 BY <1>1
<1>. HIDE DEF x
<1>. QED BY <1>2, <1>3, <1>4 DEF Clamped

\* Whole division keeps the order.
LEMMA DivMonotone ==
  ASSUME NEW x \in Int, NEW y \in Int, NEW d \in Nat \ {0}, x <= y
  PROVE  x \div d \in Int /\ y \div d \in Int /\ x \div d <= y \div d
BY Z3

\* Multiplying by what is not negative keeps the order.
LEMMA TimesMonotone ==
  ASSUME NEW x \in Int, NEW y \in Int, NEW n \in Nat, x <= y
  PROVE  x * n \in Int /\ y * n \in Int /\ x * n <= y * n
BY Z3

\* The confluence of the analysts grows with their agreement.
LEMMA ConfluenceGrows ==
  ASSUME NEW w \in -100..100
  PROVE  /\ AnalystConfluence(w) \in Int /\ AnalystConfluence(100) \in Int
         /\ AnalystConfluence(w) <= AnalystConfluence(100)
<1> DEFINE d == Distance(w, 0)
<1>1. d \in 0..100 /\ Distance(100, 0) = 100
  BY DEF Distance
<1>2. /\ AnalystConfluence(w) = (d * Shrinkage * 20000) \div 10000
      /\ AnalystConfluence(100) = (100 * Shrinkage * 20000) \div 10000
  BY <1>1 DEF AnalystConfluence, Whole
<1>. HIDE DEF d
<1>3. Shrinkage \in Nat
  BY EntryAssumption
<1>4. /\ d * Shrinkage \in Int /\ 100 * Shrinkage \in Int
      /\ d * Shrinkage <= 100 * Shrinkage
  BY <1>1, <1>3, TimesMonotone
<1>. QED BY <1>2, <1>4

\* The margin grows with the confluence.
LEMMA MarginGrows ==
  ASSUME NEW x \in Int, NEW y \in Int, x <= y
  PROVE  /\ MarginShare(x) \in Nat /\ MarginShare(x) <= MarginShare(y)
<1>. DEFINE D == Whole - Gate
            n == MaxMargin - MinMargin
            cx == Clamped(x - Gate, 0, D)
            cy == Clamped(y - Gate, 0, D)
<1>1. D \in Nat \ {0} /\ n \in Nat /\ MinMargin \in Nat /\ Gate \in Int
  BY RiskAssumption DEF Whole
<1>2. MarginShare(x) = MinMargin + (cx * n) \div D /\ MarginShare(y) = MinMargin + (cy * n) \div D
  BY DEF MarginShare
<1>3. cx \in Nat /\ cy \in Nat /\ cx <= cy
  <2>. HIDE DEF D
  <2>. QED BY <1>1 DEF Clamped
<1>. HIDE DEF D, n, cx, cy
<1>4. cx * n \in Nat /\ cy * n \in Int /\ cx * n <= cy * n
  BY <1>1, <1>3, TimesMonotone, Z3
<1> DEFINE a == cx * n
           b == cy * n
<1>5. a \in Nat /\ b \in Int /\ a <= b
  BY <1>4
<1>. HIDE DEF a, b
<1>6. a \div D \in Int /\ b \div D \in Int /\ a \div D <= b \div D
  BY <1>1, <1>5, DivMonotone
<1>7. a \div D >= 0
  <2>1. 0 \div D = 0
    BY <1>1, Z3
  <2>. QED BY <1>1, <1>5, <2>1, DivMonotone
<1>8. MarginShare(x) = MinMargin + a \div D /\ MarginShare(y) = MinMargin + b \div D
  BY <1>2 DEF a, b
<1>. QED BY <1>1, <1>6, <1>7, <1>8

\* No vote earns a larger margin than a unanimous one.
LEMMA MarginWithin ==
  ASSUME NEW w \in -100..100
  PROVE  /\ MarginShare(AnalystConfluence(w)) \in Nat
         /\ MarginShare(AnalystConfluence(w)) <= FullMargin
BY ConfluenceGrows, MarginGrows DEF FullMargin

\* The weighted vote is an integer and the bias its side, or neutral.
LEMMA BiasSided ==
  ASSUME NEW v \in VotesHeard
  PROVE  /\ WeightedSum(v) \in -100..100
         /\ Bias(WeightedSum(v), v) \in Directions \cup {"neutral"}
         /\ Bias(WeightedSum(v), v) = "long" => WeightedSum(v) > 0
         /\ Bias(WeightedSum(v), v) = "short" => WeightedSum(v) < 0
<1>1. v["macro"] \in -1..1 /\ v["derivatives"] \in -1..1
      /\ v["sentiment"] \in -1..1 /\ v["technical"] \in -1..1
  BY EntryAssumption DEF Analysts
<1>2. WeightedSum(v) \in -100..100
  BY <1>1 DEF WeightedSum, Weight
<1> DEFINE w == WeightedSum(v)
<1>3. w \in Int BY <1>2
<1>. HIDE DEF w
<1>4. /\ Bias(w, v) \in Directions \cup {"neutral"}
      /\ Bias(w, v) = "long" => w > 0
      /\ Bias(w, v) = "short" => w < 0
  BY <1>3 DEF Bias, BiasThreshold, Directions
<1>. QED BY <1>2, <1>4 DEF w

\* A verdict against the bias leaves a confluence below the gate.
LEMMA TurnedBelowGate ==
  ASSUME NEW d \in Directions, NEW c \in Convictions, synthesis \in SynthesisType
  PROVE  /\ Confluence(d, c) \in Int
         /\ d # synthesis.bias => Confluence(d, c) < Gate
<1>1. c \in 0..100 /\ Shrinkage \in 0..100 /\ Gate \in Int /\ Shrinkage * 100 < Gate
  BY EntryAssumption, SettingsAssumption, RiskAssumption
<1>2. c * Shrinkage \in Nat /\ c * Shrinkage <= 100 * Shrinkage
  BY <1>1
<1> DEFINE q == c * Shrinkage
<1>3. q \in Nat /\ q <= 100 * Shrinkage BY <1>2
<1>4. /\ (2 * c * Shrinkage * 20000) = 20000 * (2 * q)
      /\ (1 * c * Shrinkage * 20000) = 20000 * q
  BY <1>1
<1>. HIDE DEF q
<1>5. (20000 * (2 * q)) \div 20000 = 2 * q /\ (20000 * q) \div 20000 = q
  BY <1>3
<1>6. Confluence(d, c) = IF d = synthesis.bias THEN 2 * q ELSE q
  BY <1>4, <1>5 DEF Confluence, Whole
<1>. QED BY <1>1, <1>3, <1>6

\* Every step keeps the invariant.
LEMMA EntryStep ==
  ASSUME EntryInv, [EntryNext]_entryVars
  PROVE  EntryInv'
<1>. USE DEF EntryInv, OneWay, Stage, Rejected
<1>1. ASSUME NEW v \in VotesHeard, Aggregates(v) PROVE EntryInv'
  <2>1. synthesis' = [sum |-> WeightedSum(v), bias |-> Bias(WeightedSum(v), v),
                      confluence |-> AnalystConfluence(WeightedSum(v))]
    BY <1>1 DEF Aggregates
  <2>2. AnalystConfluence(WeightedSum(v)) \in Int
    <3>1. WeightedSum(v) \in Int BY BiasSided
    <3> DEFINE w == WeightedSum(v)
    <3>2. Distance(w, 0) \in Int /\ Shrinkage \in Int BY <3>1, EntryAssumption DEF Distance
    <3>3. \A x, y \in Int : x * y \in Int OBVIOUS
    <3>4. Distance(w, 0) * Shrinkage * Whole \in Int BY <3>2, <3>3 DEF Whole
    <3> DEFINE z == Distance(w, 0) * Shrinkage * Whole
    <3>5. z \in Int BY <3>4
    <3>6. AnalystConfluence(w) = z \div 10000 BY DEF AnalystConfluence
    <3>. HIDE DEF z
    <3>. QED BY <3>5, <3>6
  <2>3. synthesis' \in SynthesisType /\ Sided'
    BY <2>1, <2>2, BiasSided DEF SynthesisType, Sided
  <2>. QED BY <1>1, <2>3 DEF Aggregates
<1>2. ASSUME NEW d \in Directions \cup {"no_trade"}, NEW c \in Convictions, Decides(d, c)
      PROVE  EntryInv'
  <2>3. /\ stage' = "gates" /\ intent' = {} /\ setup' = {} /\ position' = {}
        /\ UNCHANGED <<rate, chart, tries, intent, setup, position>>
    BY <1>2 DEF Decides
  <2>1. CASE d = "no_trade"
    <3>1. synthesis' = [NoVote EXCEPT !.sum = synthesis.sum]
      BY <1>2, <2>1 DEF Decides
    <3>2. synthesis' \in SynthesisType /\ Sided'
      BY <3>1 DEF SynthesisType, Sided, NoVote
    <3>. QED BY <2>3, <3>2
  <2>2. CASE d \in Directions
    <3>1. synthesis' = [sum |-> synthesis.sum, bias |-> d, confluence |-> Confluence(d, c)]
      BY <1>2, <2>2 DEF Decides, Directions
    <3>2. synthesis' \in SynthesisType
      BY <2>2, <3>1, TurnedBelowGate DEF SynthesisType
    <3>3. Sided
      BY <1>2 DEF Decides
    <3>4. d # synthesis.bias => Turned'
      BY <2>2, <3>1, TurnedBelowGate DEF Turned
    <3>5. Sided' \/ Turned'
      BY <3>1, <3>3, <3>4 DEF Sided
    <3>. QED BY <2>3, <3>2, <3>5
  <2>. QED BY <2>1, <2>2
<1>3. ASSUME NEW rsi \in RsiLevels, Gates(rsi) PROVE EntryInv'
  <2>1. synthesis.confluence \in Int /\ Gate \in Int
    BY RiskAssumption DEF SynthesisType
  <2>. QED BY <1>3, <2>1 DEF Gates, PassesGates, Turned, Sided
<1>4. ASSUME NEW i \in IntentsMade, Builds(i) PROVE EntryInv'
  BY <1>4 DEF Builds, IntentValid, Sided
<1>5. ASSUME FindsLevels PROVE EntryInv'
  <2>1. PICK i \in intent : Resolves(i, chart, chart.close) /\ setup' = {Setup(i, chart, chart.close)}
    BY <1>5 DEF FindsLevels
  <2>2. \A s \in setup' : Sound(s) /\ s.direction = synthesis.bias
    BY <2>1, SetupSound
  <2>. QED BY <1>5, <2>2 DEF FindsLevels, Sided
<1>6. ASSUME FindsNoLevels PROVE EntryInv'
  BY <1>6 DEF FindsNoLevels, Sided
<1>7. ASSUME RiskOk \/ RiskRefused PROVE EntryInv'
  BY <1>7 DEF RiskOk, RiskRefused, Sided
<1>8. ASSUME NEW risks \in 0..2, Advocate(risks) PROVE EntryInv'
  <2>1. PICK x : synthesis' = [synthesis EXCEPT !.confluence = x] /\ x \in Int
    <3> DEFINE delta == IF risks >= 2 THEN - AdvocatePenalty ELSE IF risks = 0 THEN AdvocateBoost ELSE 0
    <3>1. delta \in Int BY DEF AdvocatePenalty, AdvocateBoost, Whole
    <3>2. synthesis.confluence + delta \in Int BY <3>1 DEF SynthesisType
    <3> DEFINE y == synthesis.confluence + delta
    <3>3. y \in Int BY <3>2
    <3>4. synthesis' = [synthesis EXCEPT !.confluence = Clamped(y, 0, Whole)]
      BY <1>8 DEF Advocate
    <3>. HIDE DEF y
    <3>. QED BY <3>3, <3>4 DEF Clamped, Whole
  <2>2. synthesis' \in SynthesisType /\ synthesis'.bias = synthesis.bias
        /\ synthesis'.sum = synthesis.sum
    BY <2>1 DEF SynthesisType
  <2>. QED BY <1>8, <2>2 DEF Advocate, Sided
<1>9. ASSUME NEW live \in Markets, Fills(live) PROVE EntryInv'
  <2>1. PICK i \in intent, s \in setup : Resolves(i, live, live.close) /\ setup' = {Setup(i, live, live.close)}
    BY <1>9 DEF Fills, Filled
  <2>2. \A z \in setup' : Sound(z) /\ z.direction = synthesis.bias
    BY <2>1, SetupSound
  <2>. QED BY <1>9, <2>2 DEF Fills, Sided
<1>10. ASSUME NEW book \in Books, Opens(book) PROVE EntryInv'
  <2>1. ASSUME NEW p \in position' 
        PROVE  /\ Sound(p) /\ p.leverage \in 1..8 /\ p.direction = synthesis.bias
               /\ p.margin \in Nat /\ p.margin <= FullMargin
    <3>1. PICK s \in setup, i \in intent :
            p = [direction |-> s.direction, entry |-> s.entry, stop |-> s.stop,
                 target |-> s.target, leverage |-> Leverage(i.type, i.aggression),
                 margin |-> MarginShare(AnalystConfluence(synthesis.sum))]
      BY <1>10, <2>1 DEF Opens
    <3>2. i.type \in SetupTypes /\ i.aggression \in Aggression
      BY EntryAssumption DEF Intents
    <3>3. Sound(s) /\ s.direction = synthesis.bias
      OBVIOUS
    <3>4. /\ p.direction = s.direction /\ p.entry = s.entry
          /\ p.stop = s.stop /\ p.target = s.target
          /\ p.leverage = Leverage(i.type, i.aggression)
          /\ p.margin = MarginShare(AnalystConfluence(synthesis.sum))
      BY <3>1
    <3>5. synthesis.sum \in -100..100
      BY DEF SynthesisType
    <3>. QED BY <3>2, <3>3, <3>4, <3>5, LeverageWithin, MarginWithin DEF Sound, Risk, Reward
  <2>. QED BY <1>10, <2>1 DEF Opens, Sided
<1>11. ASSUME FillFails \/ Skips PROVE EntryInv'
  BY <1>11 DEF FillFails, Skips
<1>12. ASSUME NextCandidate PROVE EntryInv'
  BY <1>12 DEF NextCandidate, NoVote, SynthesisType, Sided
<1>13. ASSUME UNCHANGED entryVars PROVE EntryInv'
  BY <1>13 DEF entryVars, Sided, Turned
<1>. QED
  BY <1>1, <1>2, <1>3, <1>4, <1>5, <1>6, <1>7, <1>8, <1>9, <1>10, <1>11, <1>12, <1>13
  DEF EntryNext

\* The invariant holds of every reachable state.
LEMMA EntryInvariant == EntrySpec => []EntryInv
<1>1. EntryInit => EntryInv
  BY DEF EntryInit, EntryInv, OneWay, Rejected, NoVote, SynthesisType, Sided
<1>. QED BY <1>1, EntryStep, PTL DEF EntrySpec

\* resolve_setup, at the analysis and again at the fill, gives levels in order,
\* positive and within the bounds, for all intents, charts and prices.
THEOREM LevelsAreSound == EntrySpec => []LevelsSound
<1>1. EntryInv => LevelsSound
  BY DEF EntryInv, LevelsSound, Sound
<1>. QED BY <1>1, EntryInvariant, PTL

\* No position is opened against the vote of the analysts.
THEOREM TradesSideWithAnalysts == EntrySpec => []NeverAgainstAnalysts
<1>1. EntryInv => NeverAgainstAnalysts
  <2>. SUFFICES ASSUME EntryInv, NEW p \in position
               PROVE  IF p.direction = "long" THEN synthesis.sum > 0 ELSE synthesis.sum < 0
    BY DEF NeverAgainstAnalysts
  <2>1. Sided /\ p.direction = synthesis.bias
    BY DEF EntryInv, OneWay, Rejected
  <2>2. p.direction \in Directions
    <3>1. \A s \in position : Sound(s) BY DEF EntryInv
    <3>. QED BY <3>1 DEF EntryInv, OneWay, Sound
  <2>. QED BY <2>1, <2>2 DEF Sided, Directions
<1>. QED BY <1>1, EntryInvariant, PTL

\* A position that is stopped out loses less than its margin, costs included.
THEOREM StopsAreCovered == EntrySpec => []StopLossCovered
<1>1. EntryInv => StopLossCovered
  <2>. SUFFICES ASSUME EntryInv, NEW p \in position
               PROVE  p.leverage * (Risk(p) + StopFees(p) + Permille(MaxFundingCost \div 100, p.entry))
                        < p.entry
    BY DEF StopLossCovered
  <2>1. Sound(p) /\ p.leverage \in 1..8
    BY DEF EntryInv
  <2>2. p.entry > 0
    BY <2>1 DEF Sound, OrderingOk, Beyond
  <2>3. PICK k \in Nat : /\ k > 0 /\ p.entry = 1000 * k
                         /\ Permille(MinStop, p.entry) = 3 * k /\ Permille(MaxStop, p.entry) = 80 * k
    BY <2>1, <2>2, PermilleInt DEF Sound
  <2>4. Risk(p) \in Nat /\ Risk(p) <= 80 * k /\ p.stop <= 1080 * k /\ p.stop \in Int
    BY <2>1, <2>3 DEF Sound, Risk, Distance
  <2>5. StopFees(p) \in Int /\ StopFees(p) <= 2 * k + 1
    BY <2>3, <2>4 DEF StopFees
  <2>6. Permille(MaxFundingCost \div 100, p.entry) \in Int
        /\ Permille(MaxFundingCost \div 100, p.entry) <= 10 * k
    <3>1. MaxFundingCost \div 100 \in 0..10
      BY RiskAssumption, SettingsAssumption
    <3>2. p.entry \div 1000 = k BY <2>3
    <3>. QED BY <3>1, <3>2 DEF Permille, Scale
  <2> DEFINE x == Risk(p) + StopFees(p) + Permille(MaxFundingCost \div 100, p.entry)
  <2>7. x \in Int /\ 8 * x < p.entry /\ p.entry > 0
    BY <2>3, <2>4, <2>5, <2>6
  <2>. HIDE DEF x
  <2>8. \A n \in 1..8 : n * x < p.entry
    BY <2>3, <2>7
  <2>. QED BY <2>1, <2>8 DEF x
<1>. QED BY <1>1, EntryInvariant, PTL

\* What a position loses at the farthest stop, both fees included.
FarthestLoss(entry) ==
  Permille(MaxStop, entry) + (2 * entry + Permille(MaxStop, entry)) \div 2000 + 1

\* The settings fit: the full margin, at the greatest leverage of the table and
\* stopped out at the farthest stop, loses less than a tenth of the equity.
MarginsFit ==
  \A m \in Markets : m.close > 0 => FullMargin * 8 * FarthestLoss(m.close) < 1000 * m.close

\* No stop is farther than the farthest, and the fees grow with it.
LEMMA LossWithin ==
  ASSUME NEW p, Sound(p)
  PROVE  /\ p.entry > 0
         /\ Risk(p) + StopFees(p) \in Nat /\ FarthestLoss(p.entry) \in Nat
         /\ Risk(p) + StopFees(p) <= FarthestLoss(p.entry)
<1>1. p.entry \in Nat /\ p.entry > 0
  BY DEF Sound, OrderingOk, Beyond
<1>2. PICK k \in Nat : /\ k > 0 /\ p.entry = 1000 * k
                       /\ Permille(MinStop, p.entry) = 3 * k /\ Permille(MaxStop, p.entry) = 80 * k
  BY <1>1, PermilleInt DEF Sound
<1>3. Risk(p) \in Nat /\ Risk(p) <= 80 * k /\ p.stop <= 1080 * k /\ p.stop \in Int /\ p.stop > 0
  BY <1>2 DEF Sound, Risk, Distance
<1>4. FarthestLoss(p.entry) = 80 * k + (2080 * k) \div 2000 + 1
  BY <1>2 DEF FarthestLoss
<1>5. StopFees(p) = (p.entry + p.stop) \div 2000 + 1
  BY DEF StopFees
<1>. QED BY <1>1, <1>2, <1>3, <1>4, <1>5

\* Margin and leverage times what is lost of the price: when the settings fit, one
\* position that is stopped out, fees included, takes less of the equity than trips
\* the drawdown breaker, for all votes, intents, charts and prices.
THEOREM OneLossIsNoHalt == MarginsFit => (EntrySpec => []OneStopIsNoHalt)
<1>. SUFFICES ASSUME MarginsFit PROVE EntrySpec => []OneStopIsNoHalt
  OBVIOUS
<1>1. EntryInv => OneStopIsNoHalt
  <2>. SUFFICES ASSUME EntryInv, NEW p \in position
               PROVE  p.margin * p.leverage * (Risk(p) + StopFees(p)) < 1000 * p.entry
    BY DEF OneStopIsNoHalt
  <2>1. /\ Sound(p) /\ p.leverage \in 1..8
        /\ p.margin \in Nat /\ p.margin <= FullMargin
    BY DEF EntryInv
  <2>2. FullMargin \in Nat
    <3>1. AnalystConfluence(100) \in Int
      BY ConfluenceGrows, 100 \in -100..100
    <3> DEFINE c == AnalystConfluence(100)
    <3>2. c \in Int /\ c <= c /\ FullMargin = MarginShare(c)
      BY <3>1 DEF FullMargin
    <3>. HIDE DEF c
    <3>. QED BY <3>2, MarginGrows
  <2>3. FullMargin * 8 * FarthestLoss(p.entry) < 1000 * p.entry
    BY <2>1, LossWithin DEF MarginsFit, Sound
  <2> DEFINE lost == Risk(p) + StopFees(p)
             most == FarthestLoss(p.entry)
  <2>4. lost \in Nat /\ most \in Nat /\ lost <= most
    BY <2>1, LossWithin
  <2>. HIDE DEF lost, most
  <2>5. /\ p.margin * p.leverage \in Int /\ FullMargin * 8 \in Nat
        /\ p.margin * p.leverage <= FullMargin * 8
    <3>1. /\ p.margin * p.leverage \in Int /\ FullMargin * p.leverage \in Int
          /\ p.margin * p.leverage <= FullMargin * p.leverage
      BY <2>1, <2>2, TimesMonotone
    <3>2. /\ p.leverage * FullMargin \in Int /\ 8 * FullMargin \in Int
          /\ p.leverage * FullMargin <= 8 * FullMargin
      BY <2>1, <2>2, TimesMonotone
    <3>3. FullMargin * p.leverage = p.leverage * FullMargin
      BY <2>1, <2>2
    <3>. QED BY <2>2, <3>1, <3>2, <3>3
  <2> DEFINE a == p.margin * p.leverage
             b == FullMargin * 8
  <2>6. a \in Int /\ b \in Nat /\ a <= b
    BY <2>5
  <2>7. b * most < 1000 * p.entry /\ p.entry \in Nat
    BY <2>1, <2>3 DEF most, Sound
  <2>. HIDE DEF a, b
  <2>8. a * lost \in Int /\ b * lost \in Int /\ a * lost <= b * lost
    BY <2>4, <2>6, TimesMonotone
  <2>9. lost * b \in Int /\ most * b \in Int /\ lost * b <= most * b
    BY <2>4, <2>6, TimesMonotone
  <2>10. lost * b = b * lost /\ most * b = b * most
    BY <2>4, <2>6
  <2>11. a * lost < 1000 * p.entry
    BY <2>7, <2>8, <2>9, <2>10
  <2>. QED BY <2>11 DEF a, lost
<1>. QED BY <1>1, EntryInvariant, PTL

----------------------------------------------------------------------------
(* Outages. *)

\* The signals that come from one of the calls to CoinGlass, and the others that
\* count for the score or for the direction.
OwnSignals ==
  {"volume_spike", "bb_squeeze", "near_swing", "ema_cross", "rsi_divergence", "macd",
   "cvd_price_divergence", "rsi_level", "long_short_ratio", "vwap_bias", "daily_trend",
   "cvd_trend", "funding_bias", "oi_trend", "oi_change_4h"}

\* The signals of a symbol, and those that an outage has left of them.
Leaves(whole, part) ==
  /\ \A name \in OwnSignals : part[name] = whole[name]
  /\ part.top_trader_ls_ratio \in {whole.top_trader_ls_ratio, {}}
  /\ part.basis \in {whole.basis, {}}
  /\ part.oi_weighted_funding_bias \in {whole.oi_weighted_funding_bias, "neutral"}
  /\ part.liq_spike \in {whole.liq_spike, FALSE}

\* A call that fails leaves its own signals out, and no other is touched.
LEMMA OutageLeaves ==
  ASSUME NEW bars, NEW failed
  PROVE  Leaves(Signals(bars, {}), Signals(bars, failed))
<1>. DEFINE part == Signals(bars, failed)
            whole == Signals(bars, {})
<1>1. \A name \in OwnSignals : part[name] = whole[name]
  <2>1. /\ part.volume_spike = whole.volume_spike
        /\ part.bb_squeeze = whole.bb_squeeze
        /\ part.near_swing = whole.near_swing
        /\ part.ema_cross = whole.ema_cross
        /\ part.rsi_divergence = whole.rsi_divergence
        /\ part.macd = whole.macd
        /\ part.cvd_price_divergence = whole.cvd_price_divergence
    BY DEF Signals
  <2>2. /\ part.rsi_level = whole.rsi_level
        /\ part.long_short_ratio = whole.long_short_ratio
        /\ part.vwap_bias = whole.vwap_bias
        /\ part.daily_trend = whole.daily_trend
        /\ part.cvd_trend = whole.cvd_trend
        /\ part.funding_bias = whole.funding_bias
        /\ part.oi_trend = whole.oi_trend
        /\ part.oi_change_4h = whole.oi_change_4h
    BY DEF Signals
  <2>. HIDE DEF part, whole
  <2>. QED BY <2>1, <2>2 DEF OwnSignals
<1>2. part.top_trader_ls_ratio \in {whole.top_trader_ls_ratio, {}}
  BY DEF Signals, Points, Optional
<1>3. part.basis \in {whole.basis, {}}
  BY DEF Signals, Points, Optional
<1>4. part.oi_weighted_funding_bias \in {whole.oi_weighted_funding_bias, "neutral"}
  <2> DEFINE Weights(points) == [i \in DOMAIN points |-> points[i].weighted]
             from == Points(bars, "oi_funding", failed)
  <2>1. /\ part.oi_weighted_funding_bias = FundingBias(Weights(from))
        /\ whole.oi_weighted_funding_bias = FundingBias(Weights(Points(bars, "oi_funding", {})))
    BY DEF Signals
  <2>2. Points(bars, "oi_funding", {}) = bars /\ from \in {bars, <<>>}
    BY DEF Points
  <2>3. Weights(<<>>) = <<>>
    OBVIOUS
  <2>4. FundingBias(<<>>) = "neutral"
    BY DEF FundingBias
  <2>. HIDE DEF from, Weights, part, whole
  <2>. QED BY <2>1, <2>2, <2>3, <2>4
<1>5. part.liq_spike \in {whole.liq_spike, FALSE}
  <2> DEFINE Taken(points) == [i \in DOMAIN points |-> points[i].liquidated]
             from == Points(bars, "liquidation", failed)
  <2>1. /\ part.liq_spike = CalcLiquidationSpike(Taken(from))
        /\ whole.liq_spike = CalcLiquidationSpike(Taken(Points(bars, "liquidation", {})))
    BY DEF Signals
  <2>2. Points(bars, "liquidation", {}) = bars /\ from \in {bars, <<>>}
    BY DEF Points
  <2>3. Taken(<<>>) = <<>>
    OBVIOUS
  <2>4. CalcLiquidationSpike(<<>>) = FALSE
    BY IndicatorsAssumption DEF CalcLiquidationSpike
  <2>. HIDE DEF from, Taken, part, whole
  <2>. QED BY <2>1, <2>2, <2>3, <2>4
<1>. QED BY <1>1, <1>2, <1>3, <1>4, <1>5 DEF Leaves

Names ==
  {"volume", "squeeze", "swing", "cross", "rsi_divergence", "macd", "cvd_divergence", "rsi",
   "crowd", "top", "aligned", "funding", "oi_trend", "oi_change", "liquidations"}

\* There are finitely many criteria.
LEMMA NamesAreFinite == IsFiniteSet(Names)
<1>1. ASSUME NEW a, NEW b, NEW c, NEW d, NEW e PROVE IsFiniteSet({a, b, c, d, e})
  <2>1. IsFiniteSet({a} \cup {b}) /\ IsFiniteSet({c} \cup {d}) /\ IsFiniteSet({e})
    BY FS_Singleton, FS_Union
  <2>2. IsFiniteSet(({a} \cup {b}) \cup ({c} \cup {d}))
    BY <2>1, FS_Union
  <2>3. IsFiniteSet((({a} \cup {b}) \cup ({c} \cup {d})) \cup {e})
    BY <2>1, <2>2, FS_Union
  <2>4. {a, b, c, d, e} = (({a} \cup {b}) \cup ({c} \cup {d})) \cup {e}
    OBVIOUS
  <2>. QED BY <2>3, <2>4
<1> DEFINE A == {"volume", "squeeze", "swing", "cross", "rsi_divergence"}
           B == {"macd", "cvd_divergence", "rsi", "crowd", "top"}
           C == {"aligned", "funding", "oi_trend", "oi_change", "liquidations"}
<1>2. IsFiniteSet(A) /\ IsFiniteSet(B) /\ IsFiniteSet(C)
  BY <1>1
<1>3. Names = (A \cup B) \cup C
  BY DEF Names
<1>. HIDE DEF A, B, C
<1>. QED BY <1>2, <1>3, FS_Union

\* What is left meets no criterion that the whole does not meet.
LEMMA ScoreNotRaised ==
  ASSUME NEW whole, NEW part, Leaves(whole, part)
  PROVE  ComputeScore(part) <= ComputeScore(whole)
<1>1. DOMAIN Criteria(part) = Names /\ DOMAIN Criteria(whole) = Names
  BY DEF Criteria, Names
<1>2. \A name \in Names : Criteria(part)[name] => Criteria(whole)[name]
  <2>1. /\ part.volume_spike = whole.volume_spike /\ part.bb_squeeze = whole.bb_squeeze
        /\ part.near_swing = whole.near_swing /\ part.ema_cross = whole.ema_cross
        /\ part.rsi_divergence = whole.rsi_divergence /\ part.macd = whole.macd
        /\ part.cvd_price_divergence = whole.cvd_price_divergence
        /\ part.rsi_level = whole.rsi_level
        /\ part.long_short_ratio = whole.long_short_ratio
    BY DEF Leaves, OwnSignals
  <2>2. /\ part.vwap_bias = whole.vwap_bias /\ part.daily_trend = whole.daily_trend
        /\ part.funding_bias = whole.funding_bias /\ part.oi_trend = whole.oi_trend
        /\ part.oi_change_4h = whole.oi_change_4h
    BY DEF Leaves, OwnSignals
  <2>3. Crowd({}) = "none"
    BY DEF Crowd, Extreme
  <2>4. /\ part.top_trader_ls_ratio \in {whole.top_trader_ls_ratio, {}}
        /\ part.oi_weighted_funding_bias \in {whole.oi_weighted_funding_bias, "neutral"}
        /\ part.liq_spike \in {whole.liq_spike, FALSE}
    BY DEF Leaves
  <2>5. \A name \in {"volume", "squeeze", "swing", "cross", "rsi_divergence", "macd",
                     "cvd_divergence", "rsi", "crowd"} :
           Criteria(part)[name] = Criteria(whole)[name]
    BY <2>1 DEF Criteria
  <2>6. \A name \in {"aligned", "oi_trend", "oi_change"} :
           Criteria(part)[name] = Criteria(whole)[name]
    BY <2>2 DEF Criteria
  <2>7. Criteria(part).top => Criteria(whole).top
    <3>1. \A sig : Criteria(sig).top <=> Crowd(sig.top_trader_ls_ratio) # "none"
      BY DEF Criteria
    <3>. QED BY <2>3, <2>4, <3>1
  <2>8. Criteria(part).funding => Criteria(whole).funding
    <3>1. \A sig : Criteria(sig).funding <=>
            sig.funding_bias # "neutral" \/ sig.oi_weighted_funding_bias # "neutral"
      BY DEF Criteria
    <3>. QED BY <2>2, <2>4, <3>1
  <2>9. Criteria(part).liquidations => Criteria(whole).liquidations
    <3>1. \A sig : Criteria(sig).liquidations = sig.liq_spike
      BY DEF Criteria
    <3>. QED BY <2>4, <3>1
  <2>. QED BY <2>5, <2>6, <2>7, <2>8, <2>9 DEF Names
<1>3. IsFiniteSet(Names)
  BY NamesAreFinite
<1> DEFINE Met(sig) == {name \in Names : Criteria(sig)[name]}
<1>4. Met(part) \subseteq Met(whole) /\ Met(whole) \subseteq Names
  BY <1>2
<1>5. Cardinality(Met(part)) <= Cardinality(Met(whole))
  BY <1>3, <1>4, FS_Subset
<1>6. ComputeScore(part) = Cardinality(Met(part)) /\ ComputeScore(whole) = Cardinality(Met(whole))
  BY <1>1 DEF ComputeScore
<1>. QED BY <1>5, <1>6

\* A score is a number.
LEMMA ScoreIsNumber == ASSUME NEW sig PROVE ComputeScore(sig) \in Nat
<1>1. DOMAIN Criteria(sig) = Names
  BY DEF Criteria, Names
<1> DEFINE met == {name \in Names : Criteria(sig)[name]}
<1>2. ComputeScore(sig) = Cardinality(met)
  BY <1>1 DEF ComputeScore
<1>3. IsFiniteSet(met)
  BY NamesAreFinite, FS_Subset
<1>. QED BY <1>2, <1>3, FS_CardinalityType

\* The votes of what is left are within four of the whole: top traders and basis
\* may fall silent, and Binance's funding may speak against the aggregated one.
LEMMA VotesNear ==
  ASSUME NEW whole, NEW part, Leaves(whole, part)
  PROVE  LET v == TrendVotes(part) + CrowdVotes(part) + SmartVotes(part)
             w == TrendVotes(whole) + CrowdVotes(whole) + SmartVotes(whole)
         IN  v \in Int /\ w \in Int /\ v - w \in -4..4
<1>1. ASSUME NEW x, NEW y, NEW z PROVE Vote(x, y, z) \in -1..1
  BY DEF Vote
<1>2. TrendVotes(part) = TrendVotes(whole) /\ TrendVotes(whole) \in Int
  <2>1. TrendVotes(part) = TrendVotes(whole)
    BY DEF Leaves, OwnSignals, TrendVotes
  <2>2. TrendVotes(whole) \in Int
    BY <1>1 DEF TrendVotes
  <2>. QED BY <2>1, <2>2
<1>3. CrowdVotes(part) \in Int /\ CrowdVotes(whole) \in Int
      /\ CrowdVotes(part) - CrowdVotes(whole) \in -2..2
  <2>1. part.long_short_ratio = whole.long_short_ratio
    BY DEF Leaves, OwnSignals
  <2>. QED BY <2>1, <1>1 DEF CrowdVotes
<1>4. SmartVotes(part) \in Int /\ SmartVotes(whole) \in Int
      /\ SmartVotes(part) - SmartVotes(whole) \in -2..2
  <2>1. \A l, h : Extreme({}, l, h) = "none"
    BY DEF Extreme
  <2>2. \A x, y : Vote("none", "high", "low") = 0
    BY DEF Vote
  <2>3. /\ Crowd(part.top_trader_ls_ratio) \in {Crowd(whole.top_trader_ls_ratio), "none"}
    BY <2>1 DEF Leaves, Crowd
  <2> DEFINE Lean(sig) == Extreme(sig.basis, -settings.BASIS_CONTANGO_THRESHOLD,
                                  settings.BASIS_CONTANGO_THRESHOLD)
  <2>4. Lean(part) \in {Lean(whole), "none"}
    BY <2>1 DEF Leaves
  <2>. QED BY <2>2, <2>3, <2>4, <1>1 DEF SmartVotes
<1>. QED BY <1>2, <1>3, <1>4

\* The threshold of the direction exceeds half of what an outage can shift.
VotesSuffice == settings.DIRECTION_VOTE_THRESHOLD >= 3

\* What is left may blur the direction but does not turn it.
LEMMA DirectionNotTurned ==
  ASSUME VotesSuffice, NEW whole, NEW part, Leaves(whole, part)
  PROVE  {ComputeDirection(part), ComputeDirection(whole)} # {"long", "short"}
<1> DEFINE v == TrendVotes(part) + CrowdVotes(part) + SmartVotes(part)
           w == TrendVotes(whole) + CrowdVotes(whole) + SmartVotes(whole)
           t == settings.DIRECTION_VOTE_THRESHOLD
<1>1. v \in Int /\ w \in Int /\ v - w \in -4..4
  BY VotesNear
<1>2. t \in Int /\ t >= 3
  BY IndicatorsAssumption DEF VotesSuffice
<1>3. /\ ComputeDirection(part) = CASE v >= t -> "long" [] v <= -t -> "short" [] OTHER -> "mixed"
      /\ ComputeDirection(whole) = CASE w >= t -> "long" [] w <= -t -> "short" [] OTHER -> "mixed"
  BY DEF ComputeDirection
<1>. HIDE DEF v, w, t
<1>4. ~ (ComputeDirection(part) = "long" /\ ComputeDirection(whole) = "short")
  BY <1>1, <1>2, <1>3
<1>5. ~ (ComputeDirection(part) = "short" /\ ComputeDirection(whole) = "long")
  BY <1>1, <1>2, <1>3
<1>. QED BY <1>4, <1>5

----------------------------------------------------------------------------
(* What LunarCrush could not tell. *)

\* The answers for a symbol, and what the risk of a pump is made of.
Heard(s, failed, endpoint) ==
  IF endpoint \in failed \/ TopicOf(s) \notin DOMAIN Topics THEN <<>>
  ELSE Topics[TopicOf(s)][endpoint]

Talk(s, failed) ==
  AttentionLevel(UNION {c.volume : c \in lc[s]},
                 AttentionBaseline(IF "series" \in failed THEN <<>> ELSE TimeSeries[s]))

Influencers(s, failed) ==
  {i \in DOMAIN Heard(s, failed, "posts") :
     Heard(s, failed, "posts")[i] >= settings.LUNARCRUSH_INFLUENCER_FOLLOWERS_THRESHOLD}

Fresh(s, failed) == FreshNews(Heard(s, failed, "news"))

\* The risk follows from the attention, the number of influencers and that of the
\* fresh news.
LEMMA RiskIs ==
  ASSUME NEW s, NEW failed
  PROVE  InsightWithout(s, failed).pump_risk =
           ClassifyPumpRisk(Talk(s, failed), Cardinality(Influencers(s, failed)),
                            Cardinality(Fresh(s, failed)))
BY DEF InsightWithout, DeriveSocialInsight, Talk, Influencers, Fresh, Heard

\* The numbers are numbers, and none without an answer.
LEMMA HeardCounts ==
  ASSUME NEW s, NEW failed
  PROVE  /\ Cardinality(Influencers(s, failed)) \in Nat
         /\ Cardinality(Fresh(s, failed)) \in Nat
         /\ "posts" \in failed => Cardinality(Influencers(s, failed)) = 0
         /\ "news" \in failed => Cardinality(Fresh(s, failed)) = 0
<1>1. ASSUME NEW endpoint \in {"posts", "news"}
      PROVE  IsFiniteSet(DOMAIN Heard(s, failed, endpoint))
  <2> DEFINE heard == Heard(s, failed, endpoint)
  <2>1. PICK E : heard \in Seq(E)
    BY ScanAssumption DEF Heard
  <2>. HIDE DEF heard
  <2>2. DOMAIN heard = 1..Len(heard) /\ Len(heard) \in Nat
    BY <2>1
  <2>. QED BY <2>2, FS_Interval DEF heard
<1>2. /\ Influencers(s, failed) \subseteq DOMAIN Heard(s, failed, "posts")
      /\ Fresh(s, failed) \subseteq DOMAIN Heard(s, failed, "news")
  BY DEF Influencers, Fresh, FreshNews
<1>3. IsFiniteSet(Influencers(s, failed)) /\ IsFiniteSet(Fresh(s, failed))
  BY <1>1, <1>2, FS_Subset
<1>4. /\ "posts" \in failed => DOMAIN Heard(s, failed, "posts") = {}
      /\ "news" \in failed => DOMAIN Heard(s, failed, "news") = {}
  BY DEF Heard
<1>. QED BY <1>2, <1>3, <1>4, FS_CardinalityType, FS_EmptySet

\* Of two answers that differ in one endpoint, the one without it errs on its side.
LEMMA RiskErrs ==
  ASSUME NEW s, NEW failed, NEW endpoint \in failed, failed \subseteq Endpoints
  PROVE  LET risk == RiskRank(InsightWithout(s, failed).pump_risk)
             up == RiskRank(InsightWithout(s, failed \ {endpoint}).pump_risk)
         IN  IF endpoint = "news" THEN risk >= up ELSE risk <= up
<1> DEFINE others == failed \ {endpoint}
           m == settings.PUMP_INFLUENCER_MIN
           n == Cardinality(Influencers(s, failed))
           k == Cardinality(Fresh(s, failed))
           n2 == Cardinality(Influencers(s, others))
           k2 == Cardinality(Fresh(s, others))
<1>1. m \in Nat /\ n \in Nat /\ k \in Nat /\ n2 \in Nat /\ k2 \in Nat
  BY ScanAssumption, HeardCounts
<1>2. /\ InsightWithout(s, failed).pump_risk = ClassifyPumpRisk(Talk(s, failed), n, k)
      /\ InsightWithout(s, others).pump_risk = ClassifyPumpRisk(Talk(s, others), n2, k2)
  BY RiskIs
<1>3. ASSUME NEW t, NEW i, NEW f
      PROVE  RiskRank(ClassifyPumpRisk(t, i, f)) =
               IF t # "spike" THEN 0 ELSE IF i >= m /\ f = 0 THEN 2 ELSE 1
  BY DEF RiskRank, ClassifyPumpRisk
<1>4. CASE endpoint = "news"
  <2>1. Talk(s, failed) = Talk(s, others) /\ n = n2 /\ k = 0
    BY <1>4, HeardCounts DEF Talk, Influencers, Heard
  <2>. HIDE DEF others, m, n, k, n2, k2
  <2>. QED BY <1>1, <1>2, <1>3, <1>4, <2>1 DEF others
<1>5. CASE endpoint = "posts"
  <2>1. Talk(s, failed) = Talk(s, others) /\ k = k2 /\ n = 0
    BY <1>5, HeardCounts DEF Talk, Fresh, Heard
  <2>. HIDE DEF others, m, n, k, n2, k2
  <2>. QED BY <1>1, <1>2, <1>3, <1>5, <2>1 DEF others
<1>6. CASE endpoint = "series"
  <2>1. Talk(s, failed) # "spike"
    <3>1. AttentionBaseline(<<>>) = {}
      BY DEF AttentionBaseline
    <3>2. \A v : AttentionLevel(v, {}) = "silent"
      BY DEF AttentionLevel
    <3>. QED BY <1>6, <3>1, <3>2 DEF Talk
  <2>. HIDE DEF others, m, n, k, n2, k2
  <2>. QED BY <1>1, <1>2, <1>3, <1>6, <2>1 DEF others
<1>. QED BY <1>4, <1>5, <1>6 DEF Endpoints

----------------------------------------------------------------------------
(* The scan. *)

ScanPlaces ==
  {"none", "waiting", "fetch", "coinglass", "book", "asking", "done", "raised", "refused"}

Idle == phase = "idle" => \A s \in Symbols : task[s] = "none"

\* The tasks of the enricher are the only ones while it asks, and nobody has asked
\* before.
Enriching ==
  /\ phase = "social" => \A s \in Symbols : task[s] \in {"none", "asking", "done"}
  /\ phase # "social" => \A s \in Symbols : insight[s] = {}

\* The verdict on a symbol is that on its market as it is.
Judged ==
  \A s \in Symbols : task[s] = "book" => \E failed \in Outages : outcome[s] = Verdict(s, failed)

\* An insight is what its endpoints have answered.
Told ==
  \A s \in Symbols : \A i \in insight[s] :
    i.failed \subseteq Endpoints /\ i.social = InsightWithout(s, i.failed)

ScanInv ==
  /\ task \in [Symbols -> ScanPlaces]
  /\ outcome = [s \in Symbols |-> outcome[s]] /\ insight = [s \in Symbols |-> insight[s]]
  /\ Idle /\ Enriching /\ Judged /\ Told

\* A scan that has been cleared holds nothing.
LEMMA ClearedInv ==
  ASSUME Cleared
  PROVE  ScanInv'
BY DEF Cleared, ScanInv, ScanPlaces, Idle, Enriching, Judged, Told

\* A step of one task that is not about its outcome.
LEMMA GoesInv ==
  ASSUME ScanInv, NEW s \in Symbols, NEW place \in ScanPlaces \ {"none", "asking", "book"},
         task[s] \notin {"none", "asking", "done"}, Goes(s, place),
         UNCHANGED <<market, phase, outcome, lc, insight>>
  PROVE  ScanInv'
<1>1. task' \in [Symbols -> ScanPlaces] /\ \A t \in Symbols : t # s => task'[t] = task[t]
  BY DEF ScanInv, Goes
<1>2. task'[s] = place
  BY DEF ScanInv, Goes
<1>3. phase # "idle" /\ phase # "social"
  BY DEF ScanInv, Idle, Enriching
<1>4. \A t \in Symbols : \A failed : Verdict(t, failed)' = Verdict(t, failed)
                                     /\ InsightWithout(t, failed)' = InsightWithout(t, failed)
  BY DEF Verdict, InsightWithout, TopicOf
<1>. QED BY <1>1, <1>2, <1>3, <1>4 DEF ScanInv, Idle, Enriching, Judged, Told

\* Every step of a scan keeps the invariant.
LEMMA ScanStep ==
  ASSUME ScanInv, [ScanNext]_scanVars
  PROVE  ScanInv'
<1>0. ASSUME UNCHANGED <<lc, outcome>>
      PROVE  \A s, failed : InsightWithout(s, failed)' = InsightWithout(s, failed)
  BY <1>0 DEF InsightWithout, TopicOf
<1>1. ASSUME NEW s \in Symbols, BarCloses(s) PROVE ScanInv'
  BY <1>0, <1>1 DEF BarCloses, ScanInv, Idle, Enriching, Judged, Told
<1>2. ASSUME NEW s \in Symbols, Enter(s) PROVE ScanInv'
  BY <1>2, GoesInv DEF Enter, ScanPlaces
<1>3. ASSUME NEW s \in Symbols, Fetch(s) PROVE ScanInv'
  <2>1. PICK place \in {"done", "coinglass"} : Goes(s, place)
    BY <1>3 DEF Fetch
  <2>. QED BY <1>3, <2>1, GoesInv DEF Fetch, ScanPlaces
<1>4. ASSUME NEW s \in Symbols, AskCoinGlass(s) PROVE ScanInv'
  <2>1. CASE \E failed \in Outages : Results(s, Verdict(s, failed)) /\ Goes(s, "book")
    <3>1. PICK failed \in Outages : Results(s, Verdict(s, failed)) /\ Goes(s, "book")
      BY <2>1
    <3>2. /\ task' \in [Symbols -> ScanPlaces] /\ task'[s] = "book"
          /\ outcome' = [t \in Symbols |-> outcome'[t]] /\ outcome'[s] = Verdict(s, failed)
          /\ \A t \in Symbols : t # s => task'[t] = task[t] /\ outcome'[t] = outcome[t]
      BY <3>1 DEF ScanInv, Goes, Results, ScanPlaces
    <3>3. phase # "idle" /\ phase # "social" /\ UNCHANGED <<market, phase, insight>>
      BY <1>4 DEF AskCoinGlass, ScanInv, Idle, Enriching
    <3>4. \A t, f : Verdict(t, f)' = Verdict(t, f)
      BY <3>3 DEF Verdict
    <3>5. \A t \in Symbols : insight'[t] = {}
      BY <3>3 DEF ScanInv, Enriching
    <3>. QED BY <3>2, <3>3, <3>4, <3>5 DEF ScanInv, Idle, Enriching, Judged, Told
  <2>2. CASE \E end \in {"refused", "raised"} : Goes(s, end) /\ UNCHANGED outcome
    BY <1>4, <2>2, GoesInv DEF AskCoinGlass, ScanPlaces
  <2>. QED BY <1>4, <2>1, <2>2 DEF AskCoinGlass
<1>5. ASSUME NEW s \in Symbols, FetchBook(s) PROVE ScanInv'
  BY <1>5, GoesInv DEF FetchBook, ScanPlaces
<1>6. ASSUME NEW s \in Symbols, AskLunarCrush(s) PROVE ScanInv'
  <2>1. PICK failed \in SUBSET Endpoints :
          insight' = [insight EXCEPT ![s] = {[failed |-> failed, social |-> InsightWithout(s, failed)]}]
    BY <1>6 DEF AskLunarCrush
  <2>2. /\ task' \in [Symbols -> ScanPlaces] /\ task'[s] = "done"
        /\ \A t \in Symbols : t # s => task'[t] = task[t]
    BY <1>6 DEF AskLunarCrush, ScanInv, Goes, ScanPlaces
  <2>3. phase = "social" /\ UNCHANGED <<market, phase, outcome, lc>>
    BY <1>6 DEF AskLunarCrush
  <2>4. Told'
    BY <1>0, <2>1, <2>3 DEF ScanInv, Told
  <2>5. insight' = [t \in Symbols |-> insight'[t]]
    BY <2>1 DEF ScanInv
  <2>6. \A t, f : Verdict(t, f)' = Verdict(t, f)
    BY <2>3 DEF Verdict
  <2>. QED BY <2>2, <2>3, <2>4, <2>5, <2>6 DEF ScanInv, Idle, Enriching, Judged
<1>7. ASSUME Begin PROVE ScanInv'
  BY <1>0, <1>7 DEF Begin, ScanInv, ScanPlaces, Idle, Enriching, Judged, Told
<1>8. ASSUME Finish PROVE ScanInv'
  <2>1. CASE Cleared
    BY <2>1, ClearedInv
  <2>2. CASE ~ Cleared
    <3>1. /\ phase = "screen" /\ phase' \in {"failed", "sources"}
          /\ UNCHANGED <<market, task, outcome, lc, insight>>
      BY <1>8, <2>2 DEF Finish
    <3>2. \A t, f : Verdict(t, f)' = Verdict(t, f)
      BY <3>1 DEF Verdict
    <3>. QED BY <1>0, <3>1, <3>2 DEF ScanInv, Idle, Enriching, Judged, Told
  <2>. QED BY <2>1, <2>2
<1>9. ASSUME AskSources PROVE ScanInv'
  <2>1. CASE phase' = "failed" /\ UNCHANGED <<task, lc>>
    <3>1. \A t, f : Verdict(t, f)' = Verdict(t, f)
      BY <1>9 DEF Verdict, AskSources
    <3>. QED BY <1>0, <1>9, <2>1, <3>1 DEF AskSources, ScanInv, Idle, Enriching, Judged, Told
  <2>2. CASE phase' = "social"
             /\ task' = [s \in Symbols |-> IF s \in ToSet(top) THEN "asking" ELSE "none"]
    BY <1>9, <2>2 DEF AskSources, ScanInv, ScanPlaces, Idle, Enriching, Judged, Told
  <2>. QED BY <1>9, <2>1, <2>2 DEF AskSources
<1>10. ASSUME HandOver \/ Recover PROVE ScanInv'
  BY <1>10, ClearedInv DEF HandOver, Recover
<1>11. ASSUME UNCHANGED scanVars PROVE ScanInv'
  <2>1. \A t, f : Verdict(t, f)' = Verdict(t, f)
    BY <1>11 DEF Verdict, scanVars
  <2>. QED BY <1>0, <1>11, <2>1 DEF scanVars, ScanInv, Idle, Enriching, Judged, Told
<1>. QED
  BY <1>1, <1>2, <1>3, <1>4, <1>5, <1>6, <1>7, <1>8, <1>9, <1>10, <1>11 DEF ScanNext

\* The invariant holds of every reachable state.
LEMMA ScanInvariant == ScanSpec => []ScanInv
<1>1. ScanInit => ScanInv
  BY DEF ScanInit, ScanInv, ScanPlaces, Idle, Enriching, Judged, Told
<1>. QED BY <1>1, ScanStep, PTL DEF ScanSpec

\* An outage of CoinGlass never raises the score of a symbol, and it does not turn
\* its direction round if the threshold of the votes is three at least: top traders,
\* basis and funding shift four votes at most.
THEOREM OutagesPromoteNobody == VotesSuffice => (ScanSpec => []OutageNeverPromotes)
<1>. SUFFICES ASSUME VotesSuffice PROVE ScanSpec => []OutageNeverPromotes
  OBVIOUS
<1>1. ScanInv => OutageNeverPromotes
  <2>. SUFFICES ASSUME ScanInv, NEW s \in Symbols, task[s] = "book"
               PROVE  /\ outcome[s].score <= Verdict(s, {}).score
                      /\ {outcome[s].direction, Verdict(s, {}).direction} # {"long", "short"}
    BY DEF OutageNeverPromotes
  <2>1. PICK failed \in Outages : outcome[s] = Verdict(s, failed)
    BY DEF ScanInv, Judged
  <2> DEFINE part == Signals(market[s], failed)
             whole == Signals(market[s], {})
  <2>2. /\ outcome[s].score = ComputeScore(part) /\ Verdict(s, {}).score = ComputeScore(whole)
        /\ outcome[s].direction = ComputeDirection(part)
        /\ Verdict(s, {}).direction = ComputeDirection(whole)
    BY <2>1 DEF Verdict
  <2>3. Leaves(whole, part)
    BY OutageLeaves
  <2>. HIDE DEF part, whole
  <2>. QED BY <2>2, <2>3, ScoreNotRaised, DirectionNotTurned
<1>. QED BY <1>1, ScanInvariant, PTL

\* What LunarCrush could not tell errs on one side: without the news a candidate
\* never looks less of a pump, without anything else never more of one.
THEOREM MissingTalkErrsOneWay == ScanSpec => []RiskErrsOneWay
<1>1. ScanInv => RiskErrsOneWay
  BY RiskErrs DEF ScanInv, Told, RiskErrsOneWay
<1>. QED BY <1>1, ScanInvariant, PTL

----------------------------------------------------------------------------
(* What a filter keeps. *)

KeepStep(E, s, S) ==
  [a \in (1 .. Len(s)) \X Seq(E) |-> IF s[a[1]] \in S THEN Append(a[2], s[a[1]]) ELSE a[2]]

\* Filtering is a fold from the left.
LEMMA KeptFolds ==
  ASSUME NEW E, NEW s \in Seq(E), NEW S
  PROVE  \E g : /\ IsFold(g, 1 .. Len(s), <<>>, KeepStep(E, s, S), Latest(Len(s)))
                /\ Values(g, Len(s), Seq(E))
                /\ Kept(s, S) = g[1 .. Len(s)]
<1> DEFINE n == Len(s)
           H == KeepStep(E, s, S)
           V == Seq(E)
           Runs(g) == g = [t \in SUBSET (1 .. n) |->
                         IF t = {} THEN <<>>
                         ELSE IF s[Max(t)] \in S THEN Append(g[t \ {Max(t)}], s[Max(t)])
                         ELSE g[t \ {Max(t)}]]
           it == CHOOSE g : Runs(g)
<1>0. n \in Nat /\ DOMAIN s = 1 .. n /\ \A i \in 1 .. n : s[i] \in E
  OBVIOUS
<1>1. <<>> \in V /\ Keeps(H, 1 .. n, V)
  <2>1. ASSUME NEW i \in 1 .. n, NEW v \in V PROVE H[<<i, v>>] \in V
    <3>1. H[<<i, v>>] = IF s[i] \in S THEN Append(v, s[i]) ELSE v
      BY DEF KeepStep
    <3>2. Append(v, s[i]) \in V
      BY <1>0
    <3>. QED BY <3>1, <3>2
  <2>. QED BY <2>1 DEF Keeps
<1>2. Kept(s, S) = it[1 .. n]
  BY <1>0 DEF Kept, FoldLeft, MapThenFoldSet
<1>3. \A t \in SUBSET (1 .. n) : t # {} => Max(t) \in 1 .. n /\ Latest(n)[t] = Max(t)
  BY <1>0, LatestPicks DEF Picks, Latest
<1>4. ASSUME NEW t \in SUBSET (1 .. n), t # {}, NEW v \in V
      PROVE  H[<<Max(t), v>>] = IF s[Max(t)] \in S THEN Append(v, s[Max(t)]) ELSE v
  BY <1>3, <1>4 DEF KeepStep
<1>5. \E g : Runs(g)
  <2>1. PICK g : IsFold(g, 1 .. n, <<>>, H, Latest(n)) /\ Values(g, n, V)
    <3>. HIDE DEF H, V, n
    <3>. QED BY <1>0, <1>1, LeftFoldExists
  <2>2. ASSUME NEW t \in SUBSET (1 .. n), t # {}
        PROVE  H[<<Latest(n)[t], g[t \ {Latest(n)[t]}]>>]
               = IF s[Max(t)] \in S THEN Append(g[t \ {Max(t)}], s[Max(t)]) ELSE g[t \ {Max(t)}]
    <3>1. t \ {Max(t)} \in SUBSET (1 .. n)
      OBVIOUS
    <3>. HIDE DEF H, V, n
    <3>2. g[t \ {Max(t)}] \in V
      BY <2>1, <3>1 DEF Values
    <3>. QED BY <1>3, <1>4, <2>2, <3>2
  <2>3. Runs(g)
    <3>. HIDE DEF H, V, n
    <3>. QED BY <2>1, <2>2 DEF IsFold
  <2>. QED BY <2>3
<1>6. Runs(it)
  BY <1>5
<1>. HIDE DEF it
<1>7. IsFold(it, 1 .. n, <<>>, H, Latest(n)) /\ Values(it, n, V)
  <2>1. it = [t \in SUBSET (1 .. n) |-> it[t]] /\ it[{}] = <<>>
    BY <1>6
  <2>2. ASSUME NEW t \in SUBSET (1 .. n), t # {}, it[t \ {Max(t)}] \in V
        PROVE  it[t] = H[<<Max(t), it[t \ {Max(t)}]>>]
    <3>1. it[t] = IF s[Max(t)] \in S THEN Append(it[t \ {Max(t)}], s[Max(t)]) ELSE it[t \ {Max(t)}]
      BY <1>6, <2>2
    <3>. HIDE DEF H, V, n, Runs
    <3>. QED BY <1>4, <2>2, <3>1
  <2>. HIDE DEF H, V, n, Runs
  <2>3. TakesSteps(it, n, H, V)
    BY <2>1, <2>2 DEF TakesSteps
  <2>. QED BY <1>0, <1>1, <2>1, <2>3, LeftFoldOnly
<1>. QED BY <1>2, <1>7

\* The list r holds the members at the places at, of all members in S among the
\* first k and in their order.
Selects(r, at, s, S, k) ==
  /\ at \in [1 .. Len(r) -> 1 .. k]
  /\ \A p, q \in 1 .. Len(r) : p < q => at[p] < at[q]
  /\ \A q \in 1 .. Len(r) : r[q] = s[at[q]] /\ s[at[q]] \in S
  /\ \A i \in 1 .. k : s[i] \in S => \E q \in 1 .. Len(r) : at[q] = i

\* One member more.
LEMMA SelectsMore ==
  ASSUME NEW E, NEW s \in Seq(E), NEW S, NEW k \in 1 .. Len(s),
         NEW r \in Seq(E), NEW at, Selects(r, at, s, S, k - 1)
  PROVE  LET r2 == IF s[k] \in S THEN Append(r, s[k]) ELSE r
         IN  \E at2 : Selects(r2, at2, s, S, k)
<1>1. CASE s[k] \notin S
  <2>1. Selects(r, at, s, S, k)
    BY <1>1 DEF Selects
  <2>. QED BY <1>1, <2>1
<1>2. CASE s[k] \in S
  <2> DEFINE m == Len(r)
             r2 == Append(r, s[k])
             at2 == [q \in 1 .. m + 1 |-> IF q = m + 1 THEN k ELSE at[q]]
  <2>1. m \in Nat /\ Len(r2) = m + 1 /\ r2[m + 1] = s[k] /\ \A q \in 1 .. m : r2[q] = r[q]
    <3>1. s[k] \in E
      OBVIOUS
    <3>. QED BY <3>1, AppendProperties
  <2>2. /\ at \in [1 .. m -> 1 .. k - 1]
        /\ \A p, q \in 1 .. m : p < q => at[p] < at[q]
        /\ \A q \in 1 .. m : r[q] = s[at[q]] /\ s[at[q]] \in S
        /\ \A i \in 1 .. k - 1 : s[i] \in S => \E q \in 1 .. m : at[q] = i
    BY DEF Selects
  <2>. HIDE DEF m, r2
  <2>3. at2 \in [1 .. m + 1 -> 1 .. k]
    BY <2>1, <2>2
  <2>4. at2[m + 1] = k /\ \A q \in 1 .. m : at2[q] = at[q] /\ at2[q] < k
    BY <2>1, <2>2
  <2>. HIDE DEF at2
  <2>5. ASSUME NEW p \in 1 .. m + 1, NEW q \in 1 .. m + 1, p < q
        PROVE  at2[p] < at2[q]
    <3>1. p \in 1 .. m /\ (q \in 1 .. m \/ q = m + 1)
      BY <2>1, <2>5
    <3>. QED BY <2>2, <2>4, <2>5, <3>1
  <2>6. \A q \in 1 .. m + 1 : r2[q] = s[at2[q]] /\ s[at2[q]] \in S
    BY <1>2, <2>1, <2>2, <2>4
  <2>7. ASSUME NEW i \in 1 .. k, s[i] \in S
        PROVE  \E q \in 1 .. m + 1 : at2[q] = i
    <3>1. CASE i = k
      BY <2>1, <2>4, <3>1
    <3>2. CASE i # k
      <4>1. PICK q \in 1 .. m : at[q] = i
        BY <2>2, <2>7, <3>2
      <4>. QED BY <2>1, <2>4, <4>1
    <3>. QED BY <3>1, <3>2
  <2>8. Selects(r2, at2, s, S, k)
    BY <2>1, <2>3, <2>5, <2>6, <2>7 DEF Selects
  <2>. QED BY <1>2, <2>8 DEF r2
<1>. QED BY <1>1, <1>2

\* A filter keeps exactly the members of the set, in their order.
LEMMA KeptSelects ==
  ASSUME NEW E, NEW s \in Seq(E), NEW S
  PROVE  Kept(s, S) \in Seq(E) /\ \E at : Selects(Kept(s, S), at, s, S, Len(s))
<1> DEFINE n == Len(s)
           H == KeepStep(E, s, S)
<1>1. PICK g : /\ IsFold(g, 1 .. n, <<>>, H, Latest(n))
               /\ Values(g, n, Seq(E)) /\ Kept(s, S) = g[1 .. n]
  BY KeptFolds
<1>2. n \in Nat /\ \A k \in 1 .. n, v \in Seq(E) :
        H[<<k, v>>] = IF s[k] \in S THEN Append(v, s[k]) ELSE v
  BY DEF KeepStep
<1>. HIDE DEF H
<1>3. /\ g[1 .. 0] = <<>>
      /\ \A k \in 1 .. n : g[1 .. k] = H[<<k, g[1 .. k - 1]>>]
  BY <1>1, <1>2, LeftFoldStep
<1>4. \A k \in 0 .. n : g[1 .. k] \in Seq(E)
  <2>1. \A k \in 0 .. n : 1 .. k \in SUBSET (1 .. n)
    OBVIOUS
  <2>. QED BY <1>1, <2>1 DEF Values
<1> DEFINE bad == {k \in 0 .. n : ~ \E at : Selects(g[1 .. k], at, s, S, k)}
<1>5. bad = {}
  <2>. SUFFICES ASSUME bad # {} PROVE FALSE
    OBVIOUS
  <2>1. PICK k \in bad : \A i \in bad : k <= i
    <3>1. bad \in SUBSET Nat
      OBVIOUS
    <3>. HIDE DEF bad
    <3>. QED BY <3>1, SmallestNumber
  <2>2. k # 0
    <3>1. Selects(<<>>, <<>>, s, S, 0)
      BY DEF Selects
    <3>. QED BY <1>3, <2>1, <3>1
  <2>3. k \in 1 .. n /\ k - 1 \in 0 .. n /\ k - 1 \notin bad
    BY <2>1, <2>2
  <2>4. PICK at : Selects(g[1 .. k - 1], at, s, S, k - 1)
    BY <2>3
  <2>5. g[1 .. k] = IF s[k] \in S THEN Append(g[1 .. k - 1], s[k]) ELSE g[1 .. k - 1]
    BY <1>2, <1>3, <1>4, <2>3
  <2>6. \E at2 : Selects(g[1 .. k], at2, s, S, k)
    <3> DEFINE r == g[1 .. k - 1]
    <3>1. r \in Seq(E) /\ Selects(r, at, s, S, k - 1)
      BY <1>4, <2>3, <2>4
    <3>2. g[1 .. k] = IF s[k] \in S THEN Append(r, s[k]) ELSE r
      BY <2>5
    <3>. HIDE DEF r
    <3>3. \E at2 : Selects(IF s[k] \in S THEN Append(r, s[k]) ELSE r, at2, s, S, k)
      BY <2>3, <3>1, SelectsMore
    <3>. QED BY <3>2, <3>3
  <2>. QED BY <2>1, <2>6
<1>. QED BY <1>1, <1>2, <1>4, <1>5

----------------------------------------------------------------------------
(* What a stable sort gives. *)

\* The member at i comes before the one at j, and all that come before that at i.
Sooner(s, key, i, j) == key[s[i]] > key[s[j]] \/ (key[s[i]] = key[s[j]] /\ i < j)

Sooners(s, key, i) == {j \in DOMAIN s : Sooner(s, key, j, i)}

\* The places pos are in the order of the sort, and all places are among them.
Orders(pos, s, key) ==
  /\ pos \in [DOMAIN s -> DOMAIN s]
  /\ \A p, q \in DOMAIN s : p < q => Sooner(s, key, pos[p], pos[q])
  /\ \A i \in DOMAIN s : \E p \in DOMAIN s : pos[p] = i

Keyed(s, key) == \A i \in DOMAIN s : key[s[i]] \in Int

\* The number of those that come before grows with the order.
LEMMA SoonerCounts ==
  ASSUME NEW E, NEW s \in Seq(E), NEW key, Keyed(s, key),
         NEW i \in DOMAIN s, NEW j \in DOMAIN s
  PROVE  /\ Cardinality(Sooners(s, key, i)) \in 0 .. Len(s) - 1
         /\ i # j => Sooner(s, key, i, j) \/ Sooner(s, key, j, i)
         /\ Sooner(s, key, i, j) => Cardinality(Sooners(s, key, i)) < Cardinality(Sooners(s, key, j))
<1>0. /\ DOMAIN s = 1 .. Len(s) /\ Len(s) \in Nat /\ IsFiniteSet(DOMAIN s)
      /\ Cardinality(DOMAIN s) = Len(s)
  BY FS_Interval
<1>1. \A x \in DOMAIN s : x \in Int /\ key[s[x]] \in Int
  BY <1>0 DEF Keyed
<1>2. \A x \in DOMAIN s :
        /\ Sooners(s, key, x) \subseteq DOMAIN s /\ x \notin Sooners(s, key, x)
        /\ IsFiniteSet(Sooners(s, key, x)) /\ Cardinality(Sooners(s, key, x)) \in Nat
  <2>1. ASSUME NEW x \in DOMAIN s PROVE x \notin Sooners(s, key, x)
    BY <1>1 DEF Sooners, Sooner
  <2>2. ASSUME NEW x \in DOMAIN s
        PROVE  /\ Sooners(s, key, x) \subseteq DOMAIN s
               /\ IsFiniteSet(Sooners(s, key, x)) /\ Cardinality(Sooners(s, key, x)) \in Nat
    <3>1. Sooners(s, key, x) \subseteq DOMAIN s
      BY DEF Sooners
    <3>. QED BY <1>0, <3>1, FS_Subset, FS_CardinalityType
  <2>. QED BY <2>1, <2>2
<1>3. Cardinality(Sooners(s, key, i)) <= Len(s) - 1
  <2>1. Sooners(s, key, i) \subseteq DOMAIN s \ {i}
    BY <1>2
  <2>2. IsFiniteSet(DOMAIN s \ {i}) /\ Cardinality(DOMAIN s \ {i}) = Len(s) - 1
    BY <1>0, FS_RemoveElement
  <2>. QED BY <2>1, <2>2, FS_Subset
<1>4. ASSUME Sooner(s, key, i, j)
      PROVE  Cardinality(Sooners(s, key, i)) < Cardinality(Sooners(s, key, j))
  <2>1. Sooners(s, key, i) \subseteq Sooners(s, key, j)
    <3>1. ASSUME NEW x \in DOMAIN s, Sooner(s, key, x, i) PROVE Sooner(s, key, x, j)
      BY <1>1, <1>4, <3>1 DEF Sooner
    <3>. QED BY <3>1 DEF Sooners
  <2>2. i \in Sooners(s, key, j)
    BY <1>4 DEF Sooners
  <2>3. Sooners(s, key, i) # Sooners(s, key, j)
    BY <1>2, <2>2
  <2>4. /\ Cardinality(Sooners(s, key, i)) <= Cardinality(Sooners(s, key, j))
        /\ Cardinality(Sooners(s, key, i)) # Cardinality(Sooners(s, key, j))
    BY <1>2, <2>1, <2>3, FS_Subset
  <2>. QED BY <1>2, <2>4
<1>5. i # j => Sooner(s, key, i, j) \/ Sooner(s, key, j, i)
  BY <1>1 DEF Sooner
<1>. QED BY <1>0, <1>2, <1>3, <1>4, <1>5

\* A stable sort takes every member once, in the order of the keys and of the places.
LEMMA SortOrders ==
  ASSUME NEW E, NEW s \in Seq(E), NEW key, Keyed(s, key)
  PROVE  \E pos : Orders(pos, s, key) /\ SortedDown(s, key) = [p \in DOMAIN s |-> s[pos[p]]]
<1> DEFINE n == Len(s)
           D == 1 .. n
           rank == [i \in D |-> Cardinality(Sooners(s, key, i)) + 1]
           At(p) == CHOOSE i \in DOMAIN s : Cardinality({j \in DOMAIN s :
                      key[s[j]] > key[s[i]] \/ (key[s[j]] = key[s[i]] /\ j < i)}) = p - 1
           pos == [p \in DOMAIN s |-> At(p)]
<1>1. D = DOMAIN s /\ n \in Nat /\ IsFiniteSet(D)
  BY FS_Interval
<1>2. SortedDown(s, key) = [p \in DOMAIN s |-> s[pos[p]]]
  BY DEF SortedDown
<1>3. \A i \in D : Sooners(s, key, i) = {j \in D :
          key[s[j]] > key[s[i]] \/ (key[s[j]] = key[s[i]] /\ j < i)}
  BY <1>1 DEF Sooners, Sooner
<1>4. rank \in Surjection(D, D)
  <2>1. rank \in [D -> D]
    <3>1. \A i \in D : Cardinality(Sooners(s, key, i)) \in 0 .. n - 1
      BY <1>1, SoonerCounts
    <3>. QED BY <1>1, <3>1
  <2>2. ASSUME NEW i \in D, NEW j \in D, i # j PROVE rank[i] # rank[j]
    BY <1>1, <2>2, SoonerCounts
  <2>3. rank \in Injection(D, D)
    BY <2>1, <2>2 DEF Injection, IsInjective
  <2>. HIDE DEF D, rank
  <2>. QED BY <1>1, <2>3, FS_Injection
<1>5. ASSUME NEW p \in D PROVE pos[p] \in D /\ rank[pos[p]] = p
  <2>1. \E i \in D : rank[i] = p
    BY <1>4 DEF Surjection
  <2>2. \E i \in D : Cardinality(Sooners(s, key, i)) = p - 1
    <3>1. \A i \in D : Cardinality(Sooners(s, key, i)) \in Int
      BY <1>1, SoonerCounts
    <3>. QED BY <2>1, <3>1
  <2>3. pos[p] \in D /\ Cardinality(Sooners(s, key, pos[p])) = p - 1
    <3> DEFINE Counts(i) == Cardinality({j \in DOMAIN s :
                 key[s[j]] > key[s[i]] \/ (key[s[j]] = key[s[i]] /\ j < i)}) = p - 1
    <3>1. pos[p] = CHOOSE i \in DOMAIN s : Counts(i)
      BY <1>1
    <3>2. \A i \in D : Cardinality(Sooners(s, key, i)) = p - 1 <=> Counts(i)
      BY <1>1, <1>3
    <3>. HIDE DEF Counts, D, pos
    <3>. QED BY <1>1, <2>2, <3>1, <3>2
  <2>. QED BY <2>3
<1>6. pos \in [D -> D]
  <2>1. pos = [p \in DOMAIN s |-> pos[p]]
    <3>. HIDE DEF At
    <3>. QED OBVIOUS
  <2>. HIDE DEF pos, D
  <2>. QED BY <1>1, <1>5, <2>1
<1>. HIDE DEF pos, D
<1>7. ASSUME NEW p \in D, NEW q \in D, p < q PROVE Sooner(s, key, pos[p], pos[q])
  <2>1. pos[p] \in D /\ pos[q] \in D /\ rank[pos[p]] = p /\ rank[pos[q]] = q
    BY <1>5
  <2>2. pos[p] # pos[q]
    BY <1>1, <1>7, <2>1 DEF D
  <2>3. ~ Sooner(s, key, pos[q], pos[p])
    <3>1. Sooner(s, key, pos[q], pos[p]) => rank[pos[q]] < rank[pos[p]]
      BY <1>1, <2>1, SoonerCounts
    <3>. QED BY <1>1, <1>7, <2>1, <3>1 DEF D
  <2>. QED BY <1>1, <2>1, <2>2, <2>3, SoonerCounts
<1>8. ASSUME NEW i \in D PROVE \E p \in D : pos[p] = i
  <2>1. rank[i] \in D
    BY <1>4 DEF Surjection
  <2>2. pos[rank[i]] \in D /\ rank[pos[rank[i]]] = rank[i]
    BY <1>5, <2>1
  <2>3. pos[rank[i]] = i
    <3>1. ASSUME NEW a \in D, NEW b \in D, a # b PROVE rank[a] # rank[b]
      BY <1>1, <3>1, SoonerCounts
    <3>. QED BY <2>2, <3>1
  <2>. QED BY <2>1, <2>3
<1>. QED BY <1>1, <1>2, <1>6, <1>7, <1>8 DEF Orders

----------------------------------------------------------------------------
(* The ranking. *)

\* No member occurs twice.
Distinct(s) == \A i, j \in DOMAIN s : s[i] = s[j] => i = j

\* The markets of the "primary" exchange, which are keyed by their symbols.
ListingFits ==
  /\ listing.primary \in
       Seq([symbol : Symbols, swap : BOOLEAN, quoted : BOOLEAN, active : BOOLEAN,
            base : BOOLEAN, coin : BOOLEAN, volume : Int])
  /\ Distinct([i \in DOMAIN listing.primary |-> listing.primary[i].symbol])

\* Distinct members stay distinct when some are kept.
LEMMA KeptDistinct ==
  ASSUME NEW E, NEW s \in Seq(E), NEW S, Distinct(s)
  PROVE  Distinct(Kept(s, S)) /\ \A i \in DOMAIN Kept(s, S) : Kept(s, S)[i] \in S
<1> DEFINE r == Kept(s, S)
<1>1. PICK at : r \in Seq(E) /\ Selects(r, at, s, S, Len(s))
  BY KeptSelects
<1>. HIDE DEF r
<1>2. /\ DOMAIN r = 1 .. Len(r) /\ DOMAIN s = 1 .. Len(s)
      /\ Len(r) \in Nat /\ Len(s) \in Nat
  BY <1>1
<1>3. /\ at \in [1 .. Len(r) -> 1 .. Len(s)]
      /\ \A p, q \in 1 .. Len(r) : p < q => at[p] < at[q]
      /\ \A q \in 1 .. Len(r) : r[q] = s[at[q]] /\ s[at[q]] \in S
  BY <1>1 DEF Selects
<1>4. ASSUME NEW p \in 1 .. Len(r), NEW q \in 1 .. Len(r), r[p] = r[q]
      PROVE  p = q
  <2>1. at[p] = at[q] /\ at[p] \in Int
    BY <1>2, <1>3, <1>4 DEF Distinct
  <2>. QED BY <1>2, <1>3, <2>1
<1>5. Distinct(r) /\ \A q \in DOMAIN r : r[q] \in S
  BY <1>2, <1>3, <1>4 DEF Distinct
<1>. QED BY <1>5 DEF r

\* A sort puts no member in two places.
LEMMA OrdersOnce ==
  ASSUME NEW E, NEW s \in Seq(E), NEW key, Keyed(s, key), NEW pos, Orders(pos, s, key),
         NEW p \in DOMAIN s, NEW q \in DOMAIN s, pos[p] = pos[q]
  PROVE  p = q
<1>0. DOMAIN s = 1 .. Len(s) /\ Len(s) \in Nat
  OBVIOUS
<1>1. pos[p] \in DOMAIN s /\ key[s[pos[p]]] \in Int /\ pos[p] \in Int
  <2>1. pos[p] \in DOMAIN s
    BY DEF Orders
  <2>2. key[s[pos[p]]] \in Int
    BY <2>1 DEF Keyed
  <2>. QED BY <1>0, <2>1, <2>2
<1>2. ~ Sooner(s, key, pos[p], pos[q]) /\ ~ Sooner(s, key, pos[q], pos[p])
  BY <1>1 DEF Sooner
<1>3. \A a, b \in DOMAIN s : a < b => Sooner(s, key, pos[a], pos[b])
  BY DEF Orders
<1>. QED BY <1>0, <1>2, <1>3

\* The liquid pairs are symbols, each of them once.
LEMMA PairsDistinct ==
  ASSUME ListingFits
  PROVE  /\ LiquidPairs(listing.primary, TRUE) \in Seq(Symbols)
         /\ Distinct(LiquidPairs(listing.primary, TRUE))
<1> DEFINE E == [symbol : Symbols, swap : BOOLEAN, quoted : BOOLEAN, active : BOOLEAN,
                 base : BOOLEAN, coin : BOOLEAN, volume : Int]
           tickers == listing.primary
           S == {t \in ToSet(tickers) : /\ t.swap /\ t.quoted /\ t.active /\ t.base
                                        /\ TRUE => t.coin
                                        /\ t.volume >= settings.UNIVERSE_MIN_VOLUME_USD}
           liquid == Kept(tickers, S)
           key == [t \in ToSet(liquid) |-> t.volume]
           pairs == SortedDown(liquid, key)
<1>1. LiquidPairs(tickers, TRUE) = [i \in DOMAIN pairs |-> pairs[i].symbol]
  BY DEF LiquidPairs
<1>2. tickers \in Seq(E) /\ Distinct([i \in DOMAIN tickers |-> tickers[i].symbol])
  BY DEF ListingFits
<1>. HIDE DEF tickers, E, S
<1>3. PICK at : liquid \in Seq(E) /\ Selects(liquid, at, tickers, S, Len(tickers))
  BY <1>2, KeptSelects
<1>. HIDE DEF liquid
<1>4. /\ DOMAIN liquid = 1 .. Len(liquid) /\ Len(liquid) \in Nat
      /\ DOMAIN tickers = 1 .. Len(tickers) /\ Len(tickers) \in Nat
      /\ \A i \in DOMAIN liquid : liquid[i] \in E
  BY <1>2, <1>3
<1>5. Keyed(liquid, key)
  <2>1. \A i \in DOMAIN liquid : liquid[i] \in ToSet(liquid) /\ liquid[i].volume \in Int
    BY <1>4 DEF ToSet, E
  <2>. QED BY <2>1 DEF Keyed
<1>. HIDE DEF key
<1>6. PICK pos : Orders(pos, liquid, key) /\ pairs = [p \in DOMAIN liquid |-> liquid[pos[p]]]
  BY <1>3, <1>5, SortOrders
<1>. HIDE DEF pairs
<1>7. /\ \A p \in DOMAIN liquid : pos[p] \in DOMAIN liquid
      /\ \A p \in DOMAIN liquid : at[p] \in DOMAIN tickers /\ liquid[p] = tickers[at[p]]
      /\ \A p, q \in DOMAIN liquid : p < q => at[p] < at[q]
  BY <1>3, <1>4, <1>6 DEF Orders, Selects
<1>8. LiquidPairs(tickers, TRUE) = [p \in 1 .. Len(liquid) |-> liquid[pos[p]].symbol]
  BY <1>1, <1>4, <1>6
<1>9. \A p \in 1 .. Len(liquid) : liquid[pos[p]].symbol \in Symbols
  BY <1>4, <1>7 DEF E
<1>10. ASSUME NEW p \in 1 .. Len(liquid), NEW q \in 1 .. Len(liquid),
              liquid[pos[p]].symbol = liquid[pos[q]].symbol
       PROVE  p = q
  <2>1. at[pos[p]] = at[pos[q]]
    <3>1. tickers[at[pos[p]]].symbol = tickers[at[pos[q]]].symbol
      BY <1>4, <1>7, <1>10
    <3>2. \A i, j \in DOMAIN tickers : tickers[i].symbol = tickers[j].symbol => i = j
      BY <1>2 DEF Distinct
    <3>. QED BY <1>4, <1>7, <3>1, <3>2
  <2>2. pos[p] = pos[q]
    <3>1. /\ pos[p] \in 1 .. Len(liquid) /\ pos[q] \in 1 .. Len(liquid)
          /\ at[pos[p]] \in 1 .. Len(tickers)
      BY <1>4, <1>7
    <3>2. pos[p] < pos[q] => at[pos[p]] < at[pos[q]]
      BY <1>4, <1>7, <3>1
    <3>3. pos[q] < pos[p] => at[pos[q]] < at[pos[p]]
      BY <1>4, <1>7, <3>1
    <3>. QED BY <1>4, <2>1, <3>1, <3>2, <3>3
  <2>. QED BY <1>3, <1>4, <1>5, <1>6, <2>2, OrdersOnce
<1>11. LiquidPairs(tickers, TRUE) \in Seq(Symbols)
  <2> DEFINE n == Len(liquid)
             f == [p \in 1 .. n |-> liquid[pos[p]].symbol]
  <2>1. n \in Nat /\ f \in [1 .. n -> Symbols]
    BY <1>4, <1>9
  <2>2. LiquidPairs(tickers, TRUE) = f
    BY <1>8
  <2>. HIDE DEF n, f
  <2>3. Seq(Symbols) = UNION {[1 .. m -> Symbols] : m \in Nat}
    BY SeqDef
  <2>4. f \in UNION {[1 .. m -> Symbols] : m \in Nat}
    BY <2>1
  <2>. QED BY <2>2, <2>3, <2>4
<1>12. Distinct(LiquidPairs(tickers, TRUE))
  BY <1>8, <1>10 DEF Distinct
<1>. QED BY <1>11, <1>12 DEF tickers

Tradable == ToSet(LiquidPairs(listing.execution, FALSE))

\* The universe is made of symbols, each of them once, and of tradable ones if that
\* is asked for and there are any.
UniverseFits(u) ==
  /\ u \in Seq(Symbols) /\ Distinct(u)
  /\ settings.EXECUTION_UNIVERSE_FILTER /\ Tradable # {} => ToSet(u) \subseteq Tradable

\* The universe of a scan is such a universe.
LEMMA ScreeningFits ==
  ASSUME ListingFits
  PROVE  UniverseFits(ScreeningUniverse)
<1> DEFINE primary == LiquidPairs(listing.primary, TRUE)
<1>1. primary \in Seq(Symbols) /\ Distinct(primary)
  BY PairsDistinct
<1>2. ScreeningUniverse = IF settings.EXECUTION_UNIVERSE_FILTER /\ Tradable # {}
                          THEN Kept(primary, Tradable) ELSE primary
  BY DEF ScreeningUniverse, Tradable
<1>. HIDE DEF primary
<1>3. /\ Kept(primary, Tradable) \in Seq(Symbols)
      /\ Distinct(Kept(primary, Tradable))
      /\ ToSet(Kept(primary, Tradable)) \subseteq Tradable
  BY <1>1, KeptSelects, KeptDistinct DEF ToSet
<1>. QED BY <1>1, <1>2, <1>3 DEF UniverseFits

\* The places of home are in the order of the scores, and all members of u in S that
\* are not in b come after those of b.
Ranks(b, home, u, S, score, n) ==
  LET Before(i, j) == score[u[i]] > score[u[j]] \/ (score[u[i]] = score[u[j]] /\ i < j)
  IN  /\ \A p \in DOMAIN b : home[p] \in DOMAIN u /\ b[p] = u[home[p]] /\ b[p] \in S
      /\ \A p, q \in DOMAIN b : p < q => Before(home[p], home[q])
      /\ \A i \in DOMAIN u : u[i] \in S /\ (\A p \in DOMAIN b : b[p] # u[i]) =>
           Len(b) = n /\ \A p \in DOMAIN b : Before(home[p], i)

\* What is cut from the sorted members of a set is the best of them.
LEMMA CutRanks ==
  ASSUME NEW u \in Seq(Symbols), NEW S, NEW score, \A s \in Symbols : score[s] \in Int,
         NEW n \in Nat
  PROVE  LET c == Kept(u, S)
             b == SubSeq(SortedDown(c, [s \in ToSet(c) |-> score[s]]), 1, Min({n, Len(c)}))
         IN  b \in Seq(Symbols) /\ \E home : Ranks(b, home, u, S, score, n)
<1> DEFINE c == Kept(u, S)
           key == [s \in ToSet(c) |-> score[s]]
           sorted == SortedDown(c, key)
           m == Min({n, Len(c)})
           b == SubSeq(sorted, 1, m)
<1>1. PICK at : c \in Seq(Symbols) /\ Selects(c, at, u, S, Len(u))
  BY KeptSelects
<1>. HIDE DEF c
<1>2. /\ DOMAIN c = 1 .. Len(c) /\ Len(c) \in Nat /\ DOMAIN u = 1 .. Len(u) /\ Len(u) \in Nat
      /\ \A i \in DOMAIN c : c[i] \in Symbols /\ c[i] \in ToSet(c)
  BY <1>1 DEF ToSet
<1>3. \A i \in DOMAIN c : key[c[i]] = score[c[i]] /\ key[c[i]] \in Int
  BY <1>2
<1>4. Keyed(c, key)
  BY <1>3 DEF Keyed
<1>. HIDE DEF key
<1>5. PICK pos : Orders(pos, c, key) /\ sorted = [p \in DOMAIN c |-> c[pos[p]]]
  BY <1>1, <1>4, SortOrders
<1>. HIDE DEF sorted
<1>6. m \in Nat /\ m <= n /\ m <= Len(c) /\ m \in {n, Len(c)}
  <2>1. \E x \in {n, Len(c)} : \A y \in {n, Len(c)} : x <= y
    BY <1>2
  <2>2. m \in {n, Len(c)} /\ \A y \in {n, Len(c)} : m <= y
    BY <2>1, Zenon DEF Min
  <2>. HIDE DEF m
  <2>. QED BY <1>2, <2>2
<1>. HIDE DEF m
<1>cut. /\ \A p \in 1 .. m : p \in 1 .. Len(c)
       /\ \A p \in 1 .. Len(c) : p \notin 1 .. m => m = n /\ \A r \in 1 .. m : r < p
  <2>1. m \in Int /\ n \in Int /\ Len(c) \in Int
    <3>1. m \in Nat /\ n \in Nat /\ Len(c) \in Nat
      BY <1>2, <1>6, Zenon
    <3>. QED BY <3>1
  <2>2. \A p \in 1 .. m : p \in 1 .. Len(c)
    BY <1>6, <2>1
  <2>3. m # n => m = Len(c)
    BY <1>6
  <2>4. \A p \in 1 .. Len(c) : p \notin 1 .. m => m < p
    BY <2>1
  <2>. QED BY <2>1, <2>2, <2>3, <2>4
<1>7. /\ \A p \in DOMAIN c : pos[p] \in DOMAIN c
      /\ \A p, q \in DOMAIN c : p < q => Sooner(c, key, pos[p], pos[q])
      /\ \A i \in DOMAIN c : \E p \in DOMAIN c : pos[p] = i
  BY <1>5 DEF Orders
<1>8. /\ b \in Seq(Symbols) /\ Len(b) = m /\ DOMAIN b = 1 .. m
      /\ \A p \in 1 .. m : b[p] = c[pos[p]]
  <2>1. \A p \in 1 .. m : sorted[p] = c[pos[p]] /\ sorted[p] \in Symbols
    <3>1. ASSUME NEW p \in 1 .. m PROVE sorted[p] = c[pos[p]] /\ c[pos[p]] \in Symbols
      <4>1. p \in DOMAIN c /\ pos[p] \in DOMAIN c
        BY <1>2, <1>cut, <1>7
      <4>. QED BY <1>2, <1>5, <4>1
    <3>. QED BY <3>1
  <2>2. /\ b \in Seq(Symbols) /\ Len(b) = IF 1 <= m THEN m - 1 + 1 ELSE 0
        /\ \A i \in 1 .. m - 1 + 1 : b[i] = sorted[1 + i - 1]
    BY <1>6, <2>1, SubSeqProperties
  <2>. HIDE DEF b
  <2>. QED BY <1>6, <2>1, <2>2
<1>. HIDE DEF b
<1> DEFINE home == [p \in 1 .. m |-> at[pos[p]]]
           Before(i, j) == score[u[i]] > score[u[j]] \/ (score[u[i]] = score[u[j]] /\ i < j)
<1>9. /\ at \in [1 .. Len(c) -> 1 .. Len(u)]
      /\ \A p, q \in 1 .. Len(c) : p < q => at[p] < at[q]
      /\ \A q \in 1 .. Len(c) : c[q] = u[at[q]] /\ c[q] \in S
      /\ \A i \in 1 .. Len(u) : u[i] \in S => \E q \in 1 .. Len(c) : at[q] = i
  BY <1>1 DEF Selects
<1>10. ASSUME NEW p \in 1 .. Len(c), NEW q \in 1 .. Len(c), p < q
       PROVE  Before(at[pos[p]], at[pos[q]])
  <2>1. pos[p] \in 1 .. Len(c) /\ pos[q] \in 1 .. Len(c) /\ Sooner(c, key, pos[p], pos[q])
    BY <1>2, <1>7, <1>10
  <2>2. c[pos[p]] = u[at[pos[p]]] /\ c[pos[q]] = u[at[pos[q]]]
    BY <1>9, <2>1
  <2>3. pos[p] < pos[q] => at[pos[p]] < at[pos[q]]
    BY <1>9, <2>1
  <2>4. key[c[pos[p]]] = score[c[pos[p]]] /\ key[c[pos[q]]] = score[c[pos[q]]]
    BY <1>2, <1>3, <2>1
  <2>. QED BY <2>1, <2>2, <2>3, <2>4 DEF Sooner
<1>11. ASSUME NEW p \in 1 .. m
       PROVE  p \in 1 .. Len(c) /\ home[p] = at[pos[p]] /\ home[p] \in DOMAIN u
              /\ b[p] = u[home[p]] /\ b[p] \in S
  <2>1. p \in 1 .. Len(c) /\ pos[p] \in 1 .. Len(c) /\ home[p] = at[pos[p]]
    <3>1. p \in DOMAIN c
      BY <1>2, <1>cut
    <3>. QED BY <1>2, <1>7, <3>1
  <2>. QED BY <1>2, <1>8, <1>9, <2>1
<1>. HIDE DEF home
<1>12. ASSUME NEW p \in DOMAIN b, NEW q \in DOMAIN b, p < q
       PROVE  Before(home[p], home[q])
  <2>1. p \in 1 .. m /\ q \in 1 .. m
    BY <1>8
  <2>2. /\ p \in 1 .. Len(c) /\ q \in 1 .. Len(c)
        /\ home[p] = at[pos[p]] /\ home[q] = at[pos[q]]
    BY <1>11, <2>1
  <2>3. Before(at[pos[p]], at[pos[q]])
    BY <1>10, <1>12, <2>2
  <2>. QED BY <2>2, <2>3
<1>13. ASSUME NEW i \in DOMAIN u, u[i] \in S, \A p \in DOMAIN b : b[p] # u[i]
       PROVE  Len(b) = n /\ \A p \in DOMAIN b : Before(home[p], i)
  <2>1. PICK q \in 1 .. Len(c) : at[q] = i
    BY <1>2, <1>9, <1>13
  <2>2. PICK p \in 1 .. Len(c) : pos[p] = q
    BY <1>2, <1>7, <2>1
  <2>3. p \notin 1 .. m
    <3>1. ASSUME p \in 1 .. m PROVE FALSE
      <4>1. home[p] = i /\ b[p] = u[home[p]]
        BY <1>11, <2>1, <2>2, <3>1
      <4>. QED BY <1>8, <1>13, <3>1, <4>1
    <3>. QED BY <3>1
  <2>4. m = n /\ \A r \in 1 .. m : r < p
    BY <1>cut, <2>3
  <2>5. ASSUME NEW r \in 1 .. m PROVE Before(home[r], i)
    <3>1. r \in 1 .. Len(c) /\ home[r] = at[pos[r]] /\ r < p
      BY <1>11, <2>4
    <3>2. Before(at[pos[r]], at[pos[p]])
      BY <1>10, <3>1
    <3>. QED BY <2>1, <2>2, <3>1, <3>2
  <2>. QED BY <1>8, <2>4, <2>5
<1>14. Ranks(b, home, u, S, score, n)
  BY <1>8, <1>11, <1>12, <1>13 DEF Ranks
<1>. QED BY <1>8, <1>14 DEF b, m, sorted, key, c

\* What TopStands says of a list of candidates.
Stand(b) ==
  LET Place(s) == CHOOSE i \in DOMAIN universe : universe[i] = s
      Beats(s, t) == \/ outcome[s].score > outcome[t].score
                     \/ outcome[s].score = outcome[t].score /\ Place(s) < Place(t)
  IN  /\ \A i, j \in DOMAIN b : i < j => Beats(b[i], b[j])
      /\ \A s \in ToSet(universe) \ ToSet(b) : IsCandidate(s) =>
           Len(b) = settings.SCREENER_TOP_N /\ \A t \in ToSet(b) : Beats(t, s)
      /\ \A s \in ToSet(b) : IsCandidate(s)
      /\ settings.EXECUTION_UNIVERSE_FILTER /\ Tradable # {} => ToSet(b) \subseteq Tradable

\* The best of the candidates stand, once every candidate's task has come to its end.
LEMMA BestStand ==
  ASSUME UniverseFits(universe), \A s \in Symbols : outcome[s].score \in Int,
         NEW S, S = {s \in ToSet(universe) : task[s] = "done" /\ IsCandidate(s)},
         \A s \in ToSet(universe) : IsCandidate(s) => task[s] = "done"
  PROVE  Best(Kept(universe, S)) \in Seq(Symbols) /\ Stand(Best(Kept(universe, S)))
<1> DEFINE c == Kept(universe, S)
           b == Best(c)
           n == settings.SCREENER_TOP_N
           score == [s \in Symbols |-> outcome[s].score]
           Place(s) == CHOOSE i \in DOMAIN universe : universe[i] = s
<1>1. /\ universe \in Seq(Symbols) /\ Distinct(universe) /\ n \in Nat
      /\ settings.EXECUTION_UNIVERSE_FILTER /\ Tradable # {} => ToSet(universe) \subseteq Tradable
  BY ScanAssumption DEF UniverseFits
<1>2. \A s \in Symbols : score[s] = outcome[s].score /\ score[s] \in Int
  OBVIOUS
<1>3. c \in Seq(Symbols) /\ ToSet(c) \subseteq Symbols
  <2>1. c \in Seq(Symbols)
    <3>1. universe \in Seq(Symbols)
      BY <1>1
    <3>. QED BY <3>1, KeptSelects
  <2>. HIDE DEF c
  <2>. QED BY <2>1 DEF ToSet
<1>. HIDE DEF c, n, score
<1>4. [s \in ToSet(c) |-> outcome[s].score] = [s \in ToSet(c) |-> score[s]]
  BY <1>2, <1>3
<1>5. b = SubSeq(SortedDown(c, [s \in ToSet(c) |-> score[s]]), 1, Min({n, Len(c)}))
  BY <1>4 DEF Best, n
<1>. HIDE DEF b
<1>6. PICK home : b \in Seq(Symbols) /\ Ranks(b, home, universe, S, score, n)
  BY <1>1, <1>2, <1>5, CutRanks DEF c
<1>7. /\ \A i \in DOMAIN universe : universe[i] \in Symbols /\ universe[i] \in ToSet(universe)
      /\ \A s \in ToSet(universe) : \E i \in DOMAIN universe : universe[i] = s
      /\ \A s \in ToSet(b) : \E p \in DOMAIN b : b[p] = s
      /\ \A p \in DOMAIN b : b[p] \in ToSet(b)
  BY <1>1, <1>6 DEF ToSet
<1>8. \A i \in DOMAIN universe : Place(universe[i]) = i
  BY <1>1 DEF Distinct
<1>. HIDE DEF Place
<1>9. /\ \A p \in DOMAIN b : home[p] \in DOMAIN universe /\ b[p] = universe[home[p]] /\ b[p] \in S
      /\ \A p \in DOMAIN b : Place(b[p]) = home[p] /\ score[b[p]] = outcome[b[p]].score
                             /\ score[universe[home[p]]] = outcome[b[p]].score
  <2>1. \A p \in DOMAIN b : home[p] \in DOMAIN universe /\ b[p] = universe[home[p]] /\ b[p] \in S
    BY <1>6 DEF Ranks
  <2>. QED BY <1>2, <1>7, <1>8, <2>1
<1>10. ASSUME NEW i \in DOMAIN b, NEW j \in DOMAIN b, i < j
       PROVE  \/ outcome[b[i]].score > outcome[b[j]].score
              \/ outcome[b[i]].score = outcome[b[j]].score /\ Place(b[i]) < Place(b[j])
  <2>1. LET x == home[i] y == home[j]
        IN  \/ score[universe[x]] > score[universe[y]]
            \/ score[universe[x]] = score[universe[y]] /\ x < y
    BY <1>6, <1>10 DEF Ranks
  <2>. QED BY <1>9, <2>1
<1>11. ASSUME NEW s \in ToSet(universe) \ ToSet(b), IsCandidate(s)
       PROVE  /\ Len(b) = n
              /\ \A t \in ToSet(b) :
                   \/ outcome[t].score > outcome[s].score
                   \/ outcome[t].score = outcome[s].score /\ Place(t) < Place(s)
  <2>1. PICK i \in DOMAIN universe : universe[i] = s
    BY <1>7, <1>11
  <2>2. universe[i] \in S /\ \A p \in DOMAIN b : b[p] # universe[i]
    BY <1>7, <1>11, <2>1
  <2>3. /\ Len(b) = n
        /\ \A p \in DOMAIN b :
             \/ score[universe[home[p]]] > score[universe[i]]
             \/ score[universe[home[p]]] = score[universe[i]] /\ home[p] < i
    BY <1>6, <2>2 DEF Ranks
  <2>4. score[universe[i]] = outcome[s].score /\ Place(s) = i
    BY <1>2, <1>7, <1>8, <2>1
  <2>. QED BY <1>7, <1>9, <2>3, <2>4
<1>12. \A s \in ToSet(b) : IsCandidate(s) /\ s \in ToSet(universe)
  BY <1>7, <1>9
<1>. QED BY <1>1, <1>6, <1>10, <1>11, <1>12 DEF Stand, Place, n, b, c

Screened == {"waiting", "fetch", "coinglass", "raised"}

\* While the tasks run they are those of the universe; a symbol has failed until its
\* verdict is in.
Ranking ==
  /\ ListingFits
  /\ phase \in {"screen", "sources", "social"} => UniverseFits(universe)
  /\ phase = "screen" => \A s \in Symbols : task[s] # "none" => s \in ToSet(universe)
  /\ phase = "sources" => \A s \in Symbols : task[s] \in Ended \cup {"none"}
  /\ phase = "idle" => \A s \in Symbols : outcome[s] = FailedResult
  /\ \A s \in Symbols : outcome[s].score \in Int
  /\ \A s \in Symbols : task[s] \in Screened => outcome[s] = FailedResult
  /\ phase \in {"sources", "social"} => Stand(top)

\* What the ranking depends on.
rankVars == <<listing, phase, universe, outcome, top>>

\* The ranking is kept by what does not touch it.
LEMMA RankingKept ==
  ASSUME UNCHANGED <<listing, universe, outcome, top>>
  PROVE  /\ ListingFits' <=> ListingFits
         /\ UniverseFits(universe)' <=> UniverseFits(universe)
         /\ ToSet(universe)' = ToSet(universe)
         /\ Stand(top) => Stand(top)'
<1>1. Tradable' = Tradable
  BY DEF Tradable, LiquidPairs
<1>2. \A s : IsCandidate(s)' = IsCandidate(s)
  BY DEF IsCandidate
<1>3. ListingFits' <=> ListingFits
  BY DEF ListingFits
<1>4. (UniverseFits(universe)' <=> UniverseFits(universe)) /\ ToSet(universe)' = ToSet(universe)
  BY <1>1 DEF UniverseFits
<1>5. Stand(top) => Stand(top)'
  BY <1>1, <1>2 DEF Stand
<1>. QED BY <1>3, <1>4, <1>5

\* The screener's tasks run in no phase that has a list of candidates.
LEMMA ScreeningPhase ==
  ASSUME ScanInv, Ranking, NEW s \in Symbols, task[s] \in {"waiting", "fetch", "coinglass", "book"}
  PROVE  phase \notin {"idle", "sources", "social"}
BY DEF ScanInv, Idle, Enriching, Ranking, Ended

\* A cleared scan ranks nothing.
LEMMA ClearedRanks ==
  ASSUME Ranking, Cleared, UNCHANGED listing, phase' = "idle"
  PROVE  Ranking'
BY DEF Cleared, Ranking, Screened, FailedResult, ListingFits

\* A step of one of the screener's tasks that is not about its outcome.
LEMMA GoesRanks ==
  ASSUME ScanInv, Ranking, NEW s \in Symbols, NEW place \in ScanPlaces, Goes(s, place),
         task[s] \in {"waiting", "fetch", "coinglass", "book"},
         place \in Screened => task[s] \in Screened, UNCHANGED rankVars
  PROVE  Ranking'
<1>1. phase \notin {"idle", "sources", "social"}
  BY ScreeningPhase
<1>2. task'[s] = place /\ \A t \in Symbols : t # s => task'[t] = task[t]
  BY DEF ScanInv, Goes
<1>3. UNCHANGED <<listing, universe, outcome, top, phase>>
  BY DEF rankVars
<1>4. /\ ListingFits' <=> ListingFits
      /\ UniverseFits(universe)' <=> UniverseFits(universe)
      /\ ToSet(universe)' = ToSet(universe)
  BY <1>3, RankingKept
<1>. QED BY <1>1, <1>2, <1>3, <1>4 DEF Ranking

\* The screener's last step leaves the best.
LEMMA FinishRanks ==
  ASSUME ScanInv, Ranking, Finish, phase' = "sources"
  PROVE  Ranking'
<1> DEFINE S == {s \in ToSet(universe) : task[s] = "done" /\ IsCandidate(s)}
           candidates == Kept(universe, S)
<1>1. /\ phase = "screen" /\ top' = Best(candidates)
      /\ UNCHANGED <<listing, universe, task, outcome>>
      /\ \A s \in ToSet(universe) : task[s] \in {"done", "raised"}
  BY DEF Finish, Ended
<1>2. UniverseFits(universe) /\ \A s \in ToSet(universe) : s \in Symbols
  BY <1>1 DEF Ranking, UniverseFits, ToSet
<1>3. \A s \in ToSet(universe) : IsCandidate(s) => task[s] = "done"
  BY <1>1, <1>2 DEF Ranking, Screened, IsCandidate, FailedResult
<1>4. Stand(Best(candidates))
  <2>1. \A s \in Symbols : outcome[s].score \in Int
    BY DEF Ranking
  <2>2. \E T : T = S
    OBVIOUS
  <2>3. PICK T : T = S
    BY <2>2
  <2>4. Stand(Best(Kept(universe, T)))
    BY <1>2, <1>3, <2>1, <2>3, BestStand
  <2>. QED BY <2>3, <2>4
<1>. HIDE DEF candidates
<1>5. Stand(top)'
  <2>1. Tradable' = Tradable
    BY <1>1 DEF Tradable, LiquidPairs
  <2>2. \A s : IsCandidate(s)' = IsCandidate(s)
    BY <1>1 DEF IsCandidate
  <2>. QED BY <1>1, <1>4, <2>1, <2>2 DEF Stand
<1>6. ListingFits' /\ UniverseFits(universe)'
  <2>1. Tradable' = Tradable
    BY <1>1 DEF Tradable, LiquidPairs
  <2>. QED BY <1>1, <1>2, <2>1 DEF Ranking, ListingFits, UniverseFits
<1>7. \A s \in Symbols : task[s] \in Ended \cup {"none"}
  BY <1>1 DEF Ranking, Ended
<1>. QED BY <1>1, <1>5, <1>6, <1>7 DEF Ranking

\* Every step of a scan keeps the ranking.
LEMMA RankStep ==
  ASSUME ScanInv, Ranking, [ScanNext]_scanVars
  PROVE  Ranking'
<1>1. ASSUME NEW s \in Symbols, BarCloses(s) PROVE Ranking'
  BY <1>1, RankingKept DEF BarCloses, Ranking
<1>2. ASSUME NEW s \in Symbols, Enter(s) PROVE Ranking'
  BY <1>2, GoesRanks DEF Enter, ScanPlaces, Screened, rankVars
<1>3. ASSUME NEW s \in Symbols, Fetch(s) PROVE Ranking'
  <2>1. PICK place \in {"done", "coinglass"} : Goes(s, place)
    BY <1>3 DEF Fetch
  <2>. QED BY <1>3, <2>1, GoesRanks DEF Fetch, ScanPlaces, Screened, rankVars
<1>4. ASSUME NEW s \in Symbols, AskCoinGlass(s) PROVE Ranking'
  <2>1. CASE \E failed \in Outages : Results(s, Verdict(s, failed)) /\ Goes(s, "book")
    <3>1. PICK failed \in Outages : Results(s, Verdict(s, failed)) /\ Goes(s, "book")
      BY <2>1
    <3>2. /\ task'[s] = "book" /\ outcome'[s] = Verdict(s, failed)
          /\ \A t \in Symbols : t # s => task'[t] = task[t] /\ outcome'[t] = outcome[t]
      BY <3>1 DEF ScanInv, Goes, Results, ScanPlaces
    <3>3. outcome'[s].score \in Int
      BY <3>2, ScoreIsNumber DEF Verdict
    <3>4. phase \notin {"idle", "sources", "social"} /\ UNCHANGED <<listing, phase, universe>>
      BY <1>4, ScreeningPhase DEF AskCoinGlass
    <3>5. ListingFits'
      BY <3>4 DEF Ranking, ListingFits
    <3>6. ASSUME phase' = "screen", NEW t \in Symbols, task'[t] # "none"
          PROVE  t \in ToSet(universe)'
      <4>1. task[t] # "none" /\ phase = "screen"
        BY <1>4, <3>2, <3>4, <3>6 DEF AskCoinGlass
      <4>. QED BY <3>4, <4>1 DEF Ranking
    <3>7. UniverseFits(universe)' <=> UniverseFits(universe)
      <4>1. Tradable' = Tradable
        BY <3>4 DEF Tradable, LiquidPairs
      <4>. QED BY <3>4, <4>1 DEF UniverseFits
    <3>8. ASSUME NEW t \in Symbols
          PROVE  outcome'[t].score \in Int /\ (task'[t] \in Screened => outcome'[t] = FailedResult)
      BY <3>2, <3>3 DEF Ranking, Screened
    <3>. QED BY <3>4, <3>5, <3>6, <3>7, <3>8 DEF Ranking
  <2>2. CASE \E end \in {"refused", "raised"} : Goes(s, end) /\ UNCHANGED outcome
    BY <1>4, <2>2, GoesRanks DEF AskCoinGlass, ScanPlaces, Screened, rankVars
  <2>. QED BY <1>4, <2>1, <2>2 DEF AskCoinGlass
<1>5. ASSUME NEW s \in Symbols, FetchBook(s) PROVE Ranking'
  BY <1>5, GoesRanks DEF FetchBook, ScanPlaces, Screened, rankVars
<1>6. ASSUME NEW s \in Symbols, AskLunarCrush(s) PROVE Ranking'
  <2>1. /\ phase = "social" /\ UNCHANGED <<listing, phase, universe, outcome, top>>
        /\ \A t \in Symbols : task'[t] \in {"none", "asking", "done"}
    BY <1>6 DEF AskLunarCrush, ScanInv, Enriching, Goes
  <2>. QED BY <2>1, RankingKept DEF Ranking, Screened
<1>7. ASSUME Begin PROVE Ranking'
  <2>1. phase = "idle" /\ UNCHANGED <<listing, outcome>> /\ phase' \in {"screen", "failed"}
    BY <1>7 DEF Begin
  <2>2. ListingFits /\ ListingFits'
    BY <2>1 DEF Ranking, ListingFits
  <2>3. CASE phase' = "screen"
    <3>1. /\ universe' = ScreeningUniverse
          /\ \A s \in Symbols : task'[s] # "none" => s \in ToSet(universe')
      BY <1>7, <2>3 DEF Begin
    <3>2. UniverseFits(universe')
      BY <2>2, <3>1, ScreeningFits
    <3>3. UniverseFits(universe)'
      <4>1. Tradable' = Tradable
        BY <2>1 DEF Tradable, LiquidPairs
      <4>. QED BY <3>2, <4>1 DEF UniverseFits
    <3>. QED BY <2>1, <2>2, <2>3, <3>1, <3>3 DEF Ranking
  <2>4. CASE phase' = "failed"
    BY <2>1, <2>2, <2>4 DEF Ranking
  <2>. QED BY <2>1, <2>3, <2>4
<1>8. ASSUME Finish PROVE Ranking'
  <2>1. CASE phase' = "sources"
    BY <1>8, <2>1, FinishRanks
  <2>2. CASE phase' = "idle"
    BY <1>8, <2>2, ClearedRanks DEF Finish
  <2>3. CASE phase' = "failed"
    <3>1. UNCHANGED <<listing, universe, task, outcome, top>>
      BY <1>8, <2>3 DEF Finish
    <3>. QED BY <2>3, <3>1, RankingKept DEF Ranking
  <2>. QED BY <1>8, <2>1, <2>2, <2>3 DEF Finish
<1>9. ASSUME AskSources PROVE Ranking'
  <2>1. phase = "sources" /\ UNCHANGED <<listing, universe, outcome, top>>
    BY <1>9 DEF AskSources
  <2>2. CASE phase' = "failed" /\ UNCHANGED task
    BY <2>1, <2>2, RankingKept DEF Ranking
  <2>3. CASE phase' = "social" /\ \A s \in Symbols : task'[s] \in {"asking", "none"}
    BY <2>1, <2>3, RankingKept DEF Ranking, Screened
  <2>. QED BY <1>9, <2>2, <2>3 DEF AskSources
<1>10. ASSUME HandOver \/ Recover PROVE Ranking'
  BY <1>10, ClearedRanks DEF HandOver, Recover
<1>11. ASSUME UNCHANGED scanVars PROVE Ranking'
  BY <1>11, RankingKept DEF scanVars, Ranking
<1>. QED
  BY <1>1, <1>2, <1>3, <1>4, <1>5, <1>6, <1>7, <1>8, <1>9, <1>10, <1>11 DEF ScanNext

\* Whatever order the tasks end in and whichever of them fail, the candidates are the
\* best of those that passed, if a symbol has one ticker and volumes are numbers.
THEOREM TheBestAreTaken ==
  (ScanInit /\ ListingFits) /\ [][ScanNext]_scanVars => []TopStands
<1>1. ScanInit /\ ListingFits => ScanInv /\ Ranking
  <2>1. ScanInit => ScanInv
    BY DEF ScanInit, ScanInv, ScanPlaces, Idle, Enriching, Judged, Told
  <2>2. ScanInit /\ ListingFits => Ranking
    BY DEF ScanInit, Ranking, Screened, FailedResult
  <2>. QED BY <2>1, <2>2
<1>2. ScanInv /\ Ranking /\ [ScanNext]_scanVars => (ScanInv /\ Ranking)'
  BY ScanStep, RankStep
<1>3. Ranking => TopStands
  BY DEF Ranking, Stand, Tradable, TopStands
<1>. QED BY <1>1, <1>2, <1>3, PTL

----------------------------------------------------------------------------
(* The mirror image of a market: sums. *)

\* A total is a sum over the domain.
LEMMA TotalSums == ASSUME NEW f PROVE Total(f) = SumOver(f, DOMAIN f)
  BY DEF Total, SumOver

\* The totals of sequences of numbers of which one negates the other.
LEMMA TotalNegated ==
  ASSUME NEW S, IsFiniteSet(S), NEW f, DOMAIN f = S, IntOn(f, S),
         NEW g, DOMAIN g = S, \A x \in S : g[x] = -f[x]
  PROVE  Total(f) \in Int /\ Total(g) = -Total(f)
<1>1. Total(f) = SumOver(f, S) /\ Total(g) = SumOver(g, S)
  BY TotalSums
<1>2. SumOver(g, S) = -SumOver(f, S)
  BY SumNegated
<1>3. SumOver(f, S) \in Int
  BY SumUnfold
<1> QED BY <1>1, <1>2, <1>3

----------------------------------------------------------------------------
(* The opposite screener. *)

\* What has no side is the same for the opposite screener, the rest is turned round.
LEMMA OpposedSettings ==
  /\ Opposed.VOLUME_SPIKE_MULTIPLIER = settings.VOLUME_SPIKE_MULTIPLIER
  /\ Opposed.BB_SQUEEZE_THRESHOLD = settings.BB_SQUEEZE_THRESHOLD
  /\ Opposed.NEAR_SWING_ATR_MULT = settings.NEAR_SWING_ATR_MULT
  /\ Opposed.NEAR_SWING_WINDOW = settings.NEAR_SWING_WINDOW
  /\ Opposed.OI_TREND_MIN_PCT = settings.OI_TREND_MIN_PCT
  /\ Opposed.OI_CHANGE_4H_SCORE_PCT = settings.OI_CHANGE_4H_SCORE_PCT
  /\ Opposed.BASIS_CONTANGO_THRESHOLD = settings.BASIS_CONTANGO_THRESHOLD
  /\ Opposed.LIQ_SPIKE_WINDOW = settings.LIQ_SPIKE_WINDOW
  /\ Opposed.LIQ_SPIKE_MULTIPLIER = settings.LIQ_SPIKE_MULTIPLIER
  /\ Opposed.CVD_CANDLES = settings.CVD_CANDLES
  /\ Opposed.DIRECTION_VOTE_THRESHOLD = settings.DIRECTION_VOTE_THRESHOLD
  /\ Opposed.FUNDING_RATE_HIGH = -settings.FUNDING_RATE_LOW
  /\ Opposed.FUNDING_RATE_LOW = -settings.FUNDING_RATE_HIGH
  /\ Opposed.LS_RATIO_HIGH = -settings.LS_RATIO_LOW
  /\ Opposed.LS_RATIO_LOW = -settings.LS_RATIO_HIGH
  /\ Opposed.RSI_OVERBOUGHT = 100 - settings.RSI_OVERSOLD
  /\ Opposed.RSI_OVERSOLD = 100 - settings.RSI_OVERBOUGHT
BY IndicatorsAssumption DEF SettingNames, Opposed

\* So are the operators that the indicators are built from.
LEMMA ImageTools ==
  /\ \A s, n : Image!Recent(s, n) = Recent(s, n)
  /\ \A f : Image!Total(f) = Total(f)
  /\ \A n : Image!Abs(n) = Abs(n)
  /\ \A s : Image!Last(s) = Last(s)
  /\ \A s : Image!Front(s) = Front(s)
  /\ \A s, n : Image!Ago(s, n) = Ago(s, n)
<1>1. ASSUME NEW s, NEW n PROVE Image!Recent(s, n) = Recent(s, n)
  BY DEF Image!Recent, Recent, Image!Max, Max
<1>2. ASSUME NEW f PROVE Image!Total(f) = Total(f)
  BY Zenon DEF Image!Total, Total, Image!MapThenSumSet, MapThenSumSet,
               Image!MapThenFoldSet, MapThenFoldSet
<1>3. ASSUME NEW n PROVE Image!Abs(n) = Abs(n)
  BY DEF Image!Abs, Abs, Image!Max, Max
<1>4. ASSUME NEW s PROVE Image!Last(s) = Last(s)
  BY DEF Image!Last, Last
<1>5. ASSUME NEW s PROVE Image!Front(s) = Front(s)
  BY DEF Image!Front, Front
<1>6. ASSUME NEW s, NEW n PROVE Image!Ago(s, n) = Ago(s, n)
  BY DEF Image!Ago, Ago
<1>. QED BY <1>1, <1>2, <1>3, <1>4, <1>5, <1>6

\* The indicators of the candles.
LEMMA ImageCandles ==
  ASSUME NEW b
  PROVE  /\ Image!CalcRsiLevel(b) = CalcRsiLevel(b)
         /\ Image!CalcMacd(b) = CalcMacd(b)
         /\ Image!CalcVolumeSpike(b) = CalcVolumeSpike(b)
         /\ Image!CalcBbSqueeze(b) = CalcBbSqueeze(b)
         /\ Image!CalcEmaCross(b) = CalcEmaCross(b)
         /\ Image!CalcOiChange4h(b) = CalcOiChange4h(b)
<1>1. Image!CalcRsiLevel(b) = CalcRsiLevel(b)
  BY ImageTools DEF Image!CalcRsiLevel, CalcRsiLevel
<1>2. Image!CalcMacd(b) = CalcMacd(b)
  BY ImageTools DEF Image!CalcMacd, CalcMacd
<1>3. Image!CalcVolumeSpike(b) = CalcVolumeSpike(b)
  BY ImageTools, OpposedSettings DEF Image!CalcVolumeSpike, CalcVolumeSpike
<1>4. Image!CalcBbSqueeze(b) = CalcBbSqueeze(b)
  BY ImageTools, OpposedSettings DEF Image!CalcBbSqueeze, CalcBbSqueeze
<1>5. Image!CalcEmaCross(b) = CalcEmaCross(b)
  BY ImageTools DEF Image!CalcEmaCross, CalcEmaCross
<1>6. Image!CalcOiChange4h(b) = CalcOiChange4h(b)
  BY ImageTools DEF Image!CalcOiChange4h, CalcOiChange4h
<1>. QED BY <1>1, <1>2, <1>3, <1>4, <1>5, <1>6

\* The divergence of price and RSI, and the average price.
LEMMA ImageWindows ==
  ASSUME NEW b
  PROVE  /\ Image!CalcRsiDivergence(b) = CalcRsiDivergence(b)
         /\ Image!CalcVwapBias(b) = CalcVwapBias(b)
<1>1. \A v : Image!LocalMinima(v) = LocalMinima(v)
  BY DEF Image!LocalMinima, LocalMinima
<1>2. \A v : Image!LocalMaxima(v) = LocalMaxima(v)
  BY <1>1 DEF Image!LocalMaxima, LocalMaxima
<1>3. ASSUME NEW v, NEW r, NEW e PROVE Image!Diverges(v, r, e) = Diverges(v, r, e)
  BY DEF Image!Diverges, Diverges, Image!Max, Max, Image!Cardinality, Cardinality
<1>4. Image!RsiBullish(b) = RsiBullish(b)
  BY <1>1, <1>3, ImageTools DEF Image!RsiBullish, RsiBullish
<1>5. Image!RsiBearish(b) = RsiBearish(b)
  BY <1>2, <1>3, ImageTools DEF Image!RsiBearish, RsiBearish
<1>6. Image!CalcRsiDivergence(b) = CalcRsiDivergence(b)
  BY <1>4, <1>5 DEF Image!CalcRsiDivergence, CalcRsiDivergence
<1>7. Image!VwapWindow(b) = VwapWindow(b)
  BY ImageTools DEF Image!VwapWindow, VwapWindow, Image!DayOf, DayOf,
                    Image!Cardinality, Cardinality
<1>8. Image!OverVwap(b) = OverVwap(b)
  BY <1>7, ImageTools DEF Image!OverVwap, OverVwap
<1>9. Image!CalcVwapBias(b) = CalcVwapBias(b)
  BY <1>8 DEF Image!CalcVwapBias, CalcVwapBias
<1>. QED BY <1>6, <1>9

\* The daily candles.
LEMMA ImageDays ==
  ASSUME NEW b
  PROVE  /\ Image!Days(b) = Days(b)
         /\ Image!CalcDailyTrend(b) = CalcDailyTrend(b)
         /\ Image!CalcNearSwing(b) = CalcNearSwing(b)
<1>1. Image!Days(b) = Days(b)
  BY DEF Image!Days, Days, Image!DayOf, DayOf, Image!Max, Max, Image!Min, Min
<1>2. Image!CalcDailyTrend(b) = CalcDailyTrend(b)
  BY ImageTools DEF Image!CalcDailyTrend, CalcDailyTrend
<1>3. Image!CalcAtr(b) = CalcAtr(b)
  BY ImageTools DEF Image!CalcAtr, CalcAtr
<1>4. \A S : Image!Max(S) = Max(S) /\ Image!Min(S) = Min(S)
  BY DEF Image!Max, Max, Image!Min, Min
<1>5. Image!CalcNearSwing(b) = CalcNearSwing(b)
  <2>1. /\ Image!Recent(b, Opposed.NEAR_SWING_WINDOW) = Recent(b, settings.NEAR_SWING_WINDOW)
        /\ Opposed.NEAR_SWING_ATR_MULT = settings.NEAR_SWING_ATR_MULT
        /\ Opposed.NEAR_SWING_WINDOW = settings.NEAR_SWING_WINDOW
        /\ Image!Last(b) = Last(b)
    BY ImageTools, OpposedSettings
  <2>2. \A n : Image!Abs(n) = Abs(n)
    BY ImageTools
  <2>. QED BY <1>3, <1>4, <2>1, <2>2, Zenon DEF Image!CalcNearSwing, CalcNearSwing
<1>. QED BY <1>1, <1>2, <1>5

\* The histories of the derivatives, but for the funding.
LEMMA ImageHistories ==
  ASSUME NEW b, NEW c
  PROVE  /\ Image!CalcOiTrend(b) = CalcOiTrend(b)
         /\ Image!CalcLiquidationSpike(b) = CalcLiquidationSpike(b)
         /\ Image!KlinesToCvd(b) = KlinesToCvd(b)
         /\ Image!CalcCvdTrend(b) = CalcCvdTrend(b)
         /\ Image!CalcCvdPriceDivergence(b, c) = CalcCvdPriceDivergence(b, c)
<1>1. Image!CalcOiTrend(b) = CalcOiTrend(b)
  <2>1. \A s, l, p : Image!Change(s, l, p) = Change(s, l, p)
    BY ImageTools DEF Image!Change, Change
  <2>. QED BY <2>1, OpposedSettings DEF Image!CalcOiTrend, CalcOiTrend
<1>2. Image!CalcLiquidationSpike(b) = CalcLiquidationSpike(b)
  BY ImageTools, OpposedSettings DEF Image!CalcLiquidationSpike, CalcLiquidationSpike
<1>3. Image!KlinesToCvd(b) = KlinesToCvd(b)
  BY ImageTools DEF Image!KlinesToCvd, KlinesToCvd
<1>4. \A S : Image!Max(S) = Max(S)
  BY DEF Image!Max, Max
<1>5. Image!CalcCvdTrend(b) = CalcCvdTrend(b)
  BY <1>4, ImageTools DEF Image!CalcCvdTrend, CalcCvdTrend
<1>6. Image!CalcCvdPriceDivergence(b, c) = CalcCvdPriceDivergence(b, c)
  BY ImageTools DEF Image!CalcCvdPriceDivergence, CalcCvdPriceDivergence
<1>. QED BY <1>1, <1>2, <1>3, <1>5, <1>6

\* What has no side in the signals does not depend on whose thresholds they are.
LEMMA ImageSignals ==
  ASSUME NEW b, NEW failed
  PROVE  LET x == Image!Signals(b, failed)
             y == Signals(b, failed)
         IN  /\ x.volume_spike = y.volume_spike /\ x.bb_squeeze = y.bb_squeeze
             /\ x.near_swing = y.near_swing /\ x.liq_spike = y.liq_spike
             /\ x.oi_trend = y.oi_trend /\ x.oi_change_4h = y.oi_change_4h
             /\ x.ema_cross = y.ema_cross /\ x.rsi_divergence = y.rsi_divergence
             /\ x.macd = y.macd /\ x.cvd_price_divergence = y.cvd_price_divergence
             /\ x.daily_trend = y.daily_trend /\ x.vwap_bias = y.vwap_bias
             /\ x.cvd_trend = y.cvd_trend /\ x.rsi_level = y.rsi_level
             /\ x.long_short_ratio = y.long_short_ratio
             /\ x.top_trader_ls_ratio = y.top_trader_ls_ratio /\ x.basis = y.basis
<1> DEFINE x == Image!Signals(b, failed)
           y == Signals(b, failed)
<1>1. /\ x.volume_spike = y.volume_spike /\ x.bb_squeeze = y.bb_squeeze
      /\ x.oi_change_4h = y.oi_change_4h /\ x.ema_cross = y.ema_cross
      /\ x.macd = y.macd /\ x.rsi_level = y.rsi_level
  BY ImageCandles DEF Image!Signals, Signals
<1>2. x.rsi_divergence = y.rsi_divergence /\ x.vwap_bias = y.vwap_bias
  BY ImageWindows DEF Image!Signals, Signals
<1>3. x.near_swing = y.near_swing /\ x.daily_trend = y.daily_trend
  BY ImageDays DEF Image!Signals, Signals
<1>4. \A c : Image!Points(b, c, failed) = Points(b, c, failed)
  BY DEF Image!Points, Points
<1>5. x.liq_spike = y.liq_spike /\ x.oi_trend = y.oi_trend
  BY <1>4, ImageHistories DEF Image!Signals, Signals
<1>6. x.cvd_trend = y.cvd_trend /\ x.cvd_price_divergence = y.cvd_price_divergence
  BY ImageTools, ImageHistories, OpposedSettings DEF Image!Signals, Signals
<1>7. /\ x.long_short_ratio = y.long_short_ratio
      /\ x.top_trader_ls_ratio = y.top_trader_ls_ratio /\ x.basis = y.basis
  <2>1. /\ x.long_short_ratio = {Image!Last(b).ls} /\ y.long_short_ratio = {Last(b).ls}
    BY DEF Image!Signals, Signals
  <2>2. /\ x.top_trader_ls_ratio =
             Image!Optional(Image!Points(b, "top_position_ratio", failed), LAMBDA z : z.top)
        /\ y.top_trader_ls_ratio =
             Optional(Points(b, "top_position_ratio", failed), LAMBDA z : z.top)
    BY DEF Image!Signals, Signals
  <2>3. /\ x.basis = Image!Optional(Image!Points(b, "basis", failed), LAMBDA z : z.basis)
        /\ y.basis = Optional(Points(b, "basis", failed), LAMBDA z : z.basis)
    BY DEF Image!Signals, Signals
  <2> HIDE DEF x, y
  <2>4. x.long_short_ratio = y.long_short_ratio
    BY <2>1, ImageTools
  <2>5. x.top_trader_ls_ratio = y.top_trader_ls_ratio
    BY <1>4, <2>2, ImageTools DEF Image!Optional, Optional
  <2>6. x.basis = y.basis
    BY <1>4, <2>3, ImageTools DEF Image!Optional, Optional
  <2>. QED BY <2>4, <2>5, <2>6
<1>. QED BY <1>1, <1>2, <1>3, <1>5, <1>6, <1>7

----------------------------------------------------------------------------
(* Bars and their mirror images. *)

BarFields ==
  {"high", "low", "close", "oi", "oiAll", "volume", "adx", "atr", "atrDay", "rsi", "macd",
   "ema", "emaDay", "band", "flow", "spot", "ls", "top", "funding", "weighted", "basis",
   "liquidated"}

\* A bar is made of numbers.
BarType == [BarFields -> Int]

\* What the image of a bar changes, and what it leaves.
TurnedBar(x, y) ==
  /\ x.high = Axis - y.low /\ x.low = Axis - y.high /\ x.close = Axis - y.close
  /\ x.rsi = 100 - y.rsi /\ x.macd = -y.macd /\ x.ema = -y.ema /\ x.emaDay = -y.emaDay
  /\ x.flow = -y.flow /\ x.spot = -y.spot /\ x.ls = -y.ls /\ x.top = -y.top
  /\ x.funding = -y.funding /\ x.weighted = -y.weighted /\ x.basis = -y.basis

Left(x, y) ==
  /\ x.oi = y.oi /\ x.oiAll = y.oiAll /\ x.volume = y.volume /\ x.adx = y.adx
  /\ x.atr = y.atr /\ x.atrDay = y.atrDay /\ x.band = y.band /\ x.liquidated = y.liquidated

Numbers(b) ==
  /\ b.high \in Int /\ b.low \in Int /\ b.close \in Int /\ b.oi \in Int /\ b.oiAll \in Int
  /\ b.volume \in Int /\ b.adx \in Int /\ b.atr \in Int /\ b.atrDay \in Int /\ b.rsi \in Int
  /\ b.macd \in Int /\ b.ema \in Int /\ b.emaDay \in Int /\ b.band \in Int /\ b.flow \in Int
  /\ b.spot \in Int /\ b.ls \in Int /\ b.top \in Int /\ b.funding \in Int
  /\ b.weighted \in Int /\ b.basis \in Int /\ b.liquidated \in Int

\* The fields of a bar.
LEMMA BarNumbers ==
  ASSUME NEW b \in BarType
  PROVE  Numbers(b)
BY DEF BarType, BarFields, Numbers

\* The fields of the image.
LEMMA MirroredFields ==
  ASSUME NEW b \in BarType
  PROVE  Mirrored(b) \in BarType /\ TurnedBar(Mirrored(b), b) /\ Left(Mirrored(b), b)
<1>1. Axis \in Int
  BY ScanAssumption
<1>2. Numbers(b)
  BY BarNumbers
<1> DEFINE x == Mirrored(b)
<1>3. x = [f \in BarFields |-> x[f]]
  BY DEF BarType, Mirrored
<1>4. TurnedBar(x, b)
  BY DEF BarType, BarFields, Mirrored, Signed, TurnedBar
<1>5. Left(x, b)
  BY DEF BarType, BarFields, Mirrored, Signed, Left
<1> HIDE DEF x
<1>6. Numbers(x)
  BY <1>1, <1>2, <1>4, <1>5 DEF TurnedBar, Left, Numbers
<1>7. x \in BarType
  <2>1. \A f \in BarFields : x[f] \in Int
    BY <1>6 DEF Numbers, BarFields
  <2>. QED BY <1>3, <2>1 DEF BarType
<1>. QED BY <1>4, <1>5, <1>7 DEF x

\* The image of a history.
Mirrors(m, r) ==
  /\ m \in Seq(BarType) /\ r \in Seq(BarType) /\ Len(m) = Len(r)
  /\ \A i \in 1 .. Len(r) : TurnedBar(m[i], r[i]) /\ Left(m[i], r[i]) /\ Numbers(r[i])

\* Bar by bar, the image is one.
LEMMA ImageMirrors ==
  ASSUME NEW r \in Seq(BarType)
  PROVE  Mirrors([i \in DOMAIN r |-> Mirrored(r[i])], r)
<1> DEFINE m == [i \in DOMAIN r |-> Mirrored(r[i])]
<1>1. DOMAIN r = 1 .. Len(r) /\ Len(r) \in Nat /\ \A i \in 1 .. Len(r) : r[i] \in BarType
  OBVIOUS
<1>2. \A i \in 1 .. Len(r) : /\ m[i] \in BarType /\ Numbers(r[i])
                             /\ TurnedBar(m[i], r[i]) /\ Left(m[i], r[i])
  BY <1>1, MirroredFields, BarNumbers
<1>3. m \in Seq(BarType) /\ Len(m) = Len(r)
  <2>1. m \in [1 .. Len(r) -> BarType]
    BY <1>1, <1>2
  <2>. QED BY <1>1, <2>1
<1>. QED BY <1>2, <1>3 DEF Mirrors

\* How much of a sequence lies before its last n members.
Older(s, n) == IF n >= Len(s) THEN 0 ELSE Len(s) - n

\* The last n members.
LEMMA RecentIs ==
  ASSUME NEW T, NEW s \in Seq(T), NEW n \in Nat
  PROVE  /\ Older(s, n) \in 0 .. Len(s) /\ Recent(s, n) \in Seq(T)
         /\ Len(Recent(s, n)) = Len(s) - Older(s, n)
         /\ DOMAIN Recent(s, n) = 1 .. Len(s) - Older(s, n)
         /\ \A i \in 1 .. Len(s) - Older(s, n) : Recent(s, n)[i] = s[i + Older(s, n)]
<1> DEFINE k == Older(s, n)
<1>1. k \in 0 .. Len(s) /\ Len(s) \in Nat
  BY DEF Older
<1>2. Max({1, Len(s) - n + 1}) = k + 1
  <2>1. /\ k + 1 \in {1, Len(s) - n + 1} /\ \A y \in {1, Len(s) - n + 1} : k + 1 >= y
        /\ \A x \in {1, Len(s) - n + 1} : x \in Int
    BY DEF Older
  <2>2. \A x \in {1, Len(s) - n + 1} :
          (\A y \in {1, Len(s) - n + 1} : x >= y) => x = k + 1
    BY <1>1, <2>1
  <2> HIDE DEF k
  <2>. QED BY <2>1, <2>2 DEF Max
<1>3. Recent(s, n) = SubSeq(s, k + 1, Len(s))
  BY <1>2 DEF Recent
<1> HIDE DEF k
<1>4. /\ SubSeq(s, k + 1, Len(s)) = [i \in 1 .. Len(s) - k |-> s[i + k]]
  <2>1. SubSeq(s, k + 1, Len(s)) = [i \in 1 .. (1 + Len(s) - (k + 1)) |-> s[k + 1 + i - 1]]
    BY <1>1, SubSeqProperties
  <2>2. \A i \in 1 .. Len(s) - k : k + 1 + i - 1 = i + k
    BY <1>1
  <2>3. 1 + Len(s) - (k + 1) = Len(s) - k
    BY <1>1
  <2>. QED BY <2>1, <2>2, <2>3
<1>5. Recent(s, n) \in Seq(T) /\ Len(Recent(s, n)) = Len(s) - k
  <2>1. [i \in 1 .. Len(s) - k |-> s[i + k]] \in [1 .. Len(s) - k -> T]
    BY <1>1
  <2>. QED BY <1>1, <1>3, <1>4, <2>1
<1>. QED BY <1>1, <1>3, <1>4, <1>5 DEF k

\* The last bars of the image are the image of the last bars.
LEMMA RecentMirrors ==
  ASSUME NEW m, NEW r, Mirrors(m, r), NEW n \in Nat
  PROVE  Mirrors(Recent(m, n), Recent(r, n))
<1>1. m \in Seq(BarType) /\ r \in Seq(BarType) /\ Len(m) = Len(r) /\ Older(m, n) = Older(r, n)
  BY DEF Mirrors, Older
<1> DEFINE k == Older(r, n)
<1>2. /\ k \in 0 .. Len(r) /\ Recent(r, n) \in Seq(BarType)
      /\ Len(Recent(r, n)) = Len(r) - k
      /\ \A i \in 1 .. Len(r) - k : Recent(r, n)[i] = r[i + k]
  BY <1>1, RecentIs
<1>3. /\ Recent(m, n) \in Seq(BarType)
      /\ Len(Recent(m, n)) = Len(r) - k
      /\ \A i \in 1 .. Len(r) - k : Recent(m, n)[i] = m[i + k]
  <2>1. /\ Recent(m, n) \in Seq(BarType)
        /\ Len(Recent(m, n)) = Len(m) - Older(m, n)
        /\ \A i \in 1 .. Len(m) - Older(m, n) : Recent(m, n)[i] = m[i + Older(m, n)]
    BY <1>1, RecentIs
  <2>. QED BY <1>1, <2>1
<1> HIDE DEF k
<1>4. Len(r) \in Nat /\ \A i \in 1 .. Len(r) - k : i + k \in 1 .. Len(r)
  BY <1>1, <1>2
<1>. QED BY <1>2, <1>3, <1>4 DEF Mirrors

\* What is known of an image at its last bars.
LEMMA MirrorEnds ==
  ASSUME NEW m, NEW r, Mirrors(m, r)
  PROVE  /\ Len(r) \in Nat /\ Len(m) = Len(r) /\ DOMAIN m = 1 .. Len(r) /\ DOMAIN r = 1 .. Len(r)
         /\ r # <<>> => Len(r) \in 1 .. Len(r)
         /\ Last(m) = m[Len(r)] /\ Last(r) = r[Len(r)]
         /\ \A n : Ago(m, n) = m[Len(r) - n] /\ Ago(r, n) = r[Len(r) - n]
<1>1. m \in Seq(BarType) /\ r \in Seq(BarType) /\ Len(m) = Len(r)
  BY DEF Mirrors
<1>. QED BY <1>1 DEF Last, Ago
----------------------------------------------------------------------------
(* What looks the same in the mirror. *)

\* All bars but the last.
LEMMA FrontMirrors ==
  ASSUME NEW m, NEW r, Mirrors(m, r), r # <<>>
  PROVE  Mirrors(Front(m), Front(r)) /\ Len(Front(r)) = Len(r) - 1
<1> DEFINE n == Len(r)
<1>1. /\ m \in Seq(BarType) /\ r \in Seq(BarType) /\ Len(m) = n /\ n \in Nat \ {0}
      /\ n - 1 \in Nat
  BY DEF Mirrors
<1> HIDE DEF n
<1>2. /\ Front(m) = [i \in 1 .. n - 1 |-> m[i]] /\ Front(r) = [i \in 1 .. n - 1 |-> r[i]]
  <2>1. Front(m) = SubSeq(m, 1, n - 1) /\ Front(r) = SubSeq(r, 1, n - 1)
    BY <1>1 DEF Front, n
  <2>2. ASSUME NEW s \in Seq(BarType), Len(s) = n
        PROVE  SubSeq(s, 1, n - 1) = [i \in 1 .. n - 1 |-> s[i]]
    BY <1>1, <2>2
  <2>. QED BY <1>1, <2>1, <2>2
<1>3. \A i \in 1 .. n - 1 : i \in 1 .. n /\ m[i] \in BarType /\ r[i] \in BarType
  BY <1>1 DEF n
<1>4. \A i \in 1 .. n - 1 : TurnedBar(m[i], r[i]) /\ Left(m[i], r[i]) /\ Numbers(r[i])
  BY <1>3 DEF Mirrors, n
<1>5. /\ Front(m) \in Seq(BarType) /\ Len(Front(m)) = n - 1
      /\ Front(r) \in Seq(BarType) /\ Len(Front(r)) = n - 1
  BY <1>1, <1>2, <1>3
<1>. QED BY <1>2, <1>4, <1>5 DEF Mirrors, n

\* Volume, bands, average true range.
LEMMA SameCandles ==
  ASSUME NEW m, NEW r, Mirrors(m, r), r # <<>>
  PROVE  /\ CalcVolumeSpike(m) = CalcVolumeSpike(r)
         /\ CalcBbSqueeze(m) = CalcBbSqueeze(r)
         /\ CalcOiChange4h(m) = CalcOiChange4h(r)
<1>1. /\ Len(r) \in Nat /\ Len(m) = Len(r) /\ Len(r) \in 1 .. Len(r)
      /\ Last(m) = m[Len(r)] /\ Last(r) = r[Len(r)]
      /\ Ago(m, 1) = m[Len(r) - 1] /\ Ago(r, 1) = r[Len(r) - 1]
  BY MirrorEnds
<1>2. \A i \in 1 .. Len(r) : Left(m[i], r[i])
  BY DEF Mirrors
<1>3. CalcBbSqueeze(m) = CalcBbSqueeze(r)
  BY <1>1, <1>2 DEF CalcBbSqueeze, Left
<1>4. CalcOiChange4h(m) = CalcOiChange4h(r)
  BY <1>1, <1>2 DEF CalcOiChange4h, Left
<1>5. CalcVolumeSpike(m) = CalcVolumeSpike(r)
  <2> DEFINE n == periods.VOLUME_SMA
             x == Recent(Front(m), n)
             y == Recent(Front(r), n)
             f == [i \in 1 .. n |-> x[i].volume]
             g == [i \in 1 .. n |-> y[i].volume]
  <2>1. n \in Nat \ {0}
    BY IndicatorsAssumption
  <2>2. Last(m).volume = Last(r).volume
    BY <1>1, <1>2 DEF Left
  <2>3. ASSUME Len(r) >= n + 1 PROVE f = g
    <3>1. Mirrors(Front(m), Front(r)) /\ Len(Front(r)) = Len(r) - 1
      BY FrontMirrors
    <3>2. Mirrors(x, y)
      BY <2>1, <3>1, RecentMirrors
    <3>3. Front(r) \in Seq(BarType)
      BY <3>1 DEF Mirrors
    <3>4. Len(y) = Len(Front(r)) - Older(Front(r), n)
      BY <2>1, <3>3, RecentIs
    <3>5. Len(y) = n
      BY <1>1, <2>1, <2>3, <3>1, <3>4 DEF Older
    <3> HIDE DEF x, y
    <3>6. \A i \in 1 .. n : x[i].volume = y[i].volume
      BY <3>2, <3>5 DEF Mirrors, Left
    <3>. QED BY <3>6
  <2>4. /\ CalcVolumeSpike(m) =
             (/\ Len(m) >= n + 1
              /\ Last(m).volume * n > settings.VOLUME_SPIKE_MULTIPLIER * Total(f))
        /\ CalcVolumeSpike(r) =
             (/\ Len(r) >= n + 1
              /\ Last(r).volume * n > settings.VOLUME_SPIKE_MULTIPLIER * Total(g))
    BY DEF CalcVolumeSpike
  <2> HIDE DEF f, g
  <2>. QED BY <1>1, <2>2, <2>3, <2>4
<1>. QED BY <1>3, <1>4, <1>5

----------------------------------------------------------------------------
(* What is negated in the mirror. *)

\* A signal with two sides, and the same signal in the mirror.
Facing(x, y, up, down) ==
  \/ x = up /\ y = down
  \/ x = down /\ y = up
  \/ x = y /\ x \notin {up, down}

\* The votes for signals that face each other cancel out.
LEMMA VotesFace ==
  ASSUME NEW x, NEW y, NEW up, NEW down, up # down, Facing(x, y, up, down)
  PROVE  /\ Vote(x, up, down) \in {-1, 0, 1} /\ Vote(x, up, down) = -Vote(y, up, down)
         /\ \A none : none \notin {up, down} => (x # none) = (y # none)
BY DEF Facing, Vote

\* Periods are positive.
LEMMA PeriodsPositive ==
  /\ periods.EMA_SLOW \in Nat \ {0} /\ periods.MACD_SLOW \in Nat \ {0}
  /\ periods.RSI \in Nat \ {0} /\ periods.RSI_LOOKBACK \in Nat \ {0}
  /\ periods.RADIUS \in Nat \ {0} /\ periods.VWAP_FALLBACK \in Nat \ {0}
  /\ periods.ATR \in Nat \ {0} /\ periods.DAY \in Nat \ {0}
  /\ periods.CVD_MIN \in Nat \ {0} /\ periods.CVD_DIVISOR \in Nat \ {0}
BY IndicatorsAssumption

\* Trend and momentum.
LEMMA TurnedCandles ==
  ASSUME NEW m, NEW r, Mirrors(m, r), r # <<>>
  PROVE  /\ Facing(CalcEmaCross(m), CalcEmaCross(r), "golden", "death")
         /\ Facing(CalcMacd(m), CalcMacd(r), "bullish", "bearish")
<1>1. /\ Len(r) \in Nat /\ Len(m) = Len(r) /\ Len(r) \in 1 .. Len(r)
      /\ Last(m) = m[Len(r)] /\ Last(r) = r[Len(r)]
      /\ Ago(m, 1) = m[Len(r) - 1] /\ Ago(r, 1) = r[Len(r) - 1]
  BY MirrorEnds
<1>2. \A i \in 1 .. Len(r) : /\ m[i].ema = -r[i].ema /\ r[i].ema \in Int
                             /\ m[i].macd = -r[i].macd /\ r[i].macd \in Int
  BY DEF Mirrors, TurnedBar, Numbers
<1>3. /\ Last(m).ema = -Last(r).ema /\ Last(r).ema \in Int
      /\ Last(m).macd = -Last(r).macd /\ Last(r).macd \in Int
  BY <1>1, <1>2
<1>4. ASSUME Len(r) >= 3
      PROVE  /\ Ago(m, 1).ema = -Ago(r, 1).ema /\ Ago(r, 1).ema \in Int
             /\ Ago(m, 1).macd = -Ago(r, 1).macd /\ Ago(r, 1).macd \in Int
  <2>1. Len(r) - 1 \in 1 .. Len(r)
    BY <1>1, <1>4
  <2>. QED BY <1>1, <1>2, <2>1
<1>5. Facing(CalcEmaCross(m), CalcEmaCross(r), "golden", "death")
  <2>1. CASE Len(r) < periods.EMA_SLOW * 3
    BY <1>1, <2>1 DEF CalcEmaCross, Facing
  <2>2. CASE ~ (Len(r) < periods.EMA_SLOW * 3)
    <3>1. Len(r) >= 3
      BY <1>1, PeriodsPositive, <2>2
    <3> DEFINE p == Ago(r, 1).ema
               q == Last(r).ema
               pm == Ago(m, 1).ema
               qm == Last(m).ema
    <3>2. p \in Int /\ q \in Int /\ pm = -p /\ qm = -q
      BY <1>3, <1>4, <3>1
    <3>3. /\ CalcEmaCross(r) = (CASE p < 0 /\ q >= 0 -> "golden"
                                [] p > 0 /\ q <= 0 -> "death"
                                [] OTHER -> "none")
          /\ CalcEmaCross(m) = (CASE pm < 0 /\ qm >= 0 -> "golden"
                                [] pm > 0 /\ qm <= 0 -> "death"
                                [] OTHER -> "none")
      BY <1>1, <2>2 DEF CalcEmaCross
    <3> HIDE DEF p, q, pm, qm
    <3>. QED BY <3>2, <3>3 DEF Facing
  <2>. QED BY <2>1, <2>2
<1>6. Facing(CalcMacd(m), CalcMacd(r), "bullish", "bearish")
  <2>1. CASE Len(r) < periods.MACD_SLOW * 3
    BY <1>1, <2>1 DEF CalcMacd, Facing
  <2>2. CASE ~ (Len(r) < periods.MACD_SLOW * 3)
    <3>1. Len(r) >= 3
      BY <1>1, PeriodsPositive, <2>2
    <3> DEFINE p == Ago(r, 1).macd
               q == Last(r).macd
               pm == Ago(m, 1).macd
               qm == Last(m).macd
    <3>2. p \in Int /\ q \in Int /\ pm = -p /\ qm = -q
      BY <1>3, <1>4, <3>1
    <3>3. /\ CalcMacd(r) = (CASE q > 0 /\ q > p -> "bullish"
                                [] q < 0 /\ q < p -> "bearish"
                                [] OTHER -> "none")
          /\ CalcMacd(m) = (CASE qm > 0 /\ qm > pm -> "bullish"
                                [] qm < 0 /\ qm < pm -> "bearish"
                                [] OTHER -> "none")
      BY <1>1, <2>2 DEF CalcMacd
    <3> HIDE DEF p, q, pm, qm
    <3>. QED BY <3>2, <3>3 DEF Facing
  <2>. QED BY <2>1, <2>2
<1>. QED BY <1>5, <1>6
----------------------------------------------------------------------------
(* Extrema. *)

\* What f is on a set.
ValuesOn(f, D) == {f[i] : i \in D}

\* Prices, and the same prices on the other side of the axis.
Flips(g, f, D) == \A i \in D : f[i] \in Int /\ g[i] = Axis - f[i]

\* The largest of mirrored numbers is the mirror of the smallest, and the other way.
LEMMA ExtremesTurn ==
  ASSUME NEW D, IsFiniteSet(D), D # {}, NEW f, NEW g, Flips(g, f, D)
  PROVE  /\ Max(ValuesOn(f, D)) \in Int /\ Min(ValuesOn(f, D)) \in Int
         /\ Max(ValuesOn(g, D)) = Axis - Min(ValuesOn(f, D))
         /\ Min(ValuesOn(g, D)) = Axis - Max(ValuesOn(f, D))
<1> USE DEF Flips, ValuesOn
<1> DEFINE F == {f[i] : i \in D}
           G == {g[i] : i \in D}
<1>1. Axis \in Int
  BY ScanAssumption
<1>2. IsFiniteSet(F) /\ IsFiniteSet(G)
  BY ImageFinite
<1>3. F \in SUBSET Int /\ F # {} /\ G \in SUBSET Int /\ G # {}
  BY <1>1
<1>4. PICK b \in F : \A x \in F : b >= x
  <2> HIDE DEF F
  <2>1. F \in SUBSET F /\ \A x \in F : x \in Int
    BY <1>3
  <2>. QED BY <1>2, <1>3, <2>1, LargestNumber
<1>5. PICK h \in G : \A x \in G : h >= x
  <2> HIDE DEF G
  <2>1. G \in SUBSET G /\ \A x \in G : x \in Int
    BY <1>3
  <2>. QED BY <1>2, <1>3, <2>1, LargestNumber
<1>6. b \in Int /\ h \in Int
  BY <1>3
<1>7. Axis - b \in G /\ \A x \in G : Axis - b <= x
  <2>1. PICK i \in D : b = f[i]
    OBVIOUS
  <2>2. g[i] = Axis - b /\ g[i] \in G
    BY <2>1
  <2>3. \A j \in D : f[j] \in F /\ g[j] = Axis - f[j] /\ f[j] \in Int
    OBVIOUS
  <2>4. ASSUME NEW j \in D PROVE Axis - b <= g[j]
    <3>1. f[j] \in Int /\ b >= f[j] /\ g[j] = Axis - f[j]
      BY <1>4, <2>3
    <3>. QED BY <1>1, <1>6, <3>1
  <2>. QED BY <2>2, <2>4
<1>8. Axis - h \in F /\ \A x \in F : Axis - h <= x
  <2>1. PICK i \in D : h = g[i]
    OBVIOUS
  <2>2. f[i] = Axis - h /\ f[i] \in F
    BY <1>1, <2>1
  <2>3. \A j \in D : g[j] \in G /\ g[j] = Axis - f[j] /\ f[j] \in Int
    OBVIOUS
  <2>4. ASSUME NEW j \in D PROVE Axis - h <= f[j]
    <3>1. f[j] \in Int /\ h >= g[j] /\ g[j] = Axis - f[j]
      BY <1>5, <2>3
    <3>. QED BY <1>1, <1>6, <3>1
  <2>. QED BY <2>2, <2>4
<1> HIDE DEF F, G
<1>9. Max(F) = b /\ Max(G) = h
  BY <1>3, <1>4, <1>5, MaxIs
<1>10. Min(G) = Axis - b
  BY <1>3, <1>7, MinIs
<1>11. Min(F) = Axis - h
  BY <1>3, <1>8, MinIs
<1>12. /\ Max(F) \in Int /\ Min(F) \in Int
       /\ Max(G) = Axis - Min(F) /\ Min(G) = Axis - Max(F)
  BY <1>1, <1>6, <1>9, <1>10, <1>11
<1>. QED BY <1>12 DEF F, G
----------------------------------------------------------------------------
(* Divergences of the RSI. *)

\* Two sequences of n numbers rise and fall together.
SameOrder(v, w, n) ==
  /\ \A i \in 1 .. n : v[i] \in Int /\ w[i] \in Int
  /\ \A i, j \in 1 .. n : v[i] < v[j] <=> w[i] < w[j]

\* Then their local extrema are in the same places.
LEMMA SameMinima ==
  ASSUME NEW n \in Nat, NEW v, NEW w, Len(v) = n, Len(w) = n, SameOrder(v, w, n)
  PROVE  LocalMinima(v) = LocalMinima(w) /\ LocalMinima(v) \in SUBSET (1 .. n)
<1> DEFINE R == periods.RADIUS
<1>1. R \in Nat \ {0}
  BY PeriodsPositive
<1>2. ASSUME NEW i \in 1 + R .. n - R
      PROVE  /\ i \in 1 .. n
             /\ (\A j \in i - R .. i + R : j # i => v[i] < v[j])
                  <=> (\A j \in i - R .. i + R : j # i => w[i] < w[j])
  <2> HIDE DEF R
  <2>1. i \in 1 .. n /\ \A j \in i - R .. i + R : j \in 1 .. n
    BY <1>1
  <2>2. \A j \in i - R .. i + R : v[i] < v[j] <=> w[i] < w[j]
    BY <2>1 DEF SameOrder
  <2>. QED BY <2>1, <2>2
<1>3. /\ LocalMinima(v) =
           {i \in 1 + R .. n - R : \A j \in i - R .. i + R : j # i => v[i] < v[j]}
      /\ LocalMinima(w) =
           {i \in 1 + R .. n - R : \A j \in i - R .. i + R : j # i => w[i] < w[j]}
  BY DEF LocalMinima
<1> HIDE DEF R
<1>. QED BY <1>2, <1>3

\* And they diverge together from sequences that rise and fall together.
LEMMA SameDivergence ==
  ASSUME NEW n \in Nat, NEW v, NEW w, SameOrder(v, w, n), NEW p, NEW q, SameOrder(p, q, n),
         NEW E, E \in SUBSET (1 .. n)
  PROVE  Diverges(v, p, E) = Diverges(w, q, E)
<1> DEFINE l == Max(E)
           e == Max(E \ {l})
<1>1. IsFiniteSet(E) /\ E \in SUBSET Int
  <2>1. IsFiniteSet(1 .. n)
    BY FS_Interval
  <2>2. IsFiniteSet(E)
    BY <2>1, FS_Subset
  <2>. QED BY <2>2
<1>2. ASSUME Cardinality(E) >= 2 PROVE l \in 1 .. n /\ e \in 1 .. n
  <2>1. E # {}
    <3>1. Cardinality({}) = 0
      BY FS_EmptySet
    <3>. QED BY <1>2, <3>1
  <2>2. l \in E
    BY <1>1, <2>1, MaxIn
  <2> HIDE DEF l
  <2>3. E \ {l} # {}
    <3>1. Cardinality({l}) = 1
      BY FS_Singleton
    <3>2. E # {l}
      BY <1>2, <3>1
    <3>. QED BY <2>2, <3>2
  <2> DEFINE r == E \ {l}
  <2>4. IsFiniteSet(r) /\ r \in SUBSET Int /\ r # {}
    BY <1>1, <2>3, FS_Subset
  <2>5. Max(r) \in r
    <3> HIDE DEF r
    <3>. QED BY <2>4, MaxIn
  <2>. QED BY <2>2, <2>5
<1>3. /\ Diverges(v, p, E) = (Cardinality(E) >= 2 /\ v[l] < v[e] /\ p[l] > p[e])
      /\ Diverges(w, q, E) = (Cardinality(E) >= 2 /\ w[l] < w[e] /\ q[l] > q[e])
  BY DEF Diverges
<1> HIDE DEF l, e
<1>4. ASSUME Cardinality(E) >= 2
      PROVE  (v[l] < v[e] <=> w[l] < w[e]) /\ (p[l] > p[e] <=> q[l] > q[e])
  <2>1. (v[l] < v[e] <=> w[l] < w[e]) /\ (p[e] < p[l] <=> q[e] < q[l])
    BY <1>2, <1>4 DEF SameOrder
  <2>2. p[l] \in Int /\ p[e] \in Int /\ q[l] \in Int /\ q[e] \in Int
    BY <1>2, <1>4 DEF SameOrder
  <2>. QED BY <2>1, <2>2
<1>. QED BY <1>3, <1>4

\* A bullish divergence is a bearish one in the mirror.
LEMMA DivergenceTurns ==
  ASSUME NEW m, NEW r, Mirrors(m, r)
  PROVE  RsiBullish(m) = RsiBearish(r) /\ RsiBearish(m) = RsiBullish(r)
<1> DEFINE x == Recent(m, periods.RSI_LOOKBACK)
           y == Recent(r, periods.RSI_LOOKBACK)
           n == Len(y)
<1>1. Mirrors(x, y)
  BY PeriodsPositive, RecentMirrors
<1> HIDE DEF x, y
<1>2. n \in Nat /\ DOMAIN x = 1 .. n /\ DOMAIN y = 1 .. n
  BY <1>1, MirrorEnds
<1>3. Axis \in Int
  BY ScanAssumption
<1>4. \A i \in 1 .. n : /\ y[i].high \in Int /\ y[i].low \in Int /\ y[i].rsi \in Int
                        /\ x[i].high = Axis - y[i].low /\ x[i].low = Axis - y[i].high
                        /\ x[i].rsi = 100 - y[i].rsi
  BY <1>1 DEF Mirrors, TurnedBar, Numbers
<1> DEFINE lowsX == [i \in 1 .. n |-> x[i].low]
           lowsY == [i \in 1 .. n |-> y[i].low]
           downX == [i \in 1 .. n |-> -x[i].high]
           downY == [i \in 1 .. n |-> -y[i].high]
           rsiX == [i \in 1 .. n |-> x[i].rsi]
           rsiY == [i \in 1 .. n |-> y[i].rsi]
           coldX == [i \in 1 .. n |-> -x[i].rsi]
           coldY == [i \in 1 .. n |-> -y[i].rsi]
<1>5. /\ RsiBullish(m) = Diverges(lowsX, rsiX, LocalMinima(lowsX))
      /\ RsiBullish(r) = Diverges(lowsY, rsiY, LocalMinima(lowsY))
  BY <1>2 DEF RsiBullish, x, y
<1>6. /\ RsiBearish(m) = Diverges(downX, coldX, LocalMinima(downX))
      /\ RsiBearish(r) = Diverges(downY, coldY, LocalMinima(downY))
  <2> DEFINE highsX == [i \in DOMAIN x |-> x[i].high]
             highsY == [i \in DOMAIN y |-> y[i].high]
  <2>1. /\ RsiBearish(m) = Diverges([i \in DOMAIN x |-> -highsX[i]], [i \in DOMAIN x |-> -x[i].rsi],
                                    LocalMaxima(highsX))
        /\ RsiBearish(r) = Diverges([i \in DOMAIN y |-> -highsY[i]], [i \in DOMAIN y |-> -y[i].rsi],
                                    LocalMaxima(highsY))
    BY DEF RsiBearish, x, y
  <2>2. /\ [i \in DOMAIN x |-> -highsX[i]] = downX /\ [i \in DOMAIN x |-> -x[i].rsi] = coldX
        /\ [i \in DOMAIN y |-> -highsY[i]] = downY /\ [i \in DOMAIN y |-> -y[i].rsi] = coldY
    BY <1>2
  <2>3. /\ LocalMaxima(highsX) = LocalMinima(downX) /\ LocalMaxima(highsY) = LocalMinima(downY)
    <3>1. DOMAIN highsX = DOMAIN x /\ DOMAIN highsY = DOMAIN y
      OBVIOUS
    <3> HIDE DEF highsX, highsY, downX, downY
    <3>. QED BY <2>2, <3>1 DEF LocalMaxima
  <2>. QED BY <2>1, <2>2, <2>3
<1>7. /\ Len(lowsX) = n /\ Len(lowsY) = n /\ Len(downX) = n /\ Len(downY) = n
  BY <1>2
<1>8. /\ SameOrder(lowsX, downY, n) /\ SameOrder(rsiX, coldY, n)
      /\ SameOrder(downX, lowsY, n) /\ SameOrder(coldX, rsiY, n)
  <2>1. \A i \in 1 .. n : /\ lowsX[i] \in Int /\ lowsY[i] \in Int /\ rsiX[i] \in Int
                          /\ rsiY[i] \in Int /\ coldX[i] = -rsiX[i] /\ coldY[i] = -rsiY[i]
                          /\ downX[i] = lowsY[i] - Axis /\ downY[i] = lowsX[i] - Axis
                          /\ rsiX[i] = 100 - rsiY[i]
    <3>1. ASSUME NEW i \in 1 .. n
          PROVE  /\ lowsX[i] = x[i].low /\ lowsY[i] = y[i].low /\ rsiX[i] = x[i].rsi
                 /\ rsiY[i] = y[i].rsi /\ coldX[i] = -x[i].rsi /\ coldY[i] = -y[i].rsi
                 /\ downX[i] = -x[i].high /\ downY[i] = -y[i].high
      OBVIOUS
    <3> HIDE DEF lowsX, lowsY, downX, downY, rsiX, rsiY, coldX, coldY, n
    <3>2. ASSUME NEW i \in 1 .. n
          PROVE  /\ y[i].high \in Int /\ y[i].low \in Int /\ y[i].rsi \in Int
                 /\ x[i].high = Axis - y[i].low /\ x[i].low = Axis - y[i].high
                 /\ x[i].rsi = 100 - y[i].rsi
      BY <1>4
    <3>. QED BY <1>3, <3>1, <3>2
  <2> HIDE DEF lowsX, lowsY, downX, downY, rsiX, rsiY, coldX, coldY, n
  <2>2. SameOrder(lowsX, downY, n)
    BY <1>3, <2>1 DEF SameOrder
  <2>3. SameOrder(downX, lowsY, n)
    BY <1>3, <2>1 DEF SameOrder
  <2>4. SameOrder(rsiX, coldY, n)
    BY <2>1 DEF SameOrder
  <2>5. SameOrder(coldX, rsiY, n)
    BY <2>1 DEF SameOrder
  <2>. QED BY <2>2, <2>3, <2>4, <2>5
<1> HIDE DEF lowsX, lowsY, downX, downY, rsiX, rsiY, coldX, coldY, n
<1>9. /\ LocalMinima(lowsX) = LocalMinima(downY) /\ LocalMinima(lowsX) \in SUBSET (1 .. n)
      /\ LocalMinima(downX) = LocalMinima(lowsY) /\ LocalMinima(downX) \in SUBSET (1 .. n)
  BY <1>2, <1>7, <1>8, SameMinima
<1>10. Diverges(lowsX, rsiX, LocalMinima(lowsX)) = Diverges(downY, coldY, LocalMinima(lowsX))
  BY <1>2, <1>8, <1>9, SameDivergence
<1>11. Diverges(downX, coldX, LocalMinima(downX)) = Diverges(lowsY, rsiY, LocalMinima(downX))
  BY <1>2, <1>8, <1>9, SameDivergence
<1>. QED BY <1>5, <1>6, <1>9, <1>10, <1>11

\* The lows are seen first, which matters where both diverge.
LEMMA TurnedRsi ==
  ASSUME NEW m, NEW r, Mirrors(m, r), ~ (RsiBullish(r) /\ RsiBearish(r))
  PROVE  Facing(CalcRsiDivergence(m), CalcRsiDivergence(r), "bullish", "bearish")
<1>1. Len(m) = Len(r)
  BY DEF Mirrors
<1>2. RsiBullish(m) = RsiBearish(r) /\ RsiBearish(m) = RsiBullish(r)
  BY DivergenceTurns
<1>. QED BY <1>1, <1>2 DEF CalcRsiDivergence, Facing
----------------------------------------------------------------------------
(* Averages and sums. *)

\* A product with one side negated.
LEMMA ProductNegated ==
  ASSUME NEW v \in Int, NEW x \in Int
  PROVE  v * x \in Int /\ v * (-x) = -(v * x) /\ (-x) * v = -(x * v)
OBVIOUS

\* The axis cancels out.
LEMMA SpreadTurns ==
  ASSUME NEW c \in Int, NEW h \in Int, NEW l \in Int, NEW k \in Int
  PROVE  /\ 3 * c - h - l - k \in Int
         /\ 3 * (Axis - c) - (Axis - l) - (Axis - h) - (Axis - k) = -(3 * c - h - l - k)
BY ScanAssumption

\* The distance from the average price is negated.
LEMMA OverVwapTurns ==
  ASSUME NEW m, NEW r, Mirrors(m, r), r # <<>>
  PROVE  OverVwap(r) \in Int /\ OverVwap(m) = -OverVwap(r)
<1>1. /\ Len(r) \in Nat /\ Len(m) = Len(r) /\ Len(r) \in 1 .. Len(r)
      /\ DOMAIN m = 1 .. Len(r) /\ DOMAIN r = 1 .. Len(r)
      /\ Last(m) = m[Len(r)] /\ Last(r) = r[Len(r)]
  BY MirrorEnds
<1> DEFINE of == {i \in 1 .. Len(r) : DayOf(i) = DayOf(Len(r))}
           today == Cardinality(of)
           n == IF today < periods.VWAP_MIN THEN periods.VWAP_FALLBACK ELSE today
           x == Recent(m, n)
           y == Recent(r, n)
<1>2. n \in Nat
  <2>1. IsFiniteSet(1 .. Len(r)) /\ of \in SUBSET (1 .. Len(r))
    BY FS_Interval
  <2> HIDE DEF of
  <2>2. IsFiniteSet(of)
    BY <2>1, FS_Subset
  <2>3. Cardinality(of) \in Nat
    BY <2>2, FS_CardinalityType
  <2>. QED BY <2>3, PeriodsPositive
<1>3. VwapWindow(m) = x /\ VwapWindow(r) = y
  BY <1>1 DEF VwapWindow
<1> HIDE DEF n
<1>4. Mirrors(x, y)
  BY <1>2, RecentMirrors
<1> HIDE DEF x, y
<1> DEFINE D == 1 .. Len(y)
           close == Last(r).close
           f == [i \in D |-> y[i].volume * (3 * close - y[i].high - y[i].low - y[i].close)]
           g == [i \in D |-> x[i].volume *
                               (3 * Last(m).close - x[i].high - x[i].low - x[i].close)]
<1>5. Len(y) \in Nat /\ DOMAIN x = D /\ DOMAIN y = D
  BY <1>4, MirrorEnds
<1>6. Axis \in Int
  BY ScanAssumption
<1>7. close \in Int /\ Last(m).close = Axis - close
  <2>1. TurnedBar(m[Len(r)], r[Len(r)]) /\ Numbers(r[Len(r)])
    BY <1>1 DEF Mirrors
  <2>. QED BY <1>1, <2>1 DEF TurnedBar, Numbers
<1>8. ASSUME NEW i \in D PROVE f[i] \in Int /\ g[i] = -f[i]
  <2> DEFINE v == y[i].volume
             d == 3 * close - y[i].high - y[i].low - y[i].close
  <2>1. TurnedBar(x[i], y[i]) /\ Left(x[i], y[i]) /\ Numbers(y[i])
    BY <1>4, <1>5 DEF Mirrors
  <2> HIDE DEF close
  <2>2. /\ y[i].high \in Int /\ y[i].low \in Int /\ y[i].close \in Int
        /\ x[i].high = Axis - y[i].low /\ x[i].low = Axis - y[i].high
        /\ x[i].close = Axis - y[i].close
    BY <2>1 DEF TurnedBar, Numbers
  <2>3. v \in Int /\ x[i].volume = v
    BY <2>1 DEF Left, Numbers
  <2>4. d \in Int /\ 3 * Last(m).close - x[i].high - x[i].low - x[i].close = -d
    <3>1. close \in Int /\ Last(m).close = Axis - close
      BY <1>7
    <3> DEFINE hi == y[i].high
               lo == y[i].low
               cl == y[i].close
    <3>2. /\ hi \in Int /\ lo \in Int /\ cl \in Int
          /\ x[i].high = Axis - lo /\ x[i].low = Axis - hi /\ x[i].close = Axis - cl
      BY <2>2
    <3>3. d = 3 * close - hi - lo - cl
      OBVIOUS
    <3>4. 3 * Last(m).close - x[i].high - x[i].low - x[i].close
            = 3 * (Axis - close) - (Axis - lo) - (Axis - hi) - (Axis - cl)
      BY <3>1, <3>2
    <3> HIDE DEF hi, lo, cl, d
    <3>5. /\ 3 * close - hi - lo - cl \in Int
          /\ 3 * (Axis - close) - (Axis - lo) - (Axis - hi) - (Axis - cl)
               = -(3 * close - hi - lo - cl)
      BY <3>1, <3>2, SpreadTurns
    <3>. QED BY <3>3, <3>4, <3>5
  <2>5. f[i] = v * d /\ g[i] = v * (-d)
    BY <2>3, <2>4
  <2> HIDE DEF v, d
  <2>. QED BY <2>3, <2>4, <2>5, ProductNegated
<1>9. OverVwap(r) = Total(f) /\ OverVwap(m) = Total(g)
  BY <1>3, <1>5 DEF OverVwap
<1>10. DOMAIN f = D /\ DOMAIN g = D /\ IsFiniteSet(D) /\ IntOn(f, D) /\ \A i \in D : g[i] = -f[i]
  BY <1>5, <1>8, FS_Interval DEF IntOn
<1> HIDE DEF f, g, D
<1>. QED BY <1>9, <1>10, TotalNegated

\* On which side of its average the price is.
LEMMA TurnedVwap ==
  ASSUME NEW m, NEW r, Mirrors(m, r), r # <<>>, OverVwap(r) # 0
  PROVE  Facing(CalcVwapBias(m), CalcVwapBias(r), "above", "below")
<1>1. OverVwap(r) \in Int /\ OverVwap(m) = -OverVwap(r)
  BY OverVwapTurns
<1>. QED BY <1>1 DEF CalcVwapBias, Facing

\* A sequence of n numbers, and the same numbers with the other sign.
Negates(g, f, n) ==
  /\ n \in Nat /\ DOMAIN f = 1 .. n /\ DOMAIN g = 1 .. n /\ Len(f) = n /\ Len(g) = n
  /\ (f = <<>> <=> n = 0) /\ (g = <<>> <=> n = 0)
  /\ \A i \in 1 .. n : f[i] \in Int /\ g[i] = -f[i]

\* It is so for functions with the domain.
LEMMA NegatesIf ==
  ASSUME NEW n \in Nat, NEW f, NEW g, f = [i \in 1 .. n |-> f[i]], g = [i \in 1 .. n |-> g[i]],
         \A i \in 1 .. n : f[i] \in Int /\ g[i] = -f[i]
  PROVE  Negates(g, f, n)
<1>1. f \in [1 .. n -> Int] /\ g \in [1 .. n -> Int]
  <2>1. \A i \in 1 .. n : f[i] \in Int /\ g[i] \in Int
    OBVIOUS
  <2>. QED BY <2>1, Zenon
<1>2. f \in Seq(Int) /\ g \in Seq(Int)
  BY <1>1
<1>3. DOMAIN f = 1 .. n /\ DOMAIN g = 1 .. n /\ Len(f) = n /\ Len(g) = n
  BY <1>1, <1>2
<1>4. (f = <<>> <=> n = 0) /\ (g = <<>> <=> n = 0)
  BY <1>2, <1>3
<1>. QED BY <1>3, <1>4 DEF Negates

\* The funding of the other side, between the thresholds of the opposite screener.
LEMMA TurnedFunding ==
  ASSUME NEW n, NEW f, NEW g, Negates(g, f, n)
  PROVE  Facing(Image!FundingBias(g), FundingBias(f), "long_heavy", "short_heavy")
<1> DEFINE h == settings.FUNDING_RATE_HIGH
           k == settings.FUNDING_RATE_LOW
<1>1. /\ h \in Nat \ {0} /\ k \in Int /\ k < 0
      /\ Opposed.FUNDING_RATE_HIGH = -k /\ Opposed.FUNDING_RATE_LOW = -h
  BY IndicatorsAssumption, OpposedSettings
<1>2. /\ n \in Nat /\ Len(f) = n /\ Len(g) = n
      /\ f = <<>> <=> n = 0
      /\ g = <<>> <=> n = 0
  BY DEF Negates
<1>3. Total(f) \in Int /\ Total(g) = -Total(f) /\ Image!Total(g) = -Total(f)
  <2>1. DOMAIN f = 1 .. n /\ DOMAIN g = 1 .. n /\ IntOn(f, 1 .. n)
        /\ \A i \in 1 .. n : g[i] = -f[i]
    BY DEF Negates, IntOn
  <2> DEFINE D == 1 .. n
  <2>2. IsFiniteSet(D)
    BY <1>2, FS_Interval
  <2> HIDE DEF D
  <2>3. Total(f) \in Int /\ Total(g) = -Total(f)
    BY <2>1, <2>2, TotalNegated DEF D
  <2>. QED BY <2>3, ImageTools
<1>4. CASE n = 0
  BY <1>2, <1>4 DEF FundingBias, Image!FundingBias, Facing
<1>5. CASE n # 0
  <2> DEFINE t == Total(f)
             l == h * n
             s == k * n
  <2>1. l \in Int /\ l > 0 /\ (-h) * n = -l
    BY <1>1, <1>2, <1>5, ProductNegated
  <2>2. s \in Int /\ s < 0 /\ (-k) * n = -s
    <3>1. s \in Int /\ (-k) * n = -s /\ -k \in Nat \ {0}
      BY <1>1, <1>2, ProductNegated
    <3>2. (-k) * n > 0
      BY <1>2, <1>5, <3>1
    <3> HIDE DEF s
    <3>. QED BY <3>1, <3>2
  <2>3. FundingBias(f) = IF t >= l THEN "long_heavy"
                         ELSE IF t <= s THEN "short_heavy" ELSE "neutral"
    BY <1>2, <1>5 DEF FundingBias
  <2>4. Image!FundingBias(g) = IF -t >= -s THEN "long_heavy"
                               ELSE IF -t <= -l THEN "short_heavy" ELSE "neutral"
    BY <1>1, <1>2, <1>3, <1>5, <2>1, <2>2 DEF Image!FundingBias
  <2> HIDE DEF t, l, s
  <2>5. t \in Int
    BY <1>3 DEF t
  <2>. QED BY <2>1, <2>2, <2>3, <2>4, <2>5 DEF Facing
<1>. QED BY <1>4, <1>5

----------------------------------------------------------------------------
(* The cumulative volume delta. *)

\* What is summed up of negated flows is negated.
LEMMA CvdTurns ==
  ASSUME NEW n, NEW f, NEW g, Negates(g, f, n)
  PROVE  Negates(KlinesToCvd(g), KlinesToCvd(f), n)
<1>1. n \in Nat /\ DOMAIN f = 1 .. n /\ DOMAIN g = 1 .. n
  BY DEF Negates
<1> DEFINE c == KlinesToCvd(f)
           d == KlinesToCvd(g)
<1>2. ASSUME NEW i \in 1 .. n PROVE c[i] \in Int /\ d[i] = -c[i]
  <2> DEFINE D == 1 .. i
             x == [j \in D |-> f[j]]
             y == [j \in D |-> g[j]]
  <2>1. c[i] = Total(x) /\ d[i] = Total(y)
    BY <1>1 DEF KlinesToCvd
  <2>2. \A j \in D : f[j] \in Int /\ g[j] = -f[j]
    BY <1>1 DEF Negates
  <2>3. DOMAIN x = D /\ DOMAIN y = D /\ IntOn(x, D) /\ \A j \in D : y[j] = -x[j]
    BY <2>2 DEF IntOn
  <2>4. IsFiniteSet(D)
    BY <1>1, FS_Interval
  <2> HIDE DEF x, y, D
  <2>. QED BY <2>1, <2>3, <2>4, TotalNegated
<1>3. c = [i \in 1 .. n |-> c[i]] /\ d = [i \in 1 .. n |-> d[i]]
  BY <1>1 DEF KlinesToCvd
<1> HIDE DEF c, d
<1>4. Negates(d, c, n)
  BY <1>1, <1>2, <1>3, NegatesIf
<1>. QED BY <1>4 DEF c, d

\* It rises where that of the mirror falls.
LEMMA TurnedCvd ==
  ASSUME NEW n, NEW c, NEW d, Negates(d, c, n)
  PROVE  Facing(CalcCvdTrend(d), CalcCvdTrend(c), "rising", "falling")
<1> DEFINE q == n \div periods.CVD_DIVISOR
           k == IF periods.CVD_MIN >= q THEN periods.CVD_MIN ELSE q
<1>1. n \in Nat /\ Len(c) = n /\ Len(d) = n
  BY DEF Negates
<1>2. q \in 0 .. n /\ periods.CVD_MIN \in Nat \ {0}
  BY <1>1, PeriodsPositive, QuotientBound
<1>3. Max({periods.CVD_MIN, q}) = k
  <2> DEFINE S == {periods.CVD_MIN, q}
  <2> HIDE DEF q
  <2>1. S \in SUBSET Int /\ k \in S /\ \A x \in S : k >= x
    BY <1>1, <1>2
  <2> HIDE DEF S, k
  <2>2. Max(S) = k
    BY <2>1, MaxIs
  <2>. QED BY <2>2 DEF S
<1>4. CASE n < periods.CVD_MIN
  BY <1>1, <1>4 DEF CalcCvdTrend, Facing
<1>5. CASE ~ (n < periods.CVD_MIN)
  <2> DEFINE i == n - (k - 1)
  <2>1. i \in 1 .. n /\ n \in 1 .. n
    <3> HIDE DEF q
    <3>. QED BY <1>1, <1>2, <1>5
  <2>2. /\ Last(c) = c[n] /\ Ago(c, k - 1) = c[i]
        /\ Last(d) = d[n] /\ Ago(d, k - 1) = d[i]
    BY <1>1 DEF Last, Ago
  <2>3. c[n] \in Int /\ c[i] \in Int /\ d[n] = -c[n] /\ d[i] = -c[i]
    <3> HIDE DEF i
    <3>. QED BY <2>1 DEF Negates
  <2> DEFINE change == c[n] - c[i]
             back == d[n] - d[i]
  <2>4. CalcCvdTrend(c) = IF change > 0 THEN "rising"
                          ELSE IF change < 0 THEN "falling" ELSE "neutral"
    BY <1>1, <1>3, <1>5, <2>2 DEF CalcCvdTrend
  <2>5. CalcCvdTrend(d) = IF back > 0 THEN "rising"
                          ELSE IF back < 0 THEN "falling" ELSE "neutral"
    BY <1>1, <1>3, <1>5, <2>2 DEF CalcCvdTrend
  <2>6. change \in Int /\ back = -change
    <3> HIDE DEF i
    <3>. QED BY <2>3
  <2> HIDE DEF change, back
  <2>. QED BY <2>4, <2>5, <2>6 DEF Facing
<1>. QED BY <1>4, <1>5

\* What is summed up over all flows, less the first.
LEMMA CvdFirstLast ==
  ASSUME NEW n \in Nat \ {0}, NEW f, f = [i \in 1 .. n |-> f[i]], \A i \in 1 .. n : f[i] \in Int
  PROVE  LET c == KlinesToCvd(f)
         IN  /\ c[1] \in Int /\ c[n] \in Int
             /\ c[n] - c[1] = Total([i \in 2 .. n |-> f[i]])
<1> DEFINE x == [j \in 1 .. 1 |-> f[j]]
           rest == [i \in 2 .. n |-> f[i]]
           A == 1 .. n
           B == 2 .. n
           c == KlinesToCvd(f)
<1>1. DOMAIN f = A /\ 1 \in A /\ n \in A
  OBVIOUS
<1>2. c[n] = Total(f) /\ c[1] = Total(x)
  BY <1>1 DEF KlinesToCvd
<1>3. IsFiniteSet(A) /\ IsFiniteSet(B) /\ A \ {1} = B
  <2>1. A \ {1} = B
    OBVIOUS
  <2>2. IsFiniteSet(A)
    <3>1. 1 \in Int /\ n \in Int
      OBVIOUS
    <3>. QED BY <3>1, FS_Interval
  <2>3. IsFiniteSet(B)
    BY <2>1, <2>2, FS_Subset
  <2>. QED BY <2>1, <2>2, <2>3
<1>4. IntOn(f, A) /\ IntOn(f, B)
  BY <1>3 DEF IntOn
<1>5. DOMAIN rest = B /\ \A i \in B : rest[i] = f[i]
  OBVIOUS
<1>6. DOMAIN x = {1} /\ x[1] = f[1] /\ f[1] \in Int
  BY <1>1
<1> HIDE DEF x, rest, A, B, c
<1>7. Total(f) = f[1] + SumOver(f, B)
  <2>1. Total(f) = SumOver(f, A)
    BY <1>1, TotalSums
  <2>2. SumOver(f, A) = f[1] + SumOver(f, A \ {1})
    BY <1>1, <1>3, <1>4, SumRemove
  <2>. QED BY <1>3, <2>1, <2>2
<1>8. Total(rest) = SumOver(f, B) /\ SumOver(f, B) \in Int
  <2>1. SumOver(rest, B) = SumOver(f, B)
    BY <1>3, <1>4, <1>5, SumSame
  <2>2. Total(rest) = SumOver(rest, B)
    BY <1>5, TotalSums
  <2>3. SumOver(f, B) \in Int
    BY <1>3, <1>4, SumUnfold
  <2>. QED BY <2>1, <2>2, <2>3
<1>9. Total(x) = f[1]
  <2> DEFINE one == {1}
  <2>1. IsFiniteSet(one) /\ 1 \in one /\ one \ {1} = {} /\ IntOn(x, one)
    BY <1>6, FS_Singleton DEF IntOn
  <2>2. Total(x) = SumOver(x, one)
    BY <1>6, TotalSums
  <2> HIDE DEF one
  <2>3. SumOver(x, one) = x[1] + SumOver(x, one \ {1})
    BY <2>1, SumRemove
  <2>4. SumOver(x, one \ {1}) = 0
    <3>1. SumOver(x, {}) = 0
      BY SumEmpty
    <3>. QED BY <2>1, <3>1
  <2>5. Total(x) = x[1] + 0
    BY <2>2, <2>3, <2>4
  <2>. QED BY <1>6, <2>5
<1>10. /\ c[1] \in Int /\ c[n] \in Int
       /\ c[n] - c[1] = Total(rest)
  BY <1>2, <1>6, <1>7, <1>8, <1>9
<1>. QED BY <1>10 DEF c, rest
\* Price and CVD disagree the other way in the mirror, if neither stands still.
LEMMA TurnedCvdPrice ==
  ASSUME NEW m, NEW r, Mirrors(m, r), Decided(r)
  PROVE  LET x == Recent(m, settings.CVD_CANDLES)
             y == Recent(r, settings.CVD_CANDLES)
             d == KlinesToCvd([i \in DOMAIN x |-> x[i].flow])
             c == KlinesToCvd([i \in DOMAIN y |-> y[i].flow])
         IN  /\ Facing(CalcCvdTrend(d), CalcCvdTrend(c), "rising", "falling")
             /\ Facing(CalcCvdPriceDivergence(m, d), CalcCvdPriceDivergence(r, c),
                       "bullish", "bearish")
<1> DEFINE x == Recent(m, settings.CVD_CANDLES)
           y == Recent(r, settings.CVD_CANDLES)
           f == [i \in DOMAIN y |-> y[i].flow]
           g == [i \in DOMAIN x |-> x[i].flow]
           c == KlinesToCvd(f)
           d == KlinesToCvd(g)
           L == Len(r)
           n == Len(y)
           k == Older(r, settings.CVD_CANDLES)
<1>1. /\ r # <<>> /\ y[1].close # Last(r).close
      /\ Total([i \in 2 .. n |-> y[i].flow]) # 0
  BY DEF Decided
<1>2. settings.CVD_CANDLES \in Nat \ {0}
  BY IndicatorsAssumption
<1>3. Mirrors(x, y)
  BY <1>2, RecentMirrors
<1>4. /\ L \in Nat \ {0} /\ Len(m) = L /\ L \in 1 .. L
      /\ Last(m) = m[L] /\ Last(r) = r[L]
      /\ Ago(m, n - 1) = m[L - (n - 1)] /\ Ago(r, n - 1) = r[L - (n - 1)]
  BY <1>1, MirrorEnds
<1>5. k \in 0 .. L /\ n = L - k /\ k < L /\ y[1] = r[k + 1]
  <2>1. r \in Seq(BarType)
    BY DEF Mirrors
  <2>2. /\ k \in 0 .. L /\ n = L - k
        /\ \A i \in 1 .. L - k : y[i] = r[i + k]
    BY <1>2, <2>1, RecentIs
  <2>3. k < L
    BY <1>2, <1>4 DEF Older
  <2> HIDE DEF y, k, L, n
  <2>4. 1 \in 1 .. L - k /\ 1 + k = k + 1
    BY <1>4, <2>2, <2>3
  <2>5. y[1] = r[1 + k]
    BY <2>2, <2>4
  <2>. QED BY <2>2, <2>3, <2>4, <2>5
<1> HIDE DEF x, y, k
<1>6. n \in Nat \ {0} /\ DOMAIN x = 1 .. n /\ DOMAIN y = 1 .. n
  <2>1. n \in Nat /\ DOMAIN x = 1 .. n /\ DOMAIN y = 1 .. n
    BY <1>3, MirrorEnds
  <2> HIDE DEF n
  <2>. QED BY <1>4, <1>5, <2>1
<1>7. f = [i \in 1 .. n |-> f[i]] /\ g = [i \in 1 .. n |-> g[i]]
  BY <1>6
<1>8. \A i \in 1 .. n : f[i] \in Int /\ g[i] = -f[i]
  BY <1>3, <1>6 DEF Mirrors, TurnedBar, Numbers
<1>9. [i \in 2 .. n |-> y[i].flow] = [i \in 2 .. n |-> f[i]]
  BY <1>6
<1> HIDE DEF f, g, n
<1>10. Negates(d, c, n)
  <2>1. Negates(g, f, n)
    BY <1>6, <1>7, <1>8, NegatesIf
  <2>. QED BY <2>1, CvdTurns
<1>11. c[1] \in Int /\ c[n] \in Int /\ c[n] # c[1]
  <2>1. c[1] \in Int /\ c[n] \in Int /\ c[n] - c[1] = Total([i \in 2 .. n |-> f[i]])
    BY <1>6, <1>7, <1>8, CvdFirstLast
  <2>2. c[n] - c[1] # 0
    BY <1>1, <1>9, <2>1
  <2> HIDE DEF c
  <2>. QED BY <2>1, <2>2
<1> HIDE DEF c, d
<1>12. Facing(CalcCvdTrend(d), CalcCvdTrend(c), "rising", "falling")
  BY <1>10, TurnedCvd
<1> DEFINE now == r[L].close
           then == r[k + 1].close
           nowM == m[L].close
           thenM == m[k + 1].close
<1>13. /\ now \in Int /\ then \in Int /\ now # then
       /\ nowM = Axis - now /\ thenM = Axis - then
  <2>1. k + 1 \in 1 .. L
    BY <1>4, <1>5
  <2>2. \A i \in 1 .. L : r[i].close \in Int /\ m[i].close = Axis - r[i].close
    BY DEF Mirrors, TurnedBar, Numbers
  <2> HIDE DEF L
  <2>. QED BY <1>1, <1>4, <1>5, <2>1, <2>2
<1>14. (nowM > thenM) = ~ (now > then)
  <2>1. Axis \in Int
    BY ScanAssumption
  <2> HIDE DEF now, then, nowM, thenM
  <2>. QED BY <1>13, <2>1
<1>15. /\ Len(c) = n /\ Len(d) = n /\ Last(c) = c[n] /\ Last(d) = d[n]
       /\ d[1] = -c[1] /\ d[n] = -c[n]
  <2>1. 1 \in 1 .. n /\ n \in 1 .. n
    BY <1>6
  <2>. QED BY <1>10, <2>1 DEF Negates, Last
<1>16. (Last(d) > d[1]) = ~ (Last(c) > c[1])
  BY <1>11, <1>15
<1>17. L - (n - 1) = k + 1
  <2> HIDE DEF L
  <2>. QED BY <1>4, <1>5
<1>18. /\ Last(r).close = now /\ Ago(r, n - 1).close = then
       /\ Last(m).close = nowM /\ Ago(m, n - 1).close = thenM
  BY <1>4, <1>17
<1> HIDE DEF now, then, nowM, thenM, L
<1> DEFINE up == now > then
           positive == Last(c) > c[1]
           quiet == n < periods.CVD_MIN \/ L < n
<1>19. CalcCvdPriceDivergence(r, c) =
         IF quiet \/ up = positive THEN "none" ELSE IF up THEN "bearish" ELSE "bullish"
  BY <1>15, <1>18 DEF CalcCvdPriceDivergence, L
<1>20. CalcCvdPriceDivergence(m, d) =
         IF quiet \/ (~up) = (~positive) THEN "none" ELSE IF ~up THEN "bearish" ELSE "bullish"
  BY <1>4, <1>14, <1>15, <1>16, <1>18 DEF CalcCvdPriceDivergence
<1> HIDE DEF quiet, up, positive
<1>21. Facing(CalcCvdPriceDivergence(m, d), CalcCvdPriceDivergence(r, c), "bullish", "bearish")
  <2>1. up \in BOOLEAN /\ positive \in BOOLEAN
    BY DEF up, positive
  <2>. QED BY <1>19, <1>20, <2>1 DEF Facing
<1>. QED BY <1>12, <1>21 DEF c, d, f, g, x, y
----------------------------------------------------------------------------
(* Days. *)

DayType == [high : Int, low : Int, close : Int, atr : Int, ema : Int]

TurnedDay(x, y) ==
  /\ x.high = Axis - y.low /\ x.low = Axis - y.high /\ x.close = Axis - y.close
  /\ x.atr = y.atr /\ x.ema = -y.ema

DaysMirror(p, q) ==
  /\ p \in Seq(DayType) /\ q \in Seq(DayType) /\ Len(p) = Len(q)
  /\ \A i \in 1 .. Len(q) : TurnedDay(p[i], q[i])

\* The bars of a day.
BarsOf(L, d) == {i \in 1 .. L : DayOf(i) = d - 1}

\* Every day up to the last has some.
LEMMA DaysHaveBars ==
  ASSUME NEW L \in Nat \ {0}
  PROVE  /\ DayOf(L) \in Nat
         /\ \A d \in 1 .. DayOf(L) + 1 :
              /\ BarsOf(L, d) # {} /\ IsFiniteSet(BarsOf(L, d)) /\ BarsOf(L, d) \in SUBSET (1 .. L)
              /\ Max(BarsOf(L, d)) \in BarsOf(L, d)
<1> DEFINE D == periods.DAY
<1>1. D \in Nat \ {0}
  BY PeriodsPositive
<1>2. L - 1 \in Nat
  OBVIOUS
<1>3. DayOf(L) = (L - 1) \div D
  BY DEF DayOf
<1>4. DayOf(L) \in Nat
  BY <1>1, <1>2, <1>3, QuotientBound
<1>5. ASSUME NEW d \in 1 .. DayOf(L) + 1
      PROVE  /\ BarsOf(L, d) # {} /\ IsFiniteSet(BarsOf(L, d)) /\ BarsOf(L, d) \in SUBSET (1 .. L)
             /\ Max(BarsOf(L, d)) \in BarsOf(L, d)
  <2> DEFINE k == d - 1
             i == k * D + 1
             S == BarsOf(L, d)
  <2>1. k \in Nat /\ k <= (L - 1) \div D
    BY <1>3, <1>4, <1>5
  <2> HIDE DEF k, D
  <2>2. k * D \in 0 .. L - 1 /\ (k * D) \div D = k
    BY <1>1, <1>2, <2>1, MultipleIn
  <2>3. i \in 1 .. L /\ i - 1 = k * D
    <3>1. \A t \in 0 .. L - 1 : t + 1 \in 1 .. L /\ (t + 1) - 1 = t
      BY <1>2
    <3>2. PICK t \in 0 .. L - 1 : t = k * D
      BY <2>2
    <3>3. t + 1 \in 1 .. L /\ (t + 1) - 1 = t
      BY <3>1
    <3>. QED BY <3>2, <3>3
  <2> HIDE DEF i
  <2>4. DayOf(i) = k
    BY <2>2, <2>3 DEF DayOf, D
  <2>5. i \in S
    BY <2>3, <2>4 DEF BarsOf, k
  <2>6. S \in SUBSET (1 .. L)
    BY DEF BarsOf
  <2>7. IsFiniteSet(1 .. L)
    BY <1>2, FS_Interval
  <2> HIDE DEF S
  <2>8. IsFiniteSet(S)
    BY <2>6, <2>7, FS_Subset
  <2>9. Max(S) \in S
    <3>1. S \in SUBSET Int /\ S # {}
      BY <2>5, <2>6
    <3>. QED BY <2>8, <3>1, MaxIn
  <2>. QED BY <2>5, <2>6, <2>8, <2>9 DEF S
<1>. QED BY <1>4, <1>5

\* The days of the image are the image of the days.
LEMMA DaysTurn ==
  ASSUME NEW m, NEW r, Mirrors(m, r), r # <<>>
  PROVE  DaysMirror(Days(m), Days(r)) /\ Len(Days(r)) >= 1
<1> DEFINE L == Len(r)
           n == DayOf(L) + 1
           High(s, d) == Max({s[i].high : i \in BarsOf(L, d)})
           Low(s, d) == Min({s[i].low : i \in BarsOf(L, d)})
           End(d) == Max(BarsOf(L, d))
           Day(s, d) == [high |-> High(s, d), low |-> Low(s, d), close |-> s[End(d)].close,
                         atr |-> s[End(d)].atrDay, ema |-> s[End(d)].emaDay]
<1>1. L \in Nat \ {0} /\ Len(m) = L /\ DOMAIN m = 1 .. L /\ DOMAIN r = 1 .. L
  BY MirrorEnds
<1>2. DayOf(L) \in Nat
  <2> HIDE DEF L
  <2>. QED BY <1>1, DaysHaveBars
<1>3. Days(m) = [d \in 1 .. n |-> Day(m, d)] /\ Days(r) = [d \in 1 .. n |-> Day(r, d)]
  BY <1>1 DEF Days, BarsOf
<1>4. \A i \in 1 .. L : /\ TurnedBar(m[i], r[i]) /\ Left(m[i], r[i]) /\ Numbers(r[i])
  BY DEF Mirrors
<1> HIDE DEF L
<1>5. Axis \in Int
  BY ScanAssumption
<1>6. ASSUME NEW d \in 1 .. n
      PROVE  Day(m, d) \in DayType /\ Day(r, d) \in DayType /\ TurnedDay(Day(m, d), Day(r, d))
  <2> DEFINE S == BarsOf(L, d)
             e == End(d)
             hi == [i \in S |-> r[i].high]
             lo == [i \in S |-> r[i].low]
             hiM == [i \in S |-> m[i].high]
             loM == [i \in S |-> m[i].low]
  <2>1. S # {} /\ IsFiniteSet(S) /\ S \in SUBSET (1 .. L) /\ e \in S
    BY <1>1, DaysHaveBars
  <2>2. \A i \in S : /\ hi[i] \in Int /\ lo[i] \in Int
                     /\ loM[i] = Axis - hi[i] /\ hiM[i] = Axis - lo[i]
    <3> HIDE DEF S
    <3>. QED BY <1>4, <2>1 DEF TurnedBar, Numbers
  <2>3. /\ High(r, d) = Max(ValuesOn(hi, S)) /\ Low(r, d) = Min(ValuesOn(lo, S))
        /\ High(m, d) = Max(ValuesOn(hiM, S)) /\ Low(m, d) = Min(ValuesOn(loM, S))
    <3>1. /\ {r[i].high : i \in S} = ValuesOn(hi, S) /\ {r[i].low : i \in S} = ValuesOn(lo, S)
          /\ {m[i].high : i \in S} = ValuesOn(hiM, S) /\ {m[i].low : i \in S} = ValuesOn(loM, S)
      <4> HIDE DEF S
      <4>. QED BY DEF ValuesOn
    <3>. QED BY <3>1
  <2> HIDE DEF S, hi, lo, hiM, loM
  <2>4. Max(ValuesOn(hi, S)) \in Int /\ Min(ValuesOn(loM, S)) = Axis - Max(ValuesOn(hi, S))
    <3>1. Flips(loM, hi, S)
      BY <2>2 DEF Flips
    <3>. QED BY <2>1, <3>1, ExtremesTurn
  <2>5. Min(ValuesOn(lo, S)) \in Int /\ Max(ValuesOn(hiM, S)) = Axis - Min(ValuesOn(lo, S))
    <3>1. Flips(hiM, lo, S)
      BY <2>2 DEF Flips
    <3>. QED BY <2>1, <3>1, ExtremesTurn
  <2>6. /\ High(r, d) \in Int /\ Low(r, d) \in Int
        /\ High(m, d) = Axis - Low(r, d) /\ Low(m, d) = Axis - High(r, d)
    BY <2>3, <2>4, <2>5
  <2>7. /\ r[e].close \in Int /\ r[e].atrDay \in Int /\ r[e].emaDay \in Int
        /\ m[e].close = Axis - r[e].close /\ m[e].atrDay = r[e].atrDay
        /\ m[e].emaDay = -r[e].emaDay
    <3>1. e \in 1 .. L
      BY <2>1
    <3> HIDE DEF e
    <3>. QED BY <1>4, <3>1 DEF TurnedBar, Left, Numbers
  <2> HIDE DEF e
  <2> DEFINE hr == High(r, d)
             lr == Low(r, d)
             hm == High(m, d)
             lm == Low(m, d)
  <2>8. /\ Day(m, d) = [high |-> hm, low |-> lm, close |-> m[e].close,
                        atr |-> m[e].atrDay, ema |-> m[e].emaDay]
        /\ Day(r, d) = [high |-> hr, low |-> lr, close |-> r[e].close,
                        atr |-> r[e].atrDay, ema |-> r[e].emaDay]
    BY DEF e
  <2>9. hr \in Int /\ lr \in Int /\ hm = Axis - lr /\ lm = Axis - hr
    BY <2>6
  <2> HIDE DEF hr, lr, hm, lm, Day
  <2>. QED BY <1>5, <2>7, <2>8, <2>9 DEF DayType, TurnedDay
<1>7. n \in Nat /\ n >= 1
  BY <1>2
<1> HIDE DEF Day, n
<1>8. Days(m) \in [1 .. n -> DayType] /\ Days(r) \in [1 .. n -> DayType]
  BY <1>3, <1>6
<1>9. /\ Days(m) \in Seq(DayType) /\ Days(r) \in Seq(DayType)
      /\ Len(Days(m)) = n /\ Len(Days(r)) = n
  BY <1>7, <1>8
<1>10. \A d \in 1 .. n : TurnedDay(Days(m)[d], Days(r)[d])
  BY <1>3, <1>6
<1>. QED BY <1>7, <1>9, <1>10 DEF DaysMirror
\* A distance has no sign.
LEMMA AbsSame == \A d \in Int : Abs(-d) = Abs(d)
<1>. SUFFICES ASSUME NEW d \in Int PROVE Abs(-d) = Abs(d)
  OBVIOUS
<1>1. {-d, -(-d)} = {d, -d}
  OBVIOUS
<1>. QED BY <1>1 DEF Abs

\* As near to a swing, up or down.
LEMMA SameSwing ==
  ASSUME NEW p, NEW q, DaysMirror(p, q), Len(q) >= 1
  PROVE  CalcNearSwing(p) = CalcNearSwing(q)
<1> DEFINE L == Len(q)
           w == settings.NEAR_SWING_WINDOW
           k == Older(q, w)
           x == Recent(p, w)
           y == Recent(q, w)
           n == L - k
           D == 1 .. n
<1>1. /\ p \in Seq(DayType) /\ q \in Seq(DayType) /\ Len(p) = L /\ L \in Nat \ {0}
      /\ L \in 1 .. L /\ w \in Nat \ {0}
  BY IndicatorsAssumption DEF DaysMirror
<1>2. /\ k \in 0 .. L /\ DOMAIN y = D /\ \A i \in D : y[i] = q[i + k]
  BY <1>1, RecentIs
<1>3. DOMAIN x = D /\ \A i \in D : x[i] = p[i + k]
  <2>1. Older(p, w) = k
    BY <1>1 DEF Older
  <2>2. DOMAIN x = 1 .. Len(p) - Older(p, w)
        /\ \A i \in 1 .. Len(p) - Older(p, w) : x[i] = p[i + Older(p, w)]
    BY <1>1, RecentIs
  <2>. QED BY <1>1, <2>1, <2>2
<1>4. k < L
  BY <1>1 DEF Older
<1>5. Axis \in Int
  BY ScanAssumption
<1>6. \A i \in 1 .. L : /\ q[i].high \in Int /\ q[i].low \in Int /\ q[i].close \in Int
                        /\ p[i].high = Axis - q[i].low /\ p[i].low = Axis - q[i].high
                        /\ p[i].close = Axis - q[i].close /\ p[i].atr = q[i].atr
  <2>1. \A i \in 1 .. L : q[i] \in DayType /\ TurnedDay(p[i], q[i])
    BY <1>1 DEF DaysMirror
  <2>. QED BY <2>1 DEF DayType, TurnedDay
<1> HIDE DEF x, y, k, L, w
<1>7. n \in Nat /\ D # {} /\ IsFiniteSet(D) /\ \A i \in D : i + k \in 1 .. L
  <2>1. n \in Nat /\ n >= 1
    BY <1>1, <1>2, <1>4
  <2>2. IsFiniteSet(D)
    BY <2>1, FS_Interval
  <2>3. 1 \in D
    BY <2>1
  <2>4. \A i \in D : i + k \in 1 .. L
    BY <1>1, <1>2
  <2>. QED BY <2>1, <2>2, <2>3, <2>4
<1> DEFINE hi == [i \in D |-> y[i].high]
           lo == [i \in D |-> y[i].low]
           hiM == [i \in D |-> x[i].high]
           loM == [i \in D |-> x[i].low]
           top1 == Max(ValuesOn(hi, D))
           low1 == Min(ValuesOn(lo, D))
           top2 == Max(ValuesOn(hiM, D))
           low2 == Min(ValuesOn(loM, D))
           close == q[L].close
           last == p[L].close
           atr == CalcAtr(q)
           Close(c, level) == 100 * Abs(c - level) <= atr * settings.NEAR_SWING_ATR_MULT
<1>8. \A i \in D : /\ hi[i] \in Int /\ lo[i] \in Int
                   /\ loM[i] = Axis - hi[i] /\ hiM[i] = Axis - lo[i]
  <2> HIDE DEF D
  <2>. QED BY <1>2, <1>3, <1>6, <1>7
<1>9. /\ ValuesOn(hi, D) = {y[i].high : i \in D} /\ ValuesOn(lo, D) = {y[i].low : i \in D}
      /\ ValuesOn(hiM, D) = {x[i].high : i \in D} /\ ValuesOn(loM, D) = {x[i].low : i \in D}
  <2> HIDE DEF D
  <2>. QED BY DEF ValuesOn
<1>10. CalcAtr(p) = atr
  <2>1. Last(p) = p[L] /\ Last(q) = q[L]
    BY <1>1 DEF Last, L
  <2>2. p[L].atr = q[L].atr
    BY <1>1, <1>6
  <2>. QED BY <1>1, <2>1, <2>2 DEF CalcAtr, L
<1>11. Last(p).close = last /\ Last(q).close = close
  BY <1>1 DEF Last, L
<1>12. CalcNearSwing(q) = (/\ L >= w /\ atr # 0
                           /\ Close(close, top1) \/ Close(close, low1))
  BY <1>2, <1>9, <1>11 DEF CalcNearSwing, y, w, L
<1>13. CalcNearSwing(p) = (/\ L >= w /\ atr # 0
                           /\ Close(last, top2) \/ Close(last, low2))
  BY <1>1, <1>3, <1>9, <1>10, <1>11 DEF CalcNearSwing, x, w
<1>14. close \in Int /\ last = Axis - close
  BY <1>1, <1>6
<1> HIDE DEF hi, lo, hiM, loM, D, close, last, atr
<1>15. top1 \in Int /\ low2 = Axis - top1
  <2>1. Flips(loM, hi, D)
    BY <1>8 DEF Flips
  <2>. QED BY <1>7, <2>1, ExtremesTurn
<1>16. low1 \in Int /\ top2 = Axis - low1
  <2>1. Flips(hiM, lo, D)
    BY <1>8 DEF Flips
  <2>. QED BY <1>7, <2>1, ExtremesTurn
<1> HIDE DEF top1, top2, low1, low2
<1>17. Abs(last - top2) = Abs(close - low1) /\ Abs(last - low2) = Abs(close - top1)
  <2>1. close - low1 \in Int /\ close - top1 \in Int
    BY <1>14, <1>15, <1>16
  <2>2. last - top2 = -(close - low1)
    BY <1>5, <1>14, <1>16
  <2>3. last - low2 = -(close - top1)
    BY <1>5, <1>14, <1>15
  <2>4. Abs(-(close - low1)) = Abs(close - low1) /\ Abs(-(close - top1)) = Abs(close - top1)
    BY <2>1, AbsSame
  <2>. QED BY <2>2, <2>3, <2>4
<1>. QED BY <1>12, <1>13, <1>17

\* The daily trend of the other side.
LEMMA TurnedDays ==
  ASSUME NEW p, NEW q, DaysMirror(p, q), Len(q) >= 1
  PROVE  Facing(CalcDailyTrend(p), CalcDailyTrend(q), "up", "down")
<1> DEFINE L == Len(q)
<1>1. Len(p) = L /\ L \in Nat /\ L \in 1 .. L
  BY DEF DaysMirror
<1>2. q[L] \in DayType /\ TurnedDay(p[L], q[L])
  BY <1>1 DEF DaysMirror
<1>3. Last(q).ema \in Int /\ Last(p).ema = -Last(q).ema
  BY <1>1, <1>2 DEF Last, DayType, TurnedDay
<1>. QED BY <1>1, <1>3 DEF CalcDailyTrend, Facing
----------------------------------------------------------------------------
(* The verdict on the mirror image. *)

\* A value that may be missing, and the one on the other side of its balance.
Across(v, w, sum) ==
  \/ v = {} /\ w = {}
  \/ \E n \in Int : v = {sum - n} /\ w = {n}

\* All that the score and the direction are made of.
Reverses(x, y) ==
  /\ x.volume_spike = y.volume_spike /\ x.bb_squeeze = y.bb_squeeze
  /\ x.near_swing = y.near_swing /\ x.liq_spike = y.liq_spike
  /\ x.oi_trend = y.oi_trend /\ x.oi_change_4h = y.oi_change_4h
  /\ Facing(x.ema_cross, y.ema_cross, "golden", "death")
  /\ Facing(x.rsi_divergence, y.rsi_divergence, "bullish", "bearish")
  /\ Facing(x.macd, y.macd, "bullish", "bearish")
  /\ Facing(x.cvd_price_divergence, y.cvd_price_divergence, "bullish", "bearish")
  /\ Facing(x.daily_trend, y.daily_trend, "up", "down")
  /\ Facing(x.vwap_bias, y.vwap_bias, "above", "below")
  /\ Facing(x.cvd_trend, y.cvd_trend, "rising", "falling")
  /\ Facing(x.funding_bias, y.funding_bias, "long_heavy", "short_heavy")
  /\ Facing(x.oi_weighted_funding_bias, y.oi_weighted_funding_bias, "long_heavy", "short_heavy")
  /\ Across(x.rsi_level, y.rsi_level, 100)
  /\ Across(x.long_short_ratio, y.long_short_ratio, 0)
  /\ Across(x.top_trader_ls_ratio, y.top_trader_ls_ratio, 0)
  /\ Across(x.basis, y.basis, 0)

\* Beyond one of two thresholds that lie on both sides of 0, or beyond the other.
LEMMA LevelsFace ==
  ASSUME NEW t \in Nat \ {0}, NEW v, NEW w, Across(v, w, 0)
  PROVE  Facing(Extreme(v, -t, t), Extreme(w, -t, t), "high", "low")
<1>1. CASE v = {} /\ w = {}
  BY <1>1 DEF Extreme, Facing
<1>2. CASE \E n \in Int : v = {0 - n} /\ w = {n}
  <2>1. PICK n \in Int : v = {0 - n} /\ w = {n}
    BY <1>2
  <2>. QED BY <2>1 DEF Extreme, Facing
<1>. QED BY <1>1, <1>2 DEF Across

\* The RSI is extreme in the mirror where it is.
LEMMA RsiFaces ==
  ASSUME NEW v, NEW w, Across(v, w, 100)
  PROVE  (Image!Extreme(v, Opposed.RSI_OVERSOLD, Opposed.RSI_OVERBOUGHT) # "none")
           = (Extreme(w, settings.RSI_OVERSOLD, settings.RSI_OVERBOUGHT) # "none")
<1> DEFINE b == settings.RSI_OVERBOUGHT
           o == settings.RSI_OVERSOLD
<1>1. /\ b \in Int /\ o \in Int
      /\ Opposed.RSI_OVERBOUGHT = 100 - o /\ Opposed.RSI_OVERSOLD = 100 - b
  BY IndicatorsAssumption, OpposedSettings
<1> HIDE DEF b, o
<1>2. (Image!Extreme(v, 100 - b, 100 - o) # "none") = (Extreme(w, o, b) # "none")
  <2>1. CASE v = {} /\ w = {}
    BY <2>1 DEF Extreme, Image!Extreme
  <2>2. CASE \E n \in Int : v = {100 - n} /\ w = {n}
    <3>1. PICK n \in Int : v = {100 - n} /\ w = {n}
      BY <2>2
    <3>. QED BY <1>1, <3>1 DEF Extreme, Image!Extreme
  <2>. QED BY <2>1, <2>2 DEF Across
<1>. QED BY <1>1, <1>2 DEF b, o

\* The levels of the crowd and of the top traders.
LEMMA CrowdFaces ==
  ASSUME NEW v, NEW w, Across(v, w, 0)
  PROVE  Facing(Image!Crowd(v), Crowd(w), "high", "low")
<1> DEFINE h == settings.LS_RATIO_HIGH
           k == settings.LS_RATIO_LOW
<1>1. /\ h \in Int /\ h > 0 /\ k \in Int /\ k < 0
      /\ Opposed.LS_RATIO_HIGH = -k /\ Opposed.LS_RATIO_LOW = -h
  BY IndicatorsAssumption, OpposedSettings
<1> HIDE DEF h, k
<1>2. Facing(Image!Extreme(v, -h, -k), Extreme(w, k, h), "high", "low")
  <2>1. CASE v = {} /\ w = {}
    BY <2>1 DEF Extreme, Image!Extreme, Facing
  <2>2. CASE \E n \in Int : v = {0 - n} /\ w = {n}
    <3>1. PICK n \in Int : v = {0 - n} /\ w = {n}
      BY <2>2
    <3>. QED BY <1>1, <3>1 DEF Extreme, Image!Extreme, Facing
  <2>. QED BY <2>1, <2>2 DEF Across
<1>. QED BY <1>1, <1>2 DEF Crowd, Image!Crowd, h, k

\* All votes are for the other side.
LEMMA VotesReverse ==
  ASSUME NEW x, NEW y, Reverses(x, y)
  PROVE  Image!ComputeDirection(x) = Opposite(ComputeDirection(y))
<1> DEFINE V(s, up, down) == Vote(s, up, down)
           Cancels(v, w) == v \in Int /\ w \in Int /\ v = -w
<1>1. Cancels(Image!TrendVotes(x), TrendVotes(y))
  <2>1. /\ Cancels(V(x.ema_cross, "golden", "death"), V(y.ema_cross, "golden", "death"))
        /\ Cancels(V(x.rsi_divergence, "bullish", "bearish"), V(y.rsi_divergence, "bullish", "bearish"))
        /\ Cancels(V(x.macd, "bullish", "bearish"), V(y.macd, "bullish", "bearish"))
        /\ Cancels(V(x.cvd_price_divergence, "bullish", "bearish"),
                   V(y.cvd_price_divergence, "bullish", "bearish"))
    BY DEF Reverses, Facing, Vote
  <2>2. /\ Cancels(V(x.daily_trend, "up", "down"), V(y.daily_trend, "up", "down"))
        /\ Cancels(V(x.vwap_bias, "above", "below"), V(y.vwap_bias, "above", "below"))
        /\ Cancels(V(x.cvd_trend, "rising", "falling"), V(y.cvd_trend, "rising", "falling"))
    BY DEF Reverses, Facing, Vote
  <2>. QED BY <2>1, <2>2 DEF TrendVotes, Image!TrendVotes, Vote, Image!Vote
<1>2. Cancels(Image!CrowdVotes(x), CrowdVotes(y))
  <2>1. Facing(Image!Crowd(x.long_short_ratio), Crowd(y.long_short_ratio), "high", "low")
    BY CrowdFaces DEF Reverses
  <2>2. Cancels(V(Image!Crowd(x.long_short_ratio), "low", "high"), V(Crowd(y.long_short_ratio), "low", "high"))
    BY <2>1 DEF Facing, Vote
  <2> DEFINE e == Image!EffectiveFunding(x.oi_weighted_funding_bias, x.funding_bias)
             h == EffectiveFunding(y.oi_weighted_funding_bias, y.funding_bias)
  <2>3. Facing(e, h, "long_heavy", "short_heavy")
    BY DEF Reverses, Facing, EffectiveFunding, Image!EffectiveFunding
  <2>4. Cancels(V(e, "short_heavy", "long_heavy"), V(h, "short_heavy", "long_heavy"))
    <3> HIDE DEF e, h
    <3>. QED BY <2>3 DEF Facing, Vote
  <2>. QED BY <2>2, <2>4 DEF CrowdVotes, Image!CrowdVotes, Vote, Image!Vote
<1>3. Cancels(Image!SmartVotes(x), SmartVotes(y))
  <2> DEFINE t == settings.BASIS_CONTANGO_THRESHOLD
  <2>1. t \in Nat \ {0} /\ Opposed.BASIS_CONTANGO_THRESHOLD = t
    BY IndicatorsAssumption, OpposedSettings
  <2>2. Facing(Image!Crowd(x.top_trader_ls_ratio), Crowd(y.top_trader_ls_ratio), "high", "low")
    BY CrowdFaces DEF Reverses
  <2>3. Facing(Extreme(x.basis, -t, t), Extreme(y.basis, -t, t), "high", "low")
    <3> HIDE DEF t
    <3>. QED BY <2>1, LevelsFace DEF Reverses
  <2>4. /\ Cancels(V(Image!Crowd(x.top_trader_ls_ratio), "high", "low"),
                   V(Crowd(y.top_trader_ls_ratio), "high", "low"))
        /\ Cancels(V(Extreme(x.basis, -t, t), "high", "low"), V(Extreme(y.basis, -t, t), "high", "low"))
    BY <2>2, <2>3 DEF Facing, Vote
  <2>5. Image!Extreme(x.basis, -t, t) = Extreme(x.basis, -t, t)
    BY DEF Extreme, Image!Extreme
  <2>. QED BY <2>1, <2>4, <2>5 DEF SmartVotes, Image!SmartVotes, Vote, Image!Vote
<1> DEFINE a1 == Image!TrendVotes(x) + Image!CrowdVotes(x) + Image!SmartVotes(x)
           a2 == TrendVotes(y) + CrowdVotes(y) + SmartVotes(y)
           n == settings.DIRECTION_VOTE_THRESHOLD
<1>4. a2 \in Int /\ a1 = -a2 /\ n \in Nat \ {0}
  BY <1>1, <1>2, <1>3, IndicatorsAssumption
<1>5. /\ Image!ComputeDirection(x) = IF a1 >= n THEN "long" ELSE IF a1 <= -n THEN "short" ELSE "mixed"
      /\ ComputeDirection(y) = IF a2 >= n THEN "long" ELSE IF a2 <= -n THEN "short" ELSE "mixed"
  <2>1. a1 \in Int /\ a2 \in Int /\ n \in Nat \ {0}
    BY <1>4
  <2>2. /\ Image!ComputeDirection(x) = CASE a1 >= n -> "long" [] a1 <= -n -> "short" [] OTHER -> "mixed"
        /\ ComputeDirection(y) = CASE a2 >= n -> "long" [] a2 <= -n -> "short" [] OTHER -> "mixed"
    BY OpposedSettings DEF ComputeDirection, Image!ComputeDirection
  <2> HIDE DEF a1, a2, n
  <2>. QED BY <2>1, <2>2
<1> HIDE DEF a1, a2, n
<1>. QED BY <1>4, <1>5 DEF Opposite

\* The same criteria are met.
LEMMA ScoresReverse ==
  ASSUME NEW x, NEW y, Reverses(x, y)
  PROVE  Image!ComputeScore(x) = ComputeScore(y)
<1>1. /\ (x.ema_cross # "none") = (y.ema_cross # "none")
      /\ (x.rsi_divergence # "none") = (y.rsi_divergence # "none")
      /\ (x.macd # "none") = (y.macd # "none")
      /\ (x.cvd_price_divergence # "none") = (y.cvd_price_divergence # "none")
  BY DEF Reverses, Facing
<1>2. (Image!Extreme(x.rsi_level, Opposed.RSI_OVERSOLD, Opposed.RSI_OVERBOUGHT) # "none")
        = (Extreme(y.rsi_level, settings.RSI_OVERSOLD, settings.RSI_OVERBOUGHT) # "none")
  BY RsiFaces DEF Reverses
<1>3. /\ (Image!Crowd(x.long_short_ratio) # "none") = (Crowd(y.long_short_ratio) # "none")
      /\ (Image!Crowd(x.top_trader_ls_ratio) # "none") = (Crowd(y.top_trader_ls_ratio) # "none")
  <2>1. /\ Facing(Image!Crowd(x.long_short_ratio), Crowd(y.long_short_ratio), "high", "low")
        /\ Facing(Image!Crowd(x.top_trader_ls_ratio), Crowd(y.top_trader_ls_ratio), "high", "low")
    BY CrowdFaces DEF Reverses
  <2>. QED BY <2>1 DEF Facing
<1>4. (<<x.daily_trend, x.vwap_bias>> \in {<<"up", "above">>, <<"down", "below">>})
        = (<<y.daily_trend, y.vwap_bias>> \in {<<"up", "above">>, <<"down", "below">>})
  BY DEF Reverses, Facing
<1>5. (x.funding_bias # "neutral" \/ x.oi_weighted_funding_bias # "neutral")
        = (y.funding_bias # "neutral" \/ y.oi_weighted_funding_bias # "neutral")
  BY DEF Reverses, Facing
<1>6. /\ x.volume_spike = y.volume_spike /\ x.bb_squeeze = y.bb_squeeze
      /\ x.near_swing = y.near_swing /\ x.liq_spike = y.liq_spike
      /\ x.oi_trend = y.oi_trend /\ x.oi_change_4h = y.oi_change_4h
  BY DEF Reverses
<1>7. Opposed.OI_CHANGE_4H_SCORE_PCT = settings.OI_CHANGE_4H_SCORE_PCT
      /\ \A n : Image!Abs(n) = Abs(n)
  BY OpposedSettings, ImageTools
<1>8. Image!Criteria(x) = Criteria(y)
  BY <1>1, <1>2, <1>3, <1>4, <1>5, <1>6, <1>7, Zenon DEF Criteria, Image!Criteria
<1>. QED BY <1>8 DEF ComputeScore, Image!ComputeScore, Cardinality, Image!Cardinality

\* The signals of the derivatives are those of the image, with any calls failing.
LEMMA TurnedDerivatives ==
  ASSUME NEW m, NEW r, Mirrors(m, r), r # <<>>, NEW failed
  PROVE  LET x == Signals(m, failed)
             y == Signals(r, failed)
             z == Image!Signals(m, failed)
         IN  /\ x.liq_spike = y.liq_spike /\ x.oi_trend = y.oi_trend
             /\ Facing(z.funding_bias, y.funding_bias, "long_heavy", "short_heavy")
             /\ Facing(z.oi_weighted_funding_bias, y.oi_weighted_funding_bias,
                       "long_heavy", "short_heavy")
             /\ Across(x.rsi_level, y.rsi_level, 100)
             /\ Across(x.long_short_ratio, y.long_short_ratio, 0)
             /\ Across(x.top_trader_ls_ratio, y.top_trader_ls_ratio, 0)
             /\ Across(x.basis, y.basis, 0)
<1> DEFINE x == Signals(m, failed)
           y == Signals(r, failed)
           z == Image!Signals(m, failed)
           L == Len(r)
<1>1. /\ L \in Nat /\ Len(m) = L /\ DOMAIN m = 1 .. L /\ DOMAIN r = 1 .. L
      /\ L \in 1 .. L /\ Last(m) = m[L] /\ Last(r) = r[L] /\ m # <<>>
  <2>1. /\ L \in Nat /\ Len(m) = L /\ DOMAIN m = 1 .. L /\ DOMAIN r = 1 .. L
        /\ L \in 1 .. L /\ Last(m) = m[L] /\ Last(r) = r[L]
    BY MirrorEnds
  <2>2. m # <<>>
    BY <2>1
  <2>. QED BY <2>1, <2>2
<1>2. \A i \in 1 .. L : TurnedBar(m[i], r[i]) /\ Left(m[i], r[i]) /\ Numbers(r[i])
  BY DEF Mirrors
<1>3. x.liq_spike = y.liq_spike
  <2> DEFINE Taken(s) == [i \in DOMAIN s |-> s[i].liquidated]
  <2>1. /\ x.liq_spike = CalcLiquidationSpike(Taken(Points(m, "liquidation", failed)))
        /\ y.liq_spike = CalcLiquidationSpike(Taken(Points(r, "liquidation", failed)))
    BY DEF Signals
  <2>2. Taken(m) = Taken(r)
    BY <1>1, <1>2 DEF Left
  <2> HIDE DEF Taken
  <2>3. Taken(Points(m, "liquidation", failed)) = Taken(Points(r, "liquidation", failed))
    BY <2>2 DEF Points
  <2>. QED BY <2>1, <2>3
<1>4. x.oi_trend = y.oi_trend
  <2>1. [i \in DOMAIN m |-> m[i].oi] = [i \in DOMAIN r |-> r[i].oi]
    BY <1>1, <1>2 DEF Left
  <2>2. /\ x.oi_trend = CalcOiTrend([i \in DOMAIN m |-> m[i].oi])
        /\ y.oi_trend = CalcOiTrend([i \in DOMAIN r |-> r[i].oi])
    BY DEF Signals
  <2>. QED BY <2>1, <2>2
<1>5. Facing(z.funding_bias, y.funding_bias, "long_heavy", "short_heavy")
  <2> DEFINE g == [i \in DOMAIN m |-> m[i].funding]
             f == [i \in DOMAIN r |-> r[i].funding]
  <2>1. z.funding_bias = Image!FundingBias(g) /\ y.funding_bias = FundingBias(f)
    BY DEF Signals, Image!Signals
  <2>2. f = [i \in 1 .. L |-> f[i]] /\ g = [i \in 1 .. L |-> g[i]]
    BY <1>1
  <2>3. \A i \in 1 .. L : f[i] \in Int /\ g[i] = -f[i]
    BY <1>1, <1>2 DEF TurnedBar, Numbers
  <2> HIDE DEF f, g, L
  <2>4. Negates(g, f, L)
    BY <1>1, <2>2, <2>3, NegatesIf
  <2>. QED BY <2>1, <2>4, TurnedFunding
<1>6. Facing(z.oi_weighted_funding_bias, y.oi_weighted_funding_bias, "long_heavy", "short_heavy")
  <2> DEFINE Weights(s) == [i \in DOMAIN s |-> s[i].weighted]
             g == Weights(m)
             f == Weights(r)
  <2>1. /\ z.oi_weighted_funding_bias = Image!FundingBias(Weights(Points(m, "oi_funding", failed)))
        /\ y.oi_weighted_funding_bias = FundingBias(Weights(Points(r, "oi_funding", failed)))
    BY DEF Signals, Image!Signals, Points, Image!Points
  <2>2. f = [i \in 1 .. L |-> f[i]] /\ g = [i \in 1 .. L |-> g[i]]
    BY <1>1
  <2>3. \A i \in 1 .. L : f[i] \in Int /\ g[i] = -f[i]
    BY <1>1, <1>2 DEF TurnedBar, Numbers
  <2> HIDE DEF L, Weights
  <2>4. Facing(Image!FundingBias(g), FundingBias(f), "long_heavy", "short_heavy")
    <3> HIDE DEF f, g
    <3>1. Negates(g, f, L)
      BY <1>1, <2>2, <2>3, NegatesIf
    <3>. QED BY <3>1, TurnedFunding
  <2>5. CASE "oi_funding" \in failed
    BY <2>1, <2>5 DEF Points, FundingBias, Image!FundingBias, Weights, Facing
  <2>6. CASE "oi_funding" \notin failed
    BY <2>1, <2>4, <2>6 DEF Points
  <2>. QED BY <2>5, <2>6
<1>7. /\ m[L].rsi = 100 - r[L].rsi /\ r[L].rsi \in Int
      /\ m[L].ls = -r[L].ls /\ r[L].ls \in Int /\ m[L].top = -r[L].top /\ r[L].top \in Int
      /\ m[L].basis = -r[L].basis /\ r[L].basis \in Int
  <2>1. TurnedBar(m[L], r[L]) /\ Numbers(r[L])
    BY <1>1, <1>2
  <2>. QED BY <2>1 DEF TurnedBar, Numbers
<1>8. Across(x.rsi_level, y.rsi_level, 100)
  <2>1. x.rsi_level = CalcRsiLevel(m) /\ y.rsi_level = CalcRsiLevel(r)
    BY DEF Signals
  <2> DEFINE n == r[L].rsi
             few == L < periods.RSI + 1
  <2>2. n \in Int /\ Last(m).rsi = 100 - n /\ Last(r).rsi = n
    BY <1>1, <1>7
  <2>3. /\ CalcRsiLevel(m) = IF few THEN {} ELSE {Last(m).rsi}
        /\ CalcRsiLevel(r) = IF few THEN {} ELSE {Last(r).rsi}
    BY <1>1 DEF CalcRsiLevel
  <2> HIDE DEF n, few, x, y, z
  <2>. QED BY <2>1, <2>2, <2>3 DEF Across
<1>9. Across(x.long_short_ratio, y.long_short_ratio, 0)
  <2>1. x.long_short_ratio = {Last(m).ls} /\ y.long_short_ratio = {Last(r).ls}
    BY DEF Signals
  <2> DEFINE n == r[L].ls
  <2>2. n \in Int /\ x.long_short_ratio = {0 - n} /\ y.long_short_ratio = {n}
    BY <1>1, <1>7, <2>1
  <2> HIDE DEF n, x, y, z
  <2>. QED BY <2>2 DEF Across
<1>10. Across(x.top_trader_ls_ratio, y.top_trader_ls_ratio, 0)
  <2>1. /\ x.top_trader_ls_ratio = IF "top_position_ratio" \in failed THEN {} ELSE {Last(m).top}
        /\ y.top_trader_ls_ratio = IF "top_position_ratio" \in failed THEN {} ELSE {Last(r).top}
    BY <1>1 DEF Signals, Points, Optional
  <2> DEFINE n == r[L].top
  <2>2. n \in Int /\ Last(m).top = 0 - n /\ Last(r).top = n
    BY <1>1, <1>7
  <2> HIDE DEF n, x, y, z
  <2>3. \/ x.top_trader_ls_ratio = {} /\ y.top_trader_ls_ratio = {}
        \/ x.top_trader_ls_ratio = {0 - n} /\ y.top_trader_ls_ratio = {n}
    BY <2>1, <2>2
  <2>. QED BY <2>2, <2>3 DEF Across
<1>11. Across(x.basis, y.basis, 0)
  <2>1. /\ x.basis = IF "basis" \in failed THEN {} ELSE {Last(m).basis}
        /\ y.basis = IF "basis" \in failed THEN {} ELSE {Last(r).basis}
    BY <1>1 DEF Signals, Points, Optional
  <2> DEFINE n == r[L].basis
  <2>2. n \in Int /\ Last(m).basis = 0 - n /\ Last(r).basis = n
    BY <1>1, <1>7
  <2> HIDE DEF n, x, y, z
  <2>3. \/ x.basis = {} /\ y.basis = {}
        \/ x.basis = {0 - n} /\ y.basis = {n}
    BY <2>1, <2>2
  <2>. QED BY <2>2, <2>3 DEF Across
<1>. QED BY <1>3, <1>4, <1>5, <1>6, <1>8, <1>9, <1>10, <1>11

\* What the opposite screener sees in the image faces what the screener sees in the
\* market, where no tie is left to break.
LEMMA SignalsReverse ==
  ASSUME NEW m, NEW r, Mirrors(m, r), Decided(r), NEW failed
  PROVE  Reverses(Image!Signals(m, failed), Signals(r, failed))
<1> DEFINE x == Signals(m, failed)
           y == Signals(r, failed)
           z == Image!Signals(m, failed)
           xs == Recent(m, settings.CVD_CANDLES)
           ys == Recent(r, settings.CVD_CANDLES)
           d == KlinesToCvd([i \in DOMAIN xs |-> xs[i].flow])
           c == KlinesToCvd([i \in DOMAIN ys |-> ys[i].flow])
<1>1. /\ r # <<>> /\ OverVwap(r) # 0 /\ ~ (RsiBullish(r) /\ RsiBearish(r))
  BY DEF Decided
<1>2. /\ x.volume_spike = y.volume_spike /\ x.bb_squeeze = y.bb_squeeze
      /\ x.oi_change_4h = y.oi_change_4h
  <2>1. /\ x.volume_spike = CalcVolumeSpike(m) /\ y.volume_spike = CalcVolumeSpike(r)
        /\ x.bb_squeeze = CalcBbSqueeze(m) /\ y.bb_squeeze = CalcBbSqueeze(r)
        /\ x.oi_change_4h = CalcOiChange4h(m) /\ y.oi_change_4h = CalcOiChange4h(r)
    BY DEF Signals
  <2>. QED BY <1>1, <2>1, SameCandles
<1>3. /\ x.liq_spike = y.liq_spike /\ x.oi_trend = y.oi_trend
      /\ Facing(z.funding_bias, y.funding_bias, "long_heavy", "short_heavy")
      /\ Facing(z.oi_weighted_funding_bias, y.oi_weighted_funding_bias, "long_heavy", "short_heavy")
      /\ Across(x.rsi_level, y.rsi_level, 100)
      /\ Across(x.long_short_ratio, y.long_short_ratio, 0)
      /\ Across(x.top_trader_ls_ratio, y.top_trader_ls_ratio, 0)
      /\ Across(x.basis, y.basis, 0)
  BY <1>1, TurnedDerivatives
<1>4. /\ x.near_swing = y.near_swing
      /\ Facing(x.daily_trend, y.daily_trend, "up", "down")
  <2>1. /\ x.near_swing = CalcNearSwing(Days(m)) /\ y.near_swing = CalcNearSwing(Days(r))
        /\ x.daily_trend = CalcDailyTrend(Days(m)) /\ y.daily_trend = CalcDailyTrend(Days(r))
    BY DEF Signals
  <2>2. DaysMirror(Days(m), Days(r)) /\ Len(Days(r)) >= 1
    BY <1>1, DaysTurn
  <2>. QED BY <2>1, <2>2, SameSwing, TurnedDays
<1>5. /\ Facing(x.ema_cross, y.ema_cross, "golden", "death")
      /\ Facing(x.macd, y.macd, "bullish", "bearish")
  <2>1. /\ x.ema_cross = CalcEmaCross(m) /\ y.ema_cross = CalcEmaCross(r)
        /\ x.macd = CalcMacd(m) /\ y.macd = CalcMacd(r)
    BY DEF Signals
  <2>. QED BY <1>1, <2>1, TurnedCandles
<1>6. /\ Facing(x.rsi_divergence, y.rsi_divergence, "bullish", "bearish")
      /\ Facing(x.vwap_bias, y.vwap_bias, "above", "below")
  <2>1. /\ x.rsi_divergence = CalcRsiDivergence(m) /\ y.rsi_divergence = CalcRsiDivergence(r)
        /\ x.vwap_bias = CalcVwapBias(m) /\ y.vwap_bias = CalcVwapBias(r)
    BY DEF Signals
  <2>. QED BY <1>1, <2>1, TurnedRsi, TurnedVwap
<1>7. /\ Facing(x.cvd_trend, y.cvd_trend, "rising", "falling")
      /\ Facing(x.cvd_price_divergence, y.cvd_price_divergence, "bullish", "bearish")
  <2>1. /\ x.cvd_trend = CalcCvdTrend(d) /\ y.cvd_trend = CalcCvdTrend(c)
        /\ x.cvd_price_divergence = CalcCvdPriceDivergence(m, d)
        /\ y.cvd_price_divergence = CalcCvdPriceDivergence(r, c)
    BY DEF Signals
  <2>2. /\ Facing(CalcCvdTrend(d), CalcCvdTrend(c), "rising", "falling")
        /\ Facing(CalcCvdPriceDivergence(m, d), CalcCvdPriceDivergence(r, c), "bullish", "bearish")
    BY TurnedCvdPrice
  <2>. QED BY <2>1, <2>2
<1>8. /\ z.volume_spike = x.volume_spike /\ z.bb_squeeze = x.bb_squeeze
      /\ z.near_swing = x.near_swing /\ z.liq_spike = x.liq_spike
      /\ z.oi_trend = x.oi_trend /\ z.oi_change_4h = x.oi_change_4h
      /\ z.ema_cross = x.ema_cross /\ z.rsi_divergence = x.rsi_divergence
      /\ z.macd = x.macd /\ z.cvd_price_divergence = x.cvd_price_divergence
      /\ z.daily_trend = x.daily_trend /\ z.vwap_bias = x.vwap_bias
      /\ z.cvd_trend = x.cvd_trend /\ z.rsi_level = x.rsi_level
      /\ z.long_short_ratio = x.long_short_ratio
      /\ z.top_trader_ls_ratio = x.top_trader_ls_ratio /\ z.basis = x.basis
  BY ImageSignals
<1> HIDE DEF x, y, z
<1>9. Reverses(z, y)
  BY <1>2, <1>3, <1>4, <1>5, <1>6, <1>7, <1>8 DEF Reverses
<1>. QED BY <1>9 DEF z, y

\* Histories are made of bars that are numbers, and so is what may follow them.
MarketFits == market \in [Symbols -> Seq(BarType)]

BarsFit == \A bars \in Seq(BarType) : NextBars(bars) \subseteq BarType

\* Bars are added, nothing else happens to a history.
LEMMA MarketStep ==
  BarsFit /\ MarketFits /\ [ScanNext]_scanVars => MarketFits'
<1> SUFFICES ASSUME BarsFit, MarketFits, [ScanNext]_scanVars PROVE MarketFits'
  OBVIOUS
<1>1. ASSUME NEW s \in Symbols, BarCloses(s) PROVE MarketFits'
  <2>1. PICK bar \in NextBars(market[s]) : market' = [market EXCEPT ![s] = Append(@, bar)]
    BY <1>1 DEF BarCloses
  <2>2. market[s] \in Seq(BarType) /\ bar \in BarType
    BY <2>1 DEF MarketFits, BarsFit
  <2>3. Append(market[s], bar) \in Seq(BarType)
    BY <2>2
  <2>. QED BY <2>1, <2>3 DEF MarketFits
<1>2. ASSUME UNCHANGED market PROVE MarketFits'
  BY <1>2 DEF MarketFits
<1>3. CASE \E s \in Symbols : BarCloses(s)
  BY <1>1, <1>3
<1>4. CASE \E s \in Symbols : Enter(s) \/ Fetch(s) \/ AskCoinGlass(s) \/ FetchBook(s)
                              \/ AskLunarCrush(s)
  BY <1>2, <1>4 DEF Enter, Fetch, AskCoinGlass, FetchBook, AskLunarCrush
<1>5. CASE Begin \/ Finish \/ AskSources \/ HandOver \/ Recover
  BY <1>2, <1>5 DEF Begin, Finish, AskSources, HandOver, Recover
<1>6. CASE UNCHANGED scanVars
  BY <1>2, <1>6 DEF scanVars
<1>. QED BY <1>3, <1>4, <1>5, <1>6 DEF ScanNext

\* All sides that the screener takes are those of its thresholds: whatever the bars are,
\* the opposite market, seen with the opposite thresholds, gets the opposite direction
\* and the same score, with any calls of CoinGlass failing, if no tie is left for the
\* code to break.
THEOREM OppositeMarketsOppositeVerdicts ==
  BarsFit => ((ScanInit /\ MarketFits) /\ [][ScanNext]_scanVars => []MirrorImage)
<1>. SUFFICES ASSUME BarsFit
              PROVE  (ScanInit /\ MarketFits) /\ [][ScanNext]_scanVars => []MirrorImage
  OBVIOUS
<1>1. MarketFits /\ [ScanNext]_scanVars => MarketFits'
  BY MarketStep
<1>2. MarketFits => MirrorImage
  <2>. SUFFICES ASSUME MarketFits, NEW s \in Symbols, Decided(market[s]),
                       NEW failed \in Outages
                PROVE  LET real == Signals(market[s], failed)
                           mirror == Image!Signals([i \in DOMAIN market[s] |->
                                               Mirrored(market[s][i])], failed)
                       IN  /\ Image!ComputeDirection(mirror) = Opposite(ComputeDirection(real))
                           /\ Image!ComputeScore(mirror) = ComputeScore(real)
    BY DEF MirrorImage
  <2> DEFINE r == market[s]
             m == [i \in DOMAIN r |-> Mirrored(r[i])]
             real == Signals(r, failed)
             mirror == Image!Signals(m, failed)
  <2>1. r \in Seq(BarType)
    BY DEF MarketFits
  <2>2. Mirrors(m, r)
    <3> HIDE DEF r
    <3>. QED BY <2>1, ImageMirrors
  <2>3. Decided(r)
    OBVIOUS
  <2> HIDE DEF m, r
  <2>4. Reverses(mirror, real)
    BY <2>2, <2>3, SignalsReverse
  <2> HIDE DEF mirror, real
  <2>5. Image!ComputeDirection(mirror) = Opposite(ComputeDirection(real))
    BY <2>4, VotesReverse
  <2>6. Image!ComputeScore(mirror) = ComputeScore(real)
    BY <2>4, ScoresReverse
  <2>. QED BY <2>5, <2>6 DEF mirror, real, m, r
<1>. QED BY <1>1, <1>2, PTL
=============================================================================
