----------------------------- MODULE ExitProofs -----------------------------
(***************************************************************************)
(* Theorems about ManagedExit and ExitReplay: for every setting of the     *)
(* thresholds, every position and every market.                            *)
(***************************************************************************)
EXTENDS ManagedExit, ExitReplay, FoldTheorems, SequenceTheorems

----------------------------------------------------------------------------
(* Arithmetic of the thresholds, which are multiples of half of R. *)

\* A larger threshold is reached at a larger excursion, for every R.
LEMMA ThresholdOrder ==
  ASSUME NEW a \in Nat, NEW b \in Nat, NEW h \in Nat, a <= b
  PROVE  a * h <= b * h
  BY SMT

\* The distance between two thresholds is their difference times R.
LEMMA ThresholdDifference ==
  ASSUME NEW a \in Int, NEW b \in Int, NEW h \in Int
  PROVE  (a - b) * h = a * h - b * h
  BY SMT

\* The thresholds of a position are natural numbers.
LEMMA Thresholds ==
  ASSUME NEW p \in PositionType
  PROVE  /\ TrailActivation * p.half \in Nat
         /\ BreakevenTrigger * p.half \in Nat
         /\ TrailDistance * p.half \in Nat
         /\ p.half # 0 => TrailActivation * p.half > 0 /\ BreakevenTrigger * p.half > 0
         /\ TrailDistance <= TrailActivation =>
              TrailDistance * p.half <= TrailActivation * p.half
  <1>1. p.half \in Nat
    BY DEF PositionType
  <1>2. \A a \in Nat : a * p.half \in Nat
    BY <1>1, SMT
  <1>3. ASSUME p.half # 0, NEW a \in Nat \ {0} PROVE a * p.half > 0
    BY <1>1, <1>3, ThresholdOrder, SMT
  <1> QED
    BY <1>1, <1>2, <1>3, ThresholdOrder, SettingsAssumption

----------------------------------------------------------------------------
(* One pull of the stop. *)

\* The level belongs to the best price alone, and pulling from the level of
\* an earlier best price gives the level of the new one.
LEMMA PullReachesLevel ==
  ASSUME NEW p \in PositionType, NEW best \in Int, NEW x \in Int,
         TrailDistance <= TrailActivation, p.half # 0,
         Excursion(p, best) >= 0
  PROVE  LET new == Further(p.side, best, x)
         IN LevelOf(p, new) =
              Further(p.side, LevelOf(p, best),
                      TrailedStop(p, LevelOf(p, best), new, Excursion(p, new)))
  <1> DEFINE A == TrailActivation * p.half
             B == BreakevenTrigger * p.half
             D == TrailDistance * p.half
  <1>1. A \in Nat /\ B \in Nat /\ D \in Nat /\ D <= A
    BY Thresholds
  <1>2. p.side \in Sides /\ p.entry \in Int /\ p.stop \in Int
    BY DEF PositionType
  <1> HIDE DEF A, B, D
  <1> DEFINE Trailed(s, b) ==
        IF Excursion(p, b) >= A THEN Behind(p.side, b, D)
        ELSE IF Excursion(p, b) >= B THEN p.entry ELSE s
  <1>3. \A s, b : TrailedStop(p, s, b, Excursion(p, b)) = Trailed(s, b)
    BY DEF TrailedStop, A, B, D
  <1>4. \A b : LevelOf(p, b) = Further(p.side, p.stop, Trailed(p.stop, b))
    BY <1>3, Zenon DEF LevelOf
  <1> DEFINE new == Further(p.side, best, x)
             level == Further(p.side, p.stop, Trailed(p.stop, best))
  <1>5. Further(p.side, p.stop, Trailed(p.stop, new)) =
          Further(p.side, level, Trailed(level, new))
    <2>1. CASE p.side = "long"
      BY <2>1, <1>1, <1>2, SMT DEF Excursion, Behind, Further
    <2>2. CASE p.side = "short"
      BY <2>2, <1>1, <1>2, SMT DEF Excursion, Behind, Further
    <2> QED
      BY <2>1, <2>2, <1>2 DEF Sides
  <1> HIDE DEF Trailed
  <1> QED
    BY <1>3, <1>4, <1>5

\* Before any candle no level but the initial stop is reached.
LEMMA LevelAtEntry ==
  ASSUME NEW p \in PositionType
  PROVE  LevelOf(p, p.entry) = p.stop
  <1>1. p.entry \in Int /\ p.stop \in Int /\ p.side \in Sides
    BY DEF PositionType
  <1>2. Excursion(p, p.entry) = 0
    BY <1>1 DEF Excursion
  <1>3. p.half # 0 => TrailedStop(p, p.stop, p.entry, 0) = p.stop
    BY Thresholds, SMT DEF TrailedStop
  <1>4. Further(p.side, p.stop, p.stop) = p.stop
    BY DEF Further
  <1> QED
    BY <1>2, <1>3, <1>4 DEF LevelOf

\* What one pull of the stop does to the locals of the walk.
LEMMA PullStopStep ==
  ASSUME NEW p \in PositionType, NEW w \in WalkType, NEW c \in CandleType,
         Excursion(p, w.best) >= 0,
         w.mfe = IF p.half = 0 THEN 0 ELSE Excursion(p, w.best),
         AtLeast(p.side, w.stop, p.stop)
  PROVE  LET v == PullStop(p, w, c)
         IN /\ v \in WalkType
            /\ v.exit = w.exit
            /\ v.best = Further(p.side, w.best, BestOf(p, c))
            /\ Excursion(p, v.best) >= 0
            /\ v.mfe = IF p.half = 0 THEN 0 ELSE Excursion(p, v.best)
            /\ v.stop = IF p.half = 0 THEN w.stop
                        ELSE Further(p.side, w.stop,
                                     TrailedStop(p, w.stop, v.best, Excursion(p, v.best)))
            /\ AtLeast(p.side, v.stop, w.stop)
            /\ AtLeast(p.side, v.stop, p.stop)
  <1> DEFINE v == PullStop(p, w, c)
             best == Further(p.side, w.best, BestOf(p, c))
             cand == TrailedStop(p, w.stop, best, Excursion(p, best))
  <1>1. /\ p.side \in Sides /\ p.entry \in Int /\ p.stop \in Int /\ p.half \in Nat
        /\ w.best \in Int /\ w.stop \in Int /\ w.mfe \in Nat /\ w.exit \in ExitType
        /\ c.low \in Int /\ c.high \in Int
    BY DEF PositionType, WalkType, CandleType
  <1>2. best \in Int /\ Excursion(p, best) >= Excursion(p, w.best)
    BY <1>1, SMT DEF Further, BestOf, Excursion, Sides
  <1>3. Excursion(p, best) \in Nat /\ Excursion(p, w.best) \in Nat
    BY <1>1, <1>2, SMT DEF Excursion
  <1>4. cand \in Int
    <2>1. TrailDistance * p.half \in Int
      BY Thresholds
    <2>2. Behind(p.side, best, TrailDistance * p.half) \in Int
      BY <2>1, <1>2, SMT DEF Behind
    <2> QED
      BY <2>2, <1>1 DEF TrailedStop
  <1>5. /\ v.best = best
        /\ v.exit = w.exit
        /\ v.mfe = IF p.half = 0 THEN 0 ELSE Excursion(p, best)
        /\ v.stop = IF p.half = 0 THEN w.stop ELSE Further(p.side, w.stop, cand)
        /\ v = [stop |-> v.stop, best |-> v.best, mfe |-> v.mfe, exit |-> v.exit]
    <2>1. p.half # 0 => Excursion(p, best) >= w.mfe
      BY <1>2, <1>3
    <2> QED
      BY <2>1 DEF PullStop
  <1> HIDE DEF best, cand
  <1>6. AtLeast(p.side, v.stop, w.stop) /\ v.stop \in Int
    BY <1>1, <1>4, <1>5, SMT DEF AtLeast, Further
  <1>7. AtLeast(p.side, v.stop, p.stop)
    BY <1>1, <1>6, SMT DEF AtLeast
  <1>8. v \in WalkType
    BY <1>1, <1>2, <1>3, <1>5, <1>6 DEF WalkType
  <1> QED
    BY <1>2, <1>3, <1>5, <1>6, <1>7, <1>8 DEF best, cand

\* A stop that the walk can be stopped at is the level of its best price; a
\* level other than the initial stop and the entry keeps a profit.
LEMMA LevelProfit ==
  ASSUME NEW p \in PositionType, NEW best \in Int,
         TrailDistance <= TrailActivation,
         LevelOf(p, best) # p.stop, LevelOf(p, best) # p.entry
  PROVE  Excursion(p, LevelOf(p, best)) >= (TrailActivation - TrailDistance) * p.half
  <1> DEFINE A == TrailActivation * p.half
             D == TrailDistance * p.half
  <1>1. /\ p.side \in Sides /\ p.entry \in Int /\ p.stop \in Int /\ p.half \in Nat
        /\ A \in Nat /\ D \in Nat
    BY Thresholds DEF PositionType
  <1>2. (TrailActivation - TrailDistance) * p.half = A - D
    BY ThresholdDifference, SettingsAssumption, <1>1
  <1> HIDE DEF A, D
  <1>3. /\ LevelOf(p, best) = Behind(p.side, best, D)
        /\ Excursion(p, best) >= A
    BY DEF LevelOf, TrailedStop, Further, A, D
  <1>4. Excursion(p, Behind(p.side, best, D)) = Excursion(p, best) - D
    BY <1>1, SMT DEF Excursion, Behind
  <1>5. Excursion(p, best) \in Int
    BY <1>1, SMT DEF Excursion
  <1> QED
    BY <1>1, <1>2, <1>3, <1>4, <1>5, SMT

----------------------------------------------------------------------------
(* The inductive invariant.  It adds to the checked invariants that the    *)
(* largest excursion is the excursion of the best price, which is why a    *)
(* loop that keeps a running maximum and one that does not agree, and that *)
(* no stop is ever behind the initial one.                                 *)

WalkInv ==
  /\ WalkTypeOK
  /\ Excursion(position, walk.best) >= 0
  /\ walk.mfe = IF position.half = 0 THEN 0 ELSE Excursion(position, walk.best)
  /\ AtLeast(position.side, walk.stop, position.stop)
  /\ MonitorAgrees
  /\ StopTracksBestPrice
  /\ ReasonTellsPrice

\* The invariant holds before the first candle.
LEMMA InitWalkInv == WalkInit => WalkInv
  <1> SUFFICES ASSUME WalkInit PROVE WalkInv
    OBVIOUS
  <1>1. position \in PositionType
    BY PositionsAssumption DEF WalkInit
  <1>2. /\ position.side \in Sides /\ position.entry \in Int /\ position.stop \in Int
        /\ position.target \in Int /\ position.half \in Nat
    BY <1>1 DEF PositionType
  <1>3. /\ walk = [stop |-> position.stop, best |-> position.entry, mfe |-> 0, exit |-> NoExit]
        /\ monitor = [stop |-> position.stop, best |-> position.entry]
        /\ candle = <<>> /\ position \in Positions
    BY DEF WalkInit, WalkStart, MonitorStart
  <1>4. NoExit \in ExitType /\ NoExit.reason = "NONE"
    BY DEF NoExit, ExitType
  <1>5. WalkTypeOK
    BY <1>2, <1>3, <1>4 DEF WalkTypeOK, WalkType
  <1>6. Excursion(position, walk.best) = 0
    BY <1>2, <1>3 DEF Excursion
  <1>7. AtLeast(position.side, walk.stop, position.stop)
    BY <1>2, <1>3 DEF AtLeast
  <1>8. MonitorAgrees
    BY <1>3 DEF MonitorAgrees
  <1>9. StopTracksBestPrice
    BY <1>1, <1>2, <1>3, <1>6, LevelAtEntry DEF StopTracksBestPrice
  <1>10. ReasonTellsPrice
    BY <1>3, <1>4 DEF ReasonTellsPrice
  <1> QED
    BY <1>3, <1>5, <1>6, <1>7, <1>8, <1>9, <1>10 DEF WalkInv

\* One candle, in each of the three ways it can be settled.
LEMMA NextWalkInv == WalkInv /\ [WalkNext]_walkVars => WalkInv'
  <1> SUFFICES ASSUME WalkInv, [WalkNext]_walkVars PROVE WalkInv'
    OBVIOUS
  <1>1. CASE UNCHANGED walkVars
    BY <1>1 DEF WalkInv, walkVars, WalkTypeOK, MonitorAgrees, StopTracksBestPrice,
                ReasonTellsPrice, TouchesStop
  <1>2. ASSUME NEW c \in Candles, Observe(c) PROVE WalkInv'
    <2>1. /\ position \in PositionType /\ c \in CandleType /\ position' = position
          /\ walk \in WalkType /\ walk.exit = NoExit /\ candle' = <<c>>
          /\ position \in Positions
      BY <1>2, PositionsAssumption, CandlesAssumption DEF WalkInv, WalkTypeOK, Observe
    <2>2. /\ position.side \in Sides /\ position.entry \in Int /\ position.stop \in Int
          /\ position.target \in Int /\ position.half \in Nat
      BY <2>1 DEF PositionType
    <2>3. /\ walk.stop \in Int /\ walk.best \in Int /\ walk.mfe \in Nat
          /\ Excursion(position, walk.best) >= 0
          /\ walk.mfe = IF position.half = 0 THEN 0 ELSE Excursion(position, walk.best)
          /\ AtLeast(position.side, walk.stop, position.stop)
          /\ monitor.stop = walk.stop /\ monitor.best = walk.best
          /\ TrailDistance <= TrailActivation => walk.stop = LevelOf(position, walk.best)
      BY <2>1 DEF WalkInv, WalkType, MonitorAgrees, StopTracksBestPrice
    <2>4. NoExit.reason = "NONE" /\ NoExit \in ExitType
      BY DEF NoExit, ExitType
    <2>5. CASE TouchesStop(position, walk.stop, c)
      <3> DEFINE e == [reason |-> StopReason(position, walk.stop), price |-> walk.stop]
      <3>1. walk' = [walk EXCEPT !.exit = e]
        BY <1>2, <2>5 DEF Observe, WalkCandle
      <3>2. /\ e \in ExitType /\ e.reason \in Reasons \ {"TARGET"}
            /\ e.price = walk.stop
            /\ e.reason = "BREAKEVEN" => e.price = position.entry
            /\ e.reason = "STOP" => e.price = position.stop
            /\ e.reason = "TRAILING_STOP" => e.price # position.stop /\ e.price # position.entry
        BY <2>3 DEF StopReason, ExitType, Reasons
      <3>3. /\ walk'.exit = e /\ walk'.stop = walk.stop /\ walk'.best = walk.best
            /\ walk'.mfe = walk.mfe /\ walk' \in WalkType
        BY <3>1, <3>2, <2>1 DEF WalkType
      <3>4. walk'.exit # NoExit
        BY <3>2, <3>3, <2>4 DEF Reasons
      <3>5. monitor' = monitor
        BY <3>4, <1>2 DEF Observe
      <3>6. WalkTypeOK'
        BY <2>1, <3>3, <3>5 DEF WalkTypeOK, WalkInv
      <3>7. ReasonTellsPrice'
        <4>1. TrailDistance <= TrailActivation /\ e.reason = "TRAILING_STOP" =>
                Excursion(position, e.price) >= (TrailActivation - TrailDistance) * position.half
          BY <3>2, <2>1, <2>3, LevelProfit
        <4> HIDE DEF e
        <4> QED
          BY <4>1, <3>2, <3>3, <2>1, <2>3 DEF ReasonTellsPrice, Reasons
      <3>8. MonitorAgrees' /\ StopTracksBestPrice'
        BY <3>3, <3>4, <2>1, <2>3 DEF MonitorAgrees, StopTracksBestPrice
      <3> QED
        BY <2>1, <2>3, <3>3, <3>6, <3>7, <3>8 DEF WalkInv
    <2>6. CASE ~ TouchesStop(position, walk.stop, c) /\ TouchesTarget(position, c)
      <3> DEFINE e == [reason |-> "TARGET", price |-> position.target]
      <3>1. walk' = [walk EXCEPT !.exit = e]
        BY <1>2, <2>6 DEF Observe, WalkCandle
      <3>2. e \in ExitType /\ e.reason = "TARGET" /\ e.price = position.target
        BY <2>2 DEF ExitType, Reasons
      <3>3. /\ walk'.exit = e /\ walk'.stop = walk.stop /\ walk'.best = walk.best
            /\ walk'.mfe = walk.mfe /\ walk' \in WalkType
        BY <3>1, <3>2, <2>1 DEF WalkType
      <3>4. walk'.exit # NoExit
        BY <3>2, <3>3, <2>4
      <3>5. monitor' = monitor
        BY <3>4, <1>2 DEF Observe
      <3>6. WalkTypeOK'
        BY <2>1, <3>3, <3>5 DEF WalkTypeOK, WalkInv
      <3>7. ReasonTellsPrice'
        BY <3>2, <3>3, <2>1 DEF ReasonTellsPrice
      <3>8. MonitorAgrees' /\ StopTracksBestPrice'
        BY <3>3, <3>4, <2>1, <2>3 DEF MonitorAgrees, StopTracksBestPrice
      <3> QED
        BY <2>1, <2>3, <3>3, <3>6, <3>7, <3>8 DEF WalkInv
    <2>7. CASE ~ TouchesStop(position, walk.stop, c) /\ ~ TouchesTarget(position, c)
      <3>1. walk' = PullStop(position, walk, c)
        BY <1>2, <2>7 DEF Observe, WalkCandle
      <3> DEFINE new == Further(position.side, walk.best, BestOf(position, c))
      <3>2. /\ walk' \in WalkType /\ walk'.exit = NoExit /\ walk'.best = new
            /\ Excursion(position, walk'.best) >= 0
            /\ walk'.mfe = IF position.half = 0 THEN 0 ELSE Excursion(position, walk'.best)
            /\ walk'.stop = IF position.half = 0 THEN walk.stop
                            ELSE Further(position.side, walk.stop,
                                   TrailedStop(position, walk.stop, new, Excursion(position, new)))
            /\ AtLeast(position.side, walk'.stop, position.stop)
        BY <3>1, <2>1, <2>3, PullStopStep
      <3>3. /\ monitor' = MonitorCandle(position, monitor, c)
            /\ monitor'.best = walk'.best /\ monitor'.stop = walk'.stop
            /\ monitor' \in [stop : Int, best : Int]
        <4>1. monitor' = MonitorCandle(position, monitor, c)
          BY <1>2, <3>2 DEF Observe
        <4>2. monitor'.best = walk'.best /\ monitor'.stop = walk'.stop
          BY <4>1, <2>3, <3>2 DEF MonitorCandle
        <4>3. walk'.best \in Int /\ walk'.stop \in Int
          BY <3>2 DEF WalkType
        <4>4. monitor' = [best |-> monitor'.best, stop |-> monitor'.stop]
          BY <4>1 DEF MonitorCandle
        <4> QED
          BY <4>1, <4>2, <4>3, <4>4
      <3>4. WalkTypeOK'
        BY <2>1, <3>2, <3>3 DEF WalkTypeOK
      <3>5. MonitorAgrees'
        BY <3>3 DEF MonitorAgrees
      <3>6. StopTracksBestPrice'
        <4> SUFFICES ASSUME TrailDistance <= TrailActivation
                     PROVE  walk'.stop = LevelOf(position, new)
          BY <2>1, <3>2 DEF StopTracksBestPrice
        <4>1. CASE position.half = 0
          BY <4>1, <2>3, <3>2 DEF LevelOf
        <4>2. CASE position.half # 0
          <5>1. BestOf(position, c) \in Int
            BY <2>1 DEF BestOf, CandleType
          <5>2. LevelOf(position, new) =
                  Further(position.side, LevelOf(position, walk.best),
                          TrailedStop(position, LevelOf(position, walk.best), new, Excursion(position, new)))
            BY <5>1, <4>2, <2>1, <2>3, PullReachesLevel
          <5> QED
            BY <5>2, <4>2, <2>3, <3>2
        <4> QED
          BY <4>1, <4>2
      <3>7. ReasonTellsPrice'
        BY <3>2, <2>4 DEF ReasonTellsPrice
      <3> QED
        BY <2>1, <3>2, <3>4, <3>5, <3>6, <3>7 DEF WalkInv
    <2> QED
      BY <2>5, <2>6, <2>7
  <1> QED
    BY <1>1, <1>2 DEF WalkNext

\* It holds for every sequence of candles.
LEMMA WalkInvariant == WalkSpec => []WalkInv
  BY InitWalkInv, NextWalkInv, PTL DEF WalkSpec

----------------------------------------------------------------------------
(* The theorems. *)

\* walk_managed_exit and current_managed_stop keep the types of their locals.
THEOREM TypeCorrect == WalkSpec => []WalkTypeOK
  BY WalkInvariant, PTL DEF WalkInv

\* However the price got to its best value, the stop is the one that the best
\* value alone determines: replaying the candles after a restart ends with the
\* same stop (exits.py:76-145 is "stateless" in this sense).
THEOREM StopIsPathIndependent == WalkSpec => []StopTracksBestPrice
  BY WalkInvariant, PTL DEF WalkInv

\* The stage the watcher stores and announces is the stage of the stop that
\* the exit walk holds after the same candles.
THEOREM MonitorIsRight == WalkSpec => []MonitorAgrees
  BY WalkInvariant, PTL DEF WalkInv

\* The reason stored with a closed position determines what its price means,
\* and no managed exit is worse than the initial stop.
THEOREM ExitIsLabelled == WalkSpec => []ReasonTellsPrice
  BY WalkInvariant, PTL DEF WalkInv

\* The ratchet: no candle moves the stop against the position.
THEOREM StopRatchets == WalkSpec => StopNeverLoosens
  <1>1. WalkInv /\ WalkInv' /\ [WalkNext]_walkVars =>
          [AtLeast(position.side, walk'.stop, walk.stop)
           /\ AtLeast(position.side, monitor'.stop, monitor.stop)]_walkVars
    <2> SUFFICES ASSUME WalkInv, WalkInv', NEW c \in Candles, Observe(c)
                 PROVE  AtLeast(position.side, walk'.stop, walk.stop)
                        /\ AtLeast(position.side, monitor'.stop, monitor.stop)
      BY DEF WalkNext
    <2>1. /\ position \in PositionType /\ c \in CandleType
          /\ walk \in WalkType /\ walk.exit = NoExit
          /\ monitor \in [stop : Int, best : Int] /\ walk.stop \in Int
          /\ Excursion(position, walk.best) >= 0
          /\ walk.mfe = IF position.half = 0 THEN 0 ELSE Excursion(position, walk.best)
          /\ AtLeast(position.side, walk.stop, position.stop)
          /\ monitor.stop = walk.stop
      BY PositionsAssumption, CandlesAssumption
         DEF WalkInv, WalkTypeOK, Observe, WalkType, MonitorAgrees
    <2>2. walk' = WalkCandle(position, walk, c) /\ (walk'.exit = NoExit \/ monitor' = monitor)
      BY DEF Observe
    <2>3. AtLeast(position.side, walk.stop, walk.stop)
      BY <2>1 DEF AtLeast
    <2>4. AtLeast(position.side, PullStop(position, walk, c).stop, walk.stop)
      BY <2>1, PullStopStep
    <2>5. AtLeast(position.side, walk'.stop, walk.stop)
      BY <2>1, <2>2, <2>3, <2>4 DEF WalkCandle, WalkType
    <2>6. walk'.exit = NoExit => monitor'.stop = walk'.stop
      BY DEF WalkInv, MonitorAgrees
    <2> QED
      BY <2>1, <2>2, <2>3, <2>5, <2>6
  <1> QED
    BY <1>1, WalkInvariant, PTL DEF WalkSpec, StopNeverLoosens

\* A candle is tested against the stop of the candles before it, and against the
\* stop before the target (exits.py, walk_managed_exit).
THEOREM TestedBeforePulled == WalkSpec => NoLookAhead
  <1>1. WalkInv /\ [WalkNext]_walkVars =>
          [/\ walk'.exit.reason \in Reasons \ {"TARGET"} =>
                walk'.exit.price = walk.stop /\ TouchesStop(position, walk.stop, candle'[1])
           /\ walk'.exit.reason = "TARGET" => ~ TouchesStop(position, walk.stop, candle'[1])]_walkVars
    <2> SUFFICES ASSUME WalkInv, NEW c \in Candles, Observe(c)
                 PROVE  /\ walk'.exit.reason \in Reasons \ {"TARGET"} =>
                             walk'.exit.price = walk.stop /\ TouchesStop(position, walk.stop, candle'[1])
                        /\ walk'.exit.reason = "TARGET" => ~ TouchesStop(position, walk.stop, candle'[1])
      BY DEF WalkNext
    <2>1. /\ walk \in WalkType /\ walk.exit = NoExit
          /\ walk' = WalkCandle(position, walk, c) /\ candle'[1] = c
      BY DEF Observe, WalkInv, WalkTypeOK
    <2>2. CASE TouchesStop(position, walk.stop, c)
      <3>1. walk'.exit = [reason |-> StopReason(position, walk.stop), price |-> walk.stop]
        BY <2>1, <2>2 DEF WalkCandle, WalkType
      <3>2. walk'.exit.reason # "TARGET"
        BY <3>1 DEF StopReason
      <3> QED BY <2>1, <2>2, <3>1, <3>2
    <2>3. CASE ~ TouchesStop(position, walk.stop, c)
      <3>1. CASE TouchesTarget(position, c)
        BY <2>1, <2>3, <3>1 DEF WalkCandle, WalkType
      <3>2. CASE ~ TouchesTarget(position, c)
        <4>1. walk'.exit = NoExit
          BY <2>1, <2>3, <3>2 DEF WalkCandle, PullStop
        <4> QED BY <2>1, <2>3, <4>1 DEF NoExit, Reasons
      <3> QED BY <3>1, <3>2
    <2> QED BY <2>2, <2>3
  <1> QED BY <1>1, WalkInvariant, PTL DEF WalkSpec, NoLookAhead

----------------------------------------------------------------------------
(* The replay: the loops as folds over any list of candles. *)

\* Positions whose target lies beyond the entry and the initial stop: all that
\* resolve_setup builds.
TargetAhead(p) == AtLeast(p.side, p.target, p.entry) /\ AtLeast(p.side, p.target, p.stop)

TrailFits == TrailDistance <= TrailActivation

\* What holds of the locals of the walk after any candles.
WalkFacts(p, w) ==
  /\ Excursion(p, w.best) >= 0
  /\ w.mfe = IF p.half = 0 THEN 0 ELSE Excursion(p, w.best)
  /\ AtLeast(p.side, w.stop, p.stop)
  /\ TrailFits => w.stop = LevelOf(p, w.best)
  /\ w.exit = NoExit \/ w.exit.reason \in Reasons
  /\ TargetAhead(p) /\ w.exit = NoExit =>
       AtLeast(p.side, p.target, w.best) /\ AtLeast(p.side, p.target, w.stop)

Walks(p) == {w \in WalkType : WalkFacts(p, w)}

\* The loop body and the loop exit of the walk.
WalkOn(p, w, c) == IF w.exit # NoExit THEN w ELSE WalkCandle(p, w, c)

\* The fields of a position.
LEMMA PositionFields ==
  ASSUME NEW p \in PositionType
  PROVE  /\ p.side \in Sides /\ p.side \in {"long", "short"} /\ p.entry \in Int
         /\ p.stop \in Int /\ p.target \in Int /\ p.half \in Nat
  BY DEF PositionType, Sides

\* The locals of the walk before the first candle.
LEMMA WalkStarts ==
  ASSUME NEW p \in PositionType
  PROVE  WalkStart(p) \in Walks(p)
  <1> DEFINE w == WalkStart(p)
  <1>1. w = [stop |-> p.stop, best |-> p.entry, mfe |-> 0, exit |-> NoExit]
    BY DEF WalkStart
  <1>2. w \in WalkType
    <2>1. NoExit \in ExitType
      BY DEF NoExit, ExitType
    <2> QED
      BY <1>1, <2>1, PositionFields DEF WalkType
  <1>3. Excursion(p, p.entry) = 0
    BY PositionFields DEF Excursion
  <1>4. AtLeast(p.side, p.stop, p.stop)
    BY PositionFields DEF AtLeast
  <1>5. TrailFits => p.stop = LevelOf(p, p.entry)
    BY LevelAtEntry
  <1>6. /\ w.stop = p.stop /\ w.best = p.entry /\ w.mfe = 0 /\ w.exit = NoExit
    BY <1>1
  <1>7. WalkFacts(p, w)
    <2>1. Excursion(p, w.best) >= 0
      BY <1>3, <1>6
    <2>2. w.mfe = IF p.half = 0 THEN 0 ELSE Excursion(p, w.best)
      BY <1>3, <1>6
    <2>3. AtLeast(p.side, w.stop, p.stop) /\ (TrailFits => w.stop = LevelOf(p, w.best))
      BY <1>4, <1>5, <1>6
    <2>4. TargetAhead(p) => AtLeast(p.side, p.target, w.best) /\ AtLeast(p.side, p.target, w.stop)
      BY <1>6 DEF TargetAhead
    <2> HIDE DEF w
    <2> QED
      BY <1>6, <2>1, <2>2, <2>3, <2>4 DEF WalkFacts
  <1> HIDE DEF w
  <1> QED
    BY <1>2, <1>7 DEF Walks, w

\* A candle that does not touch the target leaves best price and stop short of it.
LEMMA PullStaysBelowTarget ==
  ASSUME NEW p \in PositionType, NEW best \in Int, NEW stop \in Int, NEW c \in CandleType,
         TargetAhead(p), ~TouchesTarget(p, c),
         AtLeast(p.side, p.target, best), AtLeast(p.side, p.target, stop)
  PROVE  LET new == Further(p.side, best, BestOf(p, c))
         IN /\ AtLeast(p.side, p.target, new)
            /\ AtLeast(p.side, p.target,
                 Further(p.side, stop, TrailedStop(p, stop, new, Excursion(p, new))))
  <1> DEFINE D == TrailDistance * p.half
             new == Further(p.side, best, BestOf(p, c))
             pulled == TrailedStop(p, stop, new, Excursion(p, new))
  <1>1. /\ p.side \in {"long", "short"} /\ p.entry \in Int /\ p.target \in Int /\ D \in Nat
        /\ c.low \in Int /\ c.high \in Int
    BY PositionFields, Thresholds DEF CandleType
  <1>2. new \in Int /\ AtLeast(p.side, p.target, new)
    BY <1>1, SMT DEF Further, BestOf, AtLeast, TouchesTarget
  <1> HIDE DEF new
  <1>3. pulled \in {Behind(p.side, new, D), p.entry, stop}
    BY DEF TrailedStop
  <1>4. pulled \in Int /\ AtLeast(p.side, p.target, pulled)
    <2> HIDE DEF pulled, D
    <2>1. CASE pulled = Behind(p.side, new, D)
      BY <1>1, <1>2, <2>1, SMT DEF Behind, AtLeast
    <2>2. CASE pulled \in {p.entry, stop}
      BY <1>1, <2>2 DEF TargetAhead
    <2> QED
      BY <1>3, <2>1, <2>2
  <1>5. AtLeast(p.side, p.target, Further(p.side, stop, pulled))
    <2> HIDE DEF pulled
    <2> QED
      BY <1>1, <1>4 DEF Further
  <1> QED
    BY <1>2, <1>5 DEF new

\* A candle keeps what holds of the walk.
LEMMA WalkKeeps ==
  ASSUME NEW p \in PositionType, NEW w \in Walks(p), NEW c \in CandleType
  PROVE  WalkOn(p, w, c) \in Walks(p)
  <1>1. w \in WalkType /\ WalkFacts(p, w)
    BY DEF Walks
  <1>2. /\ w.stop \in Int /\ w.best \in Int /\ w.mfe \in Nat /\ w.exit \in ExitType
        /\ Excursion(p, w.best) >= 0
        /\ w.mfe = IF p.half = 0 THEN 0 ELSE Excursion(p, w.best)
        /\ AtLeast(p.side, w.stop, p.stop)
        /\ TrailFits => w.stop = LevelOf(p, w.best)
    BY <1>1 DEF WalkType, WalkFacts
  <1>3. ASSUME NEW e \in ExitType, e.reason \in Reasons
        PROVE  [w EXCEPT !.exit = e] \in Walks(p)
    <2> DEFINE v == [w EXCEPT !.exit = e]
    <2>1. /\ v \in WalkType /\ v.exit = e /\ v.stop = w.stop /\ v.best = w.best
          /\ v.mfe = w.mfe /\ v.exit # NoExit
      BY <1>1, <1>3 DEF WalkType, NoExit, Reasons
    <2> HIDE DEF v
    <2>2. WalkFacts(p, v)
      BY <1>2, <1>3, <2>1 DEF WalkFacts
    <2> QED
      BY <2>1, <2>2 DEF Walks, v
  <1>4. CASE w.exit # NoExit
    BY <1>4 DEF WalkOn
  <1>5. CASE w.exit = NoExit /\ TouchesStop(p, w.stop, c)
    <2> DEFINE e == [reason |-> StopReason(p, w.stop), price |-> w.stop]
    <2>1. e \in ExitType /\ e.reason \in Reasons
      BY <1>2 DEF StopReason, ExitType, Reasons
    <2>2. WalkOn(p, w, c) = [w EXCEPT !.exit = e]
      BY <1>5 DEF WalkOn, WalkCandle
    <2> HIDE DEF e
    <2> QED
      BY <1>3, <2>1, <2>2
  <1>6. CASE w.exit = NoExit /\ ~TouchesStop(p, w.stop, c) /\ TouchesTarget(p, c)
    <2> DEFINE e == [reason |-> "TARGET", price |-> p.target]
    <2>1. e \in ExitType /\ e.reason \in Reasons
      BY PositionFields DEF ExitType, Reasons
    <2>2. WalkOn(p, w, c) = [w EXCEPT !.exit = e]
      BY <1>6 DEF WalkOn, WalkCandle
    <2> HIDE DEF e
    <2> QED
      BY <1>3, <2>1, <2>2
  <1>7. CASE w.exit = NoExit /\ ~TouchesStop(p, w.stop, c) /\ ~TouchesTarget(p, c)
    <2> DEFINE v == PullStop(p, w, c)
               new == Further(p.side, w.best, BestOf(p, c))
    <2>1. WalkOn(p, w, c) = v
      BY <1>7 DEF WalkOn, WalkCandle
    <2>2. /\ v \in WalkType /\ v.exit = w.exit /\ v.best = new
          /\ Excursion(p, v.best) >= 0
          /\ v.mfe = IF p.half = 0 THEN 0 ELSE Excursion(p, v.best)
          /\ v.stop = IF p.half = 0 THEN w.stop
                      ELSE Further(p.side, w.stop, TrailedStop(p, w.stop, new, Excursion(p, new)))
          /\ AtLeast(p.side, v.stop, p.stop)
      BY <1>1, <1>2, PullStopStep
    <2> HIDE DEF v
    <2>3. BestOf(p, c) \in Int
      BY DEF BestOf, CandleType
    <2>4. ASSUME TrailFits PROVE v.stop = LevelOf(p, v.best)
      <3>1. CASE p.half = 0
        BY <1>2, <2>2, <2>4, <3>1 DEF LevelOf
      <3>2. CASE p.half # 0
        <4>1. LevelOf(p, new) =
                Further(p.side, LevelOf(p, w.best),
                        TrailedStop(p, LevelOf(p, w.best), new, Excursion(p, new)))
          BY <1>2, <2>3, <2>4, <3>2, PullReachesLevel DEF TrailFits
        <4> QED
          BY <1>2, <2>2, <2>4, <3>2, <4>1
      <3> QED
        BY <3>1, <3>2
    <2>5. ASSUME TargetAhead(p)
          PROVE  AtLeast(p.side, p.target, v.best) /\ AtLeast(p.side, p.target, v.stop)
      <3>1. AtLeast(p.side, p.target, w.best) /\ AtLeast(p.side, p.target, w.stop)
        BY <1>1, <1>7, <2>5 DEF WalkFacts
      <3>2. /\ AtLeast(p.side, p.target, new)
            /\ AtLeast(p.side, p.target,
                 Further(p.side, w.stop, TrailedStop(p, w.stop, new, Excursion(p, new))))
        BY <1>2, <1>7, <2>5, <3>1, PullStaysBelowTarget
      <3> QED
        BY <2>2, <3>1, <3>2
    <2>6. WalkFacts(p, v)
      BY <1>7, <2>2, <2>4, <2>5 DEF WalkFacts
    <2> QED
      BY <2>1, <2>2, <2>6 DEF Walks
  <1> QED
    BY <1>4, <1>5, <1>6, <1>7

\* The body of the loop as a function of the index and the locals.
WalkStep(p, cs) == [a \in (1 .. Len(cs)) \X Walks(p) |-> WalkOn(p, a[2], cs[a[1]])]

\* The walk over a list of candles is a fold of it from the left.
LEMMA WalkedFolds ==
  ASSUME NEW p \in PositionType, NEW cs \in Seq(CandleType)
  PROVE  \E g : /\ IsFold(g, 1 .. Len(cs), WalkStart(p), WalkStep(p, cs), Latest(Len(cs)))
                /\ Values(g, Len(cs), Walks(p))
                /\ Walked(p, cs) = g[1 .. Len(cs)]
  <1> DEFINE n == Len(cs)
             base == WalkStart(p)
             H == WalkStep(p, cs)
             V == Walks(p)
             Runs(g) == g = [s \in SUBSET (1 .. n) |->
                           IF s = {} THEN base
                           ELSE IF g[s \ {Max(s)}].exit # NoExit THEN g[s \ {Max(s)}]
                           ELSE WalkCandle(p, g[s \ {Max(s)}], cs[Max(s)])]
             it == CHOOSE g : Runs(g)
  <1>0. /\ n \in Nat /\ base \in V /\ DOMAIN cs = 1 .. n
        /\ \A i \in 1 .. n : cs[i] \in CandleType
    BY WalkStarts
  <1>1. Keeps(H, 1 .. n, V)
    <2>1. ASSUME NEW i \in 1 .. n, NEW v \in V PROVE H[<<i, v>>] \in V
      <3>1. H[<<i, v>>] = WalkOn(p, v, cs[i])
        BY DEF WalkStep
      <3> QED
        BY <1>0, <3>1, WalkKeeps
    <2> QED
      BY <2>1 DEF Keeps
  <1>2. Walked(p, cs) = it[1 .. n]
    BY <1>0 DEF Walked, FoldLeft, MapThenFoldSet
  <1>3. \A s \in SUBSET (1 .. n) : s # {} => Max(s) \in 1 .. n /\ Latest(n)[s] = Max(s)
    BY <1>0, LatestPicks DEF Picks, Latest
  <1>4. ASSUME NEW s \in SUBSET (1 .. n), s # {}, NEW v \in V
        PROVE  H[<<Max(s), v>>] = IF v.exit # NoExit THEN v ELSE WalkCandle(p, v, cs[Max(s)])
    BY <1>3, <1>4 DEF WalkStep, WalkOn
  <1>5. \E g : Runs(g)
    <2>1. PICK g : IsFold(g, 1 .. n, base, H, Latest(n)) /\ Values(g, n, V)
      <3> HIDE DEF base, H, V, n
      <3> QED
        BY <1>0, <1>1, LeftFoldExists
    <2>2. \A s \in SUBSET (1 .. n) :
            (IF s = {} THEN base ELSE H[<<Latest(n)[s], g[s \ {Latest(n)[s]}]>>])
            = (IF s = {} THEN base
               ELSE IF g[s \ {Max(s)}].exit # NoExit THEN g[s \ {Max(s)}]
               ELSE WalkCandle(p, g[s \ {Max(s)}], cs[Max(s)]))
      <3> HIDE DEF H, V, base, n
      <3>1. ASSUME NEW s \in SUBSET (1 .. n), s # {}
            PROVE  H[<<Latest(n)[s], g[s \ {Latest(n)[s]}]>>]
                   = IF g[s \ {Max(s)}].exit # NoExit THEN g[s \ {Max(s)}]
                     ELSE WalkCandle(p, g[s \ {Max(s)}], cs[Max(s)])
        <4>1. s \ {Max(s)} \in SUBSET (1 .. n)
          OBVIOUS
        <4>2. g[s \ {Max(s)}] \in V
          BY <2>1, <4>1 DEF Values
        <4> QED
          BY <1>3, <1>4, <3>1, <4>2
      <3> QED
        BY <3>1
    <2>3. Runs(g)
      BY <2>1, <2>2 DEF IsFold
    <2> QED
      BY <2>3
  <1>6. Runs(it)
    BY <1>5
  <1> HIDE DEF it
  <1>7. IsFold(it, 1 .. n, base, H, Latest(n)) /\ Values(it, n, V)
    <2>1. it = [s \in SUBSET (1 .. n) |-> it[s]]
      BY <1>6
    <2>2. it[{}] = base
      BY <1>6
    <2>3. ASSUME NEW s \in SUBSET (1 .. n), s # {}, it[s \ {Max(s)}] \in V
          PROVE  it[s] = H[<<Max(s), it[s \ {Max(s)}]>>]
      <3>1. it[s] = IF it[s \ {Max(s)}].exit # NoExit THEN it[s \ {Max(s)}]
                    ELSE WalkCandle(p, it[s \ {Max(s)}], cs[Max(s)])
        BY <1>6, <2>3
      <3> HIDE DEF H, V, base, n, Runs
      <3> QED
        BY <1>4, <2>3, <3>1
    <2> HIDE DEF H, V, base, n, Runs
    <2>4. TakesSteps(it, n, H, V)
      BY <2>1, <2>3 DEF TakesSteps
    <2> QED
      BY <1>0, <1>1, <2>2, <2>4, LeftFoldOnly
  <1> QED
    BY <1>2, <1>7

\* One candle more is one step of the loop more.
LEMMA WalkedStep ==
  ASSUME NEW p \in PositionType, NEW cs \in Seq(CandleType), NEW ds \in Seq(CandleType),
         Len(cs) = Len(ds) + 1, \A i \in 1 .. Len(ds) : cs[i] = ds[i]
  PROVE  Walked(p, cs) = WalkOn(p, Walked(p, ds), cs[Len(cs)])
  <1> DEFINE n == Len(cs)
             m == Len(ds)
             V == Walks(p)
             base == WalkStart(p)
             G == WalkStep(p, cs)
             H == WalkStep(p, ds)
  <1>0. n \in Nat /\ m \in Nat /\ n = m + 1 /\ m <= n
    OBVIOUS
  <1>1. PICK g : /\ IsFold(g, 1 .. n, base, G, Latest(n))
                 /\ Values(g, n, V)
                 /\ Walked(p, cs) = g[1 .. n]
    BY WalkedFolds
  <1>2. PICK h : /\ IsFold(h, 1 .. m, base, H, Latest(m))
                 /\ Walked(p, ds) = h[1 .. m]
    BY WalkedFolds
  <1>3. SameSteps(G, H, m, V)
    BY <1>0 DEF WalkStep, SameSteps
  <1>4. \A v \in V : G[<<n, v>>] = WalkOn(p, v, cs[n])
    BY <1>0 DEF WalkStep
  <1> HIDE DEF n, m, V, base, G, H
  <1>5. g[1 .. m] = h[1 .. m]
    <2>1. m <= m
      BY <1>0
    <2> QED
      BY <1>0, <1>1, <1>2, <1>3, <2>1, LeftFoldsAgree
  <1>6. g[1 .. n] = G[<<n, g[1 .. n - 1]>>] /\ n - 1 = m
    <2>1. \A k \in 1 .. n : g[1 .. k] = G[<<k, g[1 .. k - 1]>>]
      BY <1>0, <1>1, LeftFoldStep
    <2> QED
      BY <1>0, <2>1
  <1>7. g[1 .. m] \in V
    <2>1. 1 .. m \in SUBSET (1 .. n)
      BY <1>0
    <2> QED
      BY <1>1, <2>1 DEF Values
  <1> QED
    BY <1>1, <1>2, <1>4, <1>5, <1>6, <1>7 DEF n

\* The walk over no candle, and the type of every walk.
LEMMA WalkedType ==
  ASSUME NEW p \in PositionType, NEW cs \in Seq(CandleType)
  PROVE  /\ Walked(p, cs) \in Walks(p)
         /\ Len(cs) = 0 => Walked(p, cs) = WalkStart(p)
  <1> DEFINE n == Len(cs)
             V == Walks(p)
             base == WalkStart(p)
             G == WalkStep(p, cs)
  <1>1. PICK g : /\ IsFold(g, 1 .. n, base, G, Latest(n))
                 /\ Values(g, n, V)
                 /\ Walked(p, cs) = g[1 .. n]
    BY WalkedFolds
  <1>2. n \in Nat
    OBVIOUS
  <1> HIDE DEF n, V, base, G
  <1>3. g[1 .. 0] = base /\ 1 .. n \in SUBSET (1 .. n)
    BY <1>1, <1>2, LeftFoldStep
  <1> QED
    BY <1>1, <1>3 DEF n, V, base, Values

----------------------------------------------------------------------------
(* The replay: the first exit. *)

\* The list a is the first k candles of cs.
TakenFrom(a, cs, k) ==
  a \in Seq(CandleType) /\ Len(a) = k /\ \A i \in 1 .. k : a[i] = cs[i]

\* The first k of a list of candles.
LEMMA FirstCandles ==
  ASSUME NEW cs \in Seq(CandleType), NEW k \in 0 .. Len(cs)
  PROVE  TakenFrom(SubSeq(cs, 1, k), cs, k)
  <1>1. \A i \in 1 .. k : cs[i] \in CandleType
    OBVIOUS
  <1>2. /\ SubSeq(cs, 1, k) \in Seq(CandleType)
        /\ Len(SubSeq(cs, 1, k)) = IF 1 <= k THEN k - 1 + 1 ELSE 0
        /\ \A i \in 1 .. k - 1 + 1 : SubSeq(cs, 1, k)[i] = cs[1 + i - 1]
    BY <1>1, SubSeqProperties
  <1> QED
    BY <1>2 DEF TakenFrom

\* Lists that agree up to m have the same first k for every k up to m.
LEMMA SamePrefixes ==
  ASSUME NEW cs \in Seq(CandleType), NEW ds \in Seq(CandleType),
         NEW m \in 0 .. Len(cs), m <= Len(ds), \A i \in 1 .. m : cs[i] = ds[i]
  PROVE  \A k \in 0 .. m : SubSeq(cs, 1, k) = SubSeq(ds, 1, k)
  <1> SUFFICES ASSUME NEW k \in 0 .. m PROVE SubSeq(cs, 1, k) = SubSeq(ds, 1, k)
    OBVIOUS
  <1>1. k \in 0 .. Len(cs) /\ k \in 0 .. Len(ds) /\ \A i \in 1 .. k : i \in 1 .. m
    OBVIOUS
  <1> DEFINE a == SubSeq(cs, 1, k)
             b == SubSeq(ds, 1, k)
  <1>2. a \in Seq(CandleType) /\ Len(a) = k /\ \A i \in 1 .. k : a[i] = cs[i]
    BY <1>1, FirstCandles, Zenon DEF TakenFrom
  <1>3. b \in Seq(CandleType) /\ Len(b) = k /\ \A i \in 1 .. k : b[i] = ds[i]
    BY <1>1, FirstCandles, Zenon DEF TakenFrom
  <1> HIDE DEF a, b
  <1>4. Len(a) = Len(b) /\ \A i \in 1 .. Len(a) : a[i] = b[i]
    BY <1>1, <1>2, <1>3
  <1>5. a = b
    BY <1>2, <1>3, <1>4, SeqEqual
  <1> QED
    BY <1>5 DEF a, b

\* The locals of the walk after the first k candles.
WalkAt(p, cs, k) == Walked(p, SubSeq(cs, 1, k))

\* The walk candle by candle.
LEMMA WalkAtSteps ==
  ASSUME NEW p \in PositionType, NEW cs \in Seq(CandleType)
  PROVE  /\ WalkAt(p, cs, 0) = WalkStart(p)
         /\ WalkAt(p, cs, Len(cs)) = Walked(p, cs)
         /\ \A k \in 0 .. Len(cs) : WalkAt(p, cs, k) \in Walks(p)
         /\ \A k \in 1 .. Len(cs) : WalkAt(p, cs, k) = WalkOn(p, WalkAt(p, cs, k - 1), cs[k])
  <1>1. Len(cs) \in Nat /\ 0 \in 0 .. Len(cs)
    OBVIOUS
  <1>2. WalkAt(p, cs, 0) = WalkStart(p)
    <2> DEFINE a == SubSeq(cs, 1, 0)
    <2>1. a \in Seq(CandleType) /\ Len(a) = 0
      BY <1>1, FirstCandles, Zenon DEF TakenFrom
    <2> HIDE DEF a
    <2>2. Walked(p, a) = WalkStart(p)
      BY <2>1, WalkedType
    <2> QED
      BY <2>2 DEF a, WalkAt
  <1>3. WalkAt(p, cs, Len(cs)) = Walked(p, cs)
    BY SubSeqFull DEF WalkAt
  <1>4. ASSUME NEW k \in 0 .. Len(cs) PROVE WalkAt(p, cs, k) \in Walks(p)
    <2> DEFINE a == SubSeq(cs, 1, k)
    <2>1. a \in Seq(CandleType)
      BY FirstCandles, Zenon DEF TakenFrom
    <2> HIDE DEF a
    <2>2. Walked(p, a) \in Walks(p)
      BY <2>1, WalkedType
    <2> QED
      BY <2>2 DEF a, WalkAt
  <1>5. ASSUME NEW k \in 1 .. Len(cs)
        PROVE  WalkAt(p, cs, k) = WalkOn(p, WalkAt(p, cs, k - 1), cs[k])
    <2> DEFINE a == SubSeq(cs, 1, k)
               b == SubSeq(cs, 1, k - 1)
    <2>1. k \in 0 .. Len(cs) /\ k - 1 \in 0 .. Len(cs)
      OBVIOUS
    <2>2. a \in Seq(CandleType) /\ Len(a) = k /\ \A i \in 1 .. k : a[i] = cs[i]
      BY <2>1, FirstCandles, Zenon DEF TakenFrom
    <2>3. b \in Seq(CandleType) /\ Len(b) = k - 1 /\ \A i \in 1 .. k - 1 : b[i] = cs[i]
      BY <2>1, FirstCandles, Zenon DEF TakenFrom
    <2> HIDE DEF a, b
    <2>4. Len(a) = Len(b) + 1 /\ (\A i \in 1 .. Len(b) : a[i] = b[i]) /\ a[Len(a)] = cs[k]
      BY <2>2, <2>3
    <2>5. Walked(p, a) = WalkOn(p, Walked(p, b), a[Len(a)])
      BY <2>2, <2>3, <2>4, WalkedStep
    <2> QED
      BY <2>4, <2>5 DEF a, b, WalkAt
  <1> QED
    BY <1>2, <1>3, <1>4, <1>5

\* Once the walk found an exit it keeps it.
LEMMA ExitSticks ==
  ASSUME NEW p \in PositionType, NEW cs \in Seq(CandleType),
         NEW j \in 0 .. Len(cs), WalkAt(p, cs, j).exit # NoExit
  PROVE  \A k \in j .. Len(cs) : WalkAt(p, cs, k) = WalkAt(p, cs, j)
  <1> DEFINE bad == {k \in j .. Len(cs) : WalkAt(p, cs, k) # WalkAt(p, cs, j)}
  <1> SUFFICES ASSUME bad # {} PROVE FALSE
    OBVIOUS
  <1>1. PICK k \in bad : \A i \in bad : k <= i
    <2>1. bad \in SUBSET Nat
      OBVIOUS
    <2> HIDE DEF bad
    <2> QED
      BY <2>1, SmallestNumber
  <1>2. k \in j .. Len(cs) /\ WalkAt(p, cs, k) # WalkAt(p, cs, j) /\ k # j
    BY <1>1
  <1>3. k \in 1 .. Len(cs) /\ k - 1 \in j .. Len(cs) /\ k - 1 \notin bad
    BY <1>1, <1>2
  <1>4. WalkAt(p, cs, k - 1) = WalkAt(p, cs, j)
    BY <1>3
  <1>5. WalkAt(p, cs, k) = WalkOn(p, WalkAt(p, cs, k - 1), cs[k])
    BY <1>3, WalkAtSteps
  <1> QED
    BY <1>2, <1>4, <1>5 DEF WalkOn

\* The walk finds its exit in the candle number u of the list.
ExitIn(p, cs, u) ==
  /\ u \in 1 .. Len(cs)
  /\ WalkAt(p, cs, u).exit # NoExit
  /\ WalkAt(p, cs, u - 1).exit = NoExit

\* A walk that ends with an exit found it in one candle.
LEMMA FirstExit ==
  ASSUME NEW p \in PositionType, NEW cs \in Seq(CandleType), Walked(p, cs).exit # NoExit
  PROVE  \E u \in 1 .. Len(cs) : ExitIn(p, cs, u)
  <1> DEFINE N == {k \in 0 .. Len(cs) : WalkAt(p, cs, k).exit # NoExit}
  <1>1. Len(cs) \in N /\ N \in SUBSET Nat
    BY WalkAtSteps
  <1>2. PICK u \in N : \A k \in N : u <= k
    <2> HIDE DEF N
    <2> QED
      BY <1>1, SmallestNumber
  <1>3. 0 \notin N
    BY WalkAtSteps DEF WalkStart
  <1>4. u \in 1 .. Len(cs) /\ u - 1 \in 0 .. Len(cs) /\ u - 1 \notin N
    BY <1>2, <1>3
  <1> QED
    BY <1>2, <1>4 DEF ExitIn

\* The outcome of the walk: the exit, in the one candle it was found in.
LEMMA OutcomeIs ==
  ASSUME NEW p \in PositionType, NEW cs \in Seq(CandleType), NEW n, NEW u, ExitIn(p, cs, u)
  PROVE  /\ Walked(p, cs).exit = WalkAt(p, cs, u).exit
         /\ Walked(p, cs).exit # NoExit
         /\ WalkOutcome(p, cs, n) = [reason |-> WalkAt(p, cs, u).exit.reason,
                                     price  |-> WalkAt(p, cs, u).exit.price,
                                     at     |-> n - Len(cs) + u]
         /\ WalkOutcome(p, cs, n).reason \in WalkReasons
         /\ WalkOutcome(p, cs, n) # NoOutcome
  <1> DEFINE First(k) == /\ WalkAt(p, cs, k).exit # NoExit
                         /\ k = 1 \/ WalkAt(p, cs, k - 1).exit = NoExit
  <1>1. u \in 1 .. Len(cs) /\ u \in 0 .. Len(cs) /\ Len(cs) \in u .. Len(cs)
    BY DEF ExitIn
  <1>2. \A k \in u .. Len(cs) : WalkAt(p, cs, k) = WalkAt(p, cs, u)
    BY <1>1, ExitSticks DEF ExitIn
  <1>3. Walked(p, cs) = WalkAt(p, cs, u)
    BY <1>1, <1>2, WalkAtSteps
  <1>4. First(u)
    BY DEF ExitIn
  <1>5. ASSUME NEW k \in 1 .. Len(cs), First(k) PROVE k = u
    <2>1. CASE k < u
      <3>1. k \in 0 .. Len(cs) /\ u - 1 \in k .. Len(cs)
        BY <1>1, <2>1
      <3>2. WalkAt(p, cs, u - 1) = WalkAt(p, cs, k)
        BY <1>5, <3>1, ExitSticks
      <3> QED
        BY <1>5, <3>2 DEF ExitIn
    <2>2. CASE k > u
      <3>1. k - 1 \in u .. Len(cs) /\ k # 1
        BY <1>1, <2>2
      <3> QED
        BY <1>2, <1>5, <3>1 DEF ExitIn
    <2> QED
      BY <1>1, <2>1, <2>2
  <1>6. (CHOOSE k \in 1 .. Len(cs) : First(k)) = u
    BY <1>1, <1>4, <1>5
  <1>7. WalkOutcome(p, cs, n) = [reason |-> WalkAt(p, cs, u).exit.reason,
                                 price  |-> WalkAt(p, cs, u).exit.price,
                                 at     |-> n - Len(cs) + u]
    <2>1. Walked(p, cs).exit # NoExit
      BY <1>3 DEF ExitIn
    <2> QED
      BY <1>3, <1>6, <2>1 DEF WalkOutcome, WalkAt
  <1>8. WalkAt(p, cs, u).exit.reason \in Reasons
    <2>1. WalkAt(p, cs, u) \in Walks(p)
      BY <1>1, WalkAtSteps
    <2> QED
      BY <2>1 DEF Walks, WalkFacts, ExitIn
  <1> QED
    BY <1>3, <1>7, <1>8 DEF ExitIn, NoOutcome, WalkReasons, Reasons

\* There is an outcome as soon as the walk ends with an exit.
LEMMA OutcomeIff ==
  ASSUME NEW p \in PositionType, NEW cs \in Seq(CandleType), NEW n
  PROVE  WalkOutcome(p, cs, n) = NoOutcome <=> Walked(p, cs).exit = NoExit
  <1>1. CASE Walked(p, cs).exit = NoExit
    BY <1>1 DEF WalkOutcome
  <1>2. CASE Walked(p, cs).exit # NoExit
    <2>1. PICK u \in 1 .. Len(cs) : ExitIn(p, cs, u)
      BY <1>2, FirstExit
    <2> QED
      BY <1>2, <2>1, OutcomeIs
  <1> QED
    BY <1>1, <1>2

\* An exit in the first m candles does not depend on the candles after them.
LEMMA ExitInPrefix ==
  ASSUME NEW p \in PositionType, NEW cs \in Seq(CandleType), NEW ds \in Seq(CandleType),
         NEW m \in 0 .. Len(cs), m <= Len(ds), \A i \in 1 .. m : cs[i] = ds[i],
         NEW u \in 1 .. m, ExitIn(p, cs, u)
  PROVE  ExitIn(p, ds, u) /\ WalkAt(p, ds, u) = WalkAt(p, cs, u)
  <1>1. u \in 0 .. m /\ u - 1 \in 0 .. m /\ u \in 1 .. Len(ds)
    OBVIOUS
  <1>2. \A k \in 0 .. m : SubSeq(cs, 1, k) = SubSeq(ds, 1, k)
    BY SamePrefixes
  <1>3. \A k \in 0 .. m : WalkAt(p, cs, k) = WalkAt(p, ds, k)
    BY <1>2 DEF WalkAt
  <1> QED
    BY <1>1, <1>3 DEF ExitIn

\* The outcome stays, or becomes less favourable in the same candle.
NotBetter(p, o, r) ==
  /\ r # NoOutcome
  /\ r.at = o.at
  /\ TargetAhead(p) => AtLeast(p.side, o.price, r.price)

\* A candle more does not change the outcome of the candles before it.
LEMMA OutcomeAppend ==
  ASSUME NEW p \in PositionType, NEW cs \in Seq(CandleType), NEW c \in CandleType, NEW n \in Int,
         WalkOutcome(p, cs, n) # NoOutcome
  PROVE  NotBetter(p, WalkOutcome(p, cs, n), WalkOutcome(p, Append(cs, c), n + 1))
  <1> DEFINE ds == Append(cs, c)
             o == WalkOutcome(p, cs, n)
             r == WalkOutcome(p, ds, n + 1)
  <1>1. ds \in Seq(CandleType) /\ Len(ds) = Len(cs) + 1 /\ \A i \in 1 .. Len(cs) : cs[i] = ds[i]
    BY AppendProperties
  <1>2. PICK u \in 1 .. Len(cs) : ExitIn(p, cs, u)
    BY FirstExit, OutcomeIff
  <1>3. Len(cs) \in 0 .. Len(cs) /\ Len(cs) <= Len(ds)
    BY <1>1
  <1>4. /\ o = [reason |-> WalkAt(p, cs, u).exit.reason, price |-> WalkAt(p, cs, u).exit.price,
                at |-> n - Len(cs) + u]
    BY <1>2, OutcomeIs
  <1> HIDE DEF ds
  <1>5. ExitIn(p, ds, u) /\ WalkAt(p, ds, u) = WalkAt(p, cs, u)
    BY <1>1, <1>2, <1>3, ExitInPrefix
  <1>6. /\ r # NoOutcome
        /\ r = [reason |-> WalkAt(p, ds, u).exit.reason, price |-> WalkAt(p, ds, u).exit.price,
                at |-> n + 1 - Len(ds) + u]
    <2> DEFINE k == n + 1
    <2>1. r = WalkOutcome(p, ds, k)
      OBVIOUS
    <2> HIDE DEF k, r
    <2>2. /\ r # NoOutcome
          /\ r = [reason |-> WalkAt(p, ds, u).exit.reason, price |-> WalkAt(p, ds, u).exit.price,
                  at |-> k - Len(ds) + u]
      BY <1>1, <1>5, <2>1, OutcomeIs
    <2> QED
      BY <2>2 DEF k
  <1>7. n + 1 - Len(ds) + u = n - Len(cs) + u
    BY <1>1
  <1> HIDE DEF o, r
  <1>8. r = o
    BY <1>4, <1>5, <1>6, <1>7
  <1>9. AtLeast(p.side, o.price, o.price)
    <2>1. WalkAt(p, cs, u) \in WalkType
      BY <1>2, WalkAtSteps DEF Walks
    <2>2. o.price \in Int
      BY <1>4, <2>1 DEF WalkType, ExitType
    <2> QED
      BY <2>2 DEF AtLeast
  <1> QED
    BY <1>6, <1>8, <1>9 DEF NotBetter, ds, o, r

\* The last candle has grown.
Grown(cs, ds) ==
  /\ Len(cs) > 0
  /\ Len(ds) = Len(cs)
  /\ \A i \in 1 .. Len(cs) - 1 : cs[i] = ds[i]
  /\ ds[Len(cs)].low <= cs[Len(cs)].low
  /\ cs[Len(cs)].high <= ds[Len(cs)].high

\* A candle that grew into the walk: the exit it had stays in it, and its price
\* is the same or, once the stop is touched too, that of the stop.
LEMMA WalkGrown ==
  ASSUME NEW p \in PositionType, NEW w \in Walks(p), w.exit = NoExit,
         NEW c \in CandleType, NEW d \in CandleType, d.low <= c.low, c.high <= d.high,
         WalkOn(p, w, c).exit # NoExit
  PROVE  /\ WalkOn(p, w, d).exit # NoExit
         /\ TargetAhead(p) =>
              AtLeast(p.side, WalkOn(p, w, c).exit.price, WalkOn(p, w, d).exit.price)
  <1>1. /\ w \in WalkType /\ w.stop \in Int /\ p.target \in Int
        /\ c.low \in Int /\ c.high \in Int /\ d.low \in Int /\ d.high \in Int
        /\ TargetAhead(p) => AtLeast(p.side, p.target, w.stop)
    BY PositionFields DEF Walks, WalkFacts, WalkType, CandleType
  <1>2. /\ TouchesStop(p, w.stop, c) => TouchesStop(p, w.stop, d)
        /\ TouchesTarget(p, c) => TouchesTarget(p, d)
    BY <1>1 DEF TouchesStop, TouchesTarget
  <1> DEFINE e == [reason |-> StopReason(p, w.stop), price |-> w.stop]
             f == [reason |-> "TARGET", price |-> p.target]
  <1>3. e # NoExit /\ f # NoExit /\ e.price = w.stop /\ f.price = p.target
    BY DEF NoExit, StopReason
  <1>4. ASSUME NEW x \in CandleType
        PROVE  /\ TouchesStop(p, w.stop, x) => WalkOn(p, w, x).exit = e
               /\ ~TouchesStop(p, w.stop, x) /\ TouchesTarget(p, x) => WalkOn(p, w, x).exit = f
               /\ ~TouchesStop(p, w.stop, x) /\ ~TouchesTarget(p, x) => WalkOn(p, w, x).exit = NoExit
    BY <1>1 DEF WalkOn, WalkCandle, PullStop, WalkType
  <1> HIDE DEF e, f
  <1>5. AtLeast(p.side, w.stop, w.stop) /\ AtLeast(p.side, p.target, p.target)
    BY <1>1 DEF AtLeast
  <1>6. CASE TouchesStop(p, w.stop, c)
    BY <1>2, <1>3, <1>4, <1>5, <1>6
  <1>7. CASE ~TouchesStop(p, w.stop, c)
    <2>1. TouchesTarget(p, c) /\ TouchesTarget(p, d) /\ WalkOn(p, w, c).exit = f
      BY <1>2, <1>4, <1>7
    <2>2. CASE TouchesStop(p, w.stop, d)
      BY <1>1, <1>3, <1>4, <2>1, <2>2
    <2>3. CASE ~TouchesStop(p, w.stop, d)
      BY <1>3, <1>4, <1>5, <2>1, <2>3
    <2> QED
      BY <2>2, <2>3
  <1> QED
    BY <1>6, <1>7

\* When the last candle grows the outcome stays in its candle.
LEMMA OutcomeGrown ==
  ASSUME NEW p \in PositionType, NEW cs \in Seq(CandleType), NEW ds \in Seq(CandleType),
         NEW n \in Int, Grown(cs, ds), WalkOutcome(p, cs, n) # NoOutcome
  PROVE  NotBetter(p, WalkOutcome(p, cs, n), WalkOutcome(p, ds, n))
  <1> DEFINE o == WalkOutcome(p, cs, n)
             r == WalkOutcome(p, ds, n)
             m == Len(cs) - 1
  <1>1. /\ Len(cs) \in Nat /\ Len(ds) = Len(cs) /\ m \in 0 .. Len(cs) /\ m <= Len(ds)
        /\ m \in 0 .. m
        /\ \A i \in 1 .. m : cs[i] = ds[i]
    BY DEF Grown
  <1>2. PICK u \in 1 .. Len(cs) : ExitIn(p, cs, u)
    BY FirstExit, OutcomeIff
  <1>3. o = [reason |-> WalkAt(p, cs, u).exit.reason, price |-> WalkAt(p, cs, u).exit.price,
             at |-> n - Len(cs) + u]
    BY <1>2, OutcomeIs
  <1>4. ASSUME ExitIn(p, ds, u),
               TargetAhead(p) => AtLeast(p.side, WalkAt(p, cs, u).exit.price,
                                                 WalkAt(p, ds, u).exit.price)
        PROVE  NotBetter(p, o, r)
    <2>1. /\ r # NoOutcome
          /\ r = [reason |-> WalkAt(p, ds, u).exit.reason, price |-> WalkAt(p, ds, u).exit.price,
                  at |-> n - Len(ds) + u]
      BY <1>4, OutcomeIs
    <2> HIDE DEF o, r
    <2> QED
      BY <1>1, <1>3, <1>4, <2>1 DEF NotBetter
  <1> HIDE DEF o, r
  <1>5. CASE u <= m
    <2>1. u \in 1 .. m
      BY <1>1, <1>5
    <2> HIDE DEF m
    <2>2. ExitIn(p, ds, u) /\ WalkAt(p, ds, u) = WalkAt(p, cs, u)
      BY <1>1, <1>2, <2>1, ExitInPrefix
    <2>3. AtLeast(p.side, WalkAt(p, cs, u).exit.price, WalkAt(p, cs, u).exit.price)
      <3>1. WalkAt(p, cs, u) \in WalkType
        BY <1>2, WalkAtSteps DEF Walks
      <3>2. WalkAt(p, cs, u).exit.price \in Int
        BY <3>1 DEF WalkType, ExitType
      <3> QED
        BY <3>2 DEF AtLeast
    <2>4. TargetAhead(p) =>
            AtLeast(p.side, WalkAt(p, cs, u).exit.price, WalkAt(p, ds, u).exit.price)
      BY <2>2, <2>3
    <2> QED
      BY <1>4, <2>2, <2>4, Zenon DEF o, r
  <1>6. CASE u = Len(cs)
    <2> DEFINE w == WalkAt(p, cs, u - 1)
               c == cs[u]
               d == ds[u]
    <2>1. /\ c \in CandleType /\ d \in CandleType /\ d.low <= c.low /\ c.high <= d.high
          /\ u - 1 = m /\ u \in 1 .. Len(ds) /\ u \in 1 .. Len(cs)
      BY <1>1, <1>2, <1>6 DEF Grown
    <2>2. w \in Walks(p) /\ w.exit = NoExit
      BY <1>2, <2>1, <1>1, WalkAtSteps DEF ExitIn
    <2>3. WalkAt(p, ds, u - 1) = w
      <3>1. \A k \in 0 .. m : SubSeq(cs, 1, k) = SubSeq(ds, 1, k)
        <4> HIDE DEF m
        <4> QED
          BY <1>1, SamePrefixes
      <3> QED
        BY <1>1, <2>1, <3>1 DEF WalkAt
    <2>4. /\ WalkAt(p, cs, u) = WalkOn(p, w, c)
          /\ WalkAt(p, ds, u) = WalkOn(p, w, d)
      <3>1. WalkAt(p, cs, u) = WalkOn(p, w, c)
        BY <2>1, WalkAtSteps
      <3>2. WalkAt(p, ds, u) = WalkOn(p, WalkAt(p, ds, u - 1), d)
        BY <2>1, WalkAtSteps
      <3> QED
        BY <2>3, <3>1, <3>2
    <2>5. WalkAt(p, cs, u).exit # NoExit
      BY <1>2 DEF ExitIn
    <2> HIDE DEF w, c, d
    <2>6. /\ WalkOn(p, w, d).exit # NoExit
          /\ TargetAhead(p) =>
               AtLeast(p.side, WalkOn(p, w, c).exit.price, WalkOn(p, w, d).exit.price)
      BY <2>1, <2>2, <2>4, <2>5, WalkGrown
    <2>7. ExitIn(p, ds, u)
      BY <2>1, <2>2, <2>3, <2>4, <2>6 DEF ExitIn
    <2>8. TargetAhead(p) =>
            AtLeast(p.side, WalkAt(p, cs, u).exit.price, WalkAt(p, ds, u).exit.price)
      BY <2>4, <2>6
    <2> QED
      BY <1>4, <2>7, <2>8, Zenon DEF o, r
  <1> QED
    BY <1>1, <1>2, <1>5, <1>6 DEF o, r

----------------------------------------------------------------------------
(* The replay: the monitor. *)

\* What current_managed_stop returns the stop of.
Monitored(p, cs) ==
  FoldLeft(LAMBDA m, c : MonitorCandle(p, m, c), MonitorStart(p), cs)

Monitors == [stop : Int, best : Int]

\* A candle keeps the types of the monitor.
LEMMA MonitorKeeps ==
  ASSUME NEW p \in PositionType, NEW m \in Monitors, NEW c \in CandleType
  PROVE  MonitorCandle(p, m, c) \in Monitors
  <1> DEFINE D == TrailDistance * p.half
             best == Further(p.side, m.best, BestOf(p, c))
             pulled == TrailedStop(p, m.stop, best, Excursion(p, best))
  <1>1. /\ m.stop \in Int /\ m.best \in Int /\ p.entry \in Int /\ D \in Int
        /\ c.low \in Int /\ c.high \in Int
    BY PositionFields, Thresholds DEF Monitors, CandleType
  <1>2. best \in Int
    BY <1>1 DEF Further, BestOf
  <1> HIDE DEF best
  <1>3. Behind(p.side, best, D) \in Int
    <2> HIDE DEF D
    <2> QED
      BY <1>1, <1>2 DEF Behind
  <1>4. pulled \in Int
    BY <1>1, <1>3 DEF TrailedStop
  <1> HIDE DEF pulled
  <1>5. Further(p.side, m.stop, pulled) \in Int
    BY <1>1, <1>4 DEF Further
  <1> QED
    BY <1>1, <1>2, <1>5 DEF MonitorCandle, Monitors, best, pulled

\* The monitor's loop body as a function of the index and the locals.
MonitorStep(p, cs) == [a \in (1 .. Len(cs)) \X Monitors |-> MonitorCandle(p, a[2], cs[a[1]])]

\* The monitor over a list of candles is a fold of it from the left.
LEMMA MonitoredFolds ==
  ASSUME NEW p \in PositionType, NEW cs \in Seq(CandleType)
  PROVE  \E g : /\ IsFold(g, 1 .. Len(cs), MonitorStart(p), MonitorStep(p, cs), Latest(Len(cs)))
                /\ Values(g, Len(cs), Monitors)
                /\ Monitored(p, cs) = g[1 .. Len(cs)]
  <1> DEFINE n == Len(cs)
             base == MonitorStart(p)
             H == MonitorStep(p, cs)
             V == Monitors
             Runs(g) == g = [s \in SUBSET (1 .. n) |->
                           IF s = {} THEN base
                           ELSE MonitorCandle(p, g[s \ {Max(s)}], cs[Max(s)])]
             it == CHOOSE g : Runs(g)
  <1>0. /\ n \in Nat /\ base \in V /\ DOMAIN cs = 1 .. n
        /\ \A i \in 1 .. n : cs[i] \in CandleType
    BY PositionFields DEF MonitorStart, Monitors
  <1>1. Keeps(H, 1 .. n, V)
    <2>1. ASSUME NEW i \in 1 .. n, NEW v \in V PROVE H[<<i, v>>] \in V
      <3>1. H[<<i, v>>] = MonitorCandle(p, v, cs[i])
        BY DEF MonitorStep
      <3> QED
        BY <1>0, <3>1, MonitorKeeps
    <2> QED
      BY <2>1 DEF Keeps
  <1>2. Monitored(p, cs) = it[1 .. n]
    BY <1>0 DEF Monitored, FoldLeft, MapThenFoldSet
  <1>3. \A s \in SUBSET (1 .. n) : s # {} => Max(s) \in 1 .. n /\ Latest(n)[s] = Max(s)
    BY <1>0, LatestPicks DEF Picks, Latest
  <1>4. ASSUME NEW s \in SUBSET (1 .. n), s # {}, NEW v \in V
        PROVE  H[<<Max(s), v>>] = MonitorCandle(p, v, cs[Max(s)])
    BY <1>3, <1>4 DEF MonitorStep
  <1>5. \E g : Runs(g)
    <2>1. PICK g : IsFold(g, 1 .. n, base, H, Latest(n)) /\ Values(g, n, V)
      <3> HIDE DEF base, H, V, n
      <3> QED
        BY <1>0, <1>1, LeftFoldExists
    <2>2. \A s \in SUBSET (1 .. n) :
            (IF s = {} THEN base ELSE H[<<Latest(n)[s], g[s \ {Latest(n)[s]}]>>])
            = (IF s = {} THEN base
               ELSE MonitorCandle(p, g[s \ {Max(s)}], cs[Max(s)]))
      <3> HIDE DEF H, V, base, n
      <3>1. ASSUME NEW s \in SUBSET (1 .. n), s # {}
            PROVE  H[<<Latest(n)[s], g[s \ {Latest(n)[s]}]>>]
                   = MonitorCandle(p, g[s \ {Max(s)}], cs[Max(s)])
        <4>1. s \ {Max(s)} \in SUBSET (1 .. n)
          OBVIOUS
        <4>2. g[s \ {Max(s)}] \in V
          BY <2>1, <4>1 DEF Values
        <4> QED
          BY <1>3, <1>4, <3>1, <4>2
      <3> QED
        BY <3>1
    <2>3. Runs(g)
      BY <2>1, <2>2 DEF IsFold
    <2> QED
      BY <2>3
  <1>6. Runs(it)
    BY <1>5
  <1> HIDE DEF it
  <1>7. IsFold(it, 1 .. n, base, H, Latest(n)) /\ Values(it, n, V)
    <2>1. it = [s \in SUBSET (1 .. n) |-> it[s]]
      BY <1>6
    <2>2. it[{}] = base
      BY <1>6
    <2>3. ASSUME NEW s \in SUBSET (1 .. n), s # {}, it[s \ {Max(s)}] \in V
          PROVE  it[s] = H[<<Max(s), it[s \ {Max(s)}]>>]
      <3>1. it[s] = MonitorCandle(p, it[s \ {Max(s)}], cs[Max(s)])
        BY <1>6, <2>3
      <3> HIDE DEF H, V, base, n, Runs
      <3> QED
        BY <1>4, <2>3, <3>1
    <2> HIDE DEF H, V, base, n, Runs
    <2>4. TakesSteps(it, n, H, V)
      BY <2>1, <2>3 DEF TakesSteps
    <2> QED
      BY <1>0, <1>1, <2>2, <2>4, LeftFoldOnly
  <1> QED
    BY <1>2, <1>7

\* One candle more is one step of the monitor more.
LEMMA MonitoredStep ==
  ASSUME NEW p \in PositionType, NEW cs \in Seq(CandleType), NEW ds \in Seq(CandleType),
         Len(cs) = Len(ds) + 1, \A i \in 1 .. Len(ds) : cs[i] = ds[i]
  PROVE  Monitored(p, cs) = MonitorCandle(p, Monitored(p, ds), cs[Len(cs)])
  <1> DEFINE n == Len(cs)
             m == Len(ds)
             V == Monitors
             base == MonitorStart(p)
             G == MonitorStep(p, cs)
             H == MonitorStep(p, ds)
  <1>0. n \in Nat /\ m \in Nat /\ n = m + 1 /\ m <= n
    OBVIOUS
  <1>1. PICK g : /\ IsFold(g, 1 .. n, base, G, Latest(n))
                 /\ Values(g, n, V)
                 /\ Monitored(p, cs) = g[1 .. n]
    BY MonitoredFolds
  <1>2. PICK h : /\ IsFold(h, 1 .. m, base, H, Latest(m))
                 /\ Monitored(p, ds) = h[1 .. m]
    BY MonitoredFolds
  <1>3. SameSteps(G, H, m, V)
    BY <1>0 DEF MonitorStep, SameSteps
  <1>4. \A v \in V : G[<<n, v>>] = MonitorCandle(p, v, cs[n])
    BY <1>0 DEF MonitorStep
  <1> HIDE DEF n, m, V, base, G, H
  <1>5. g[1 .. m] = h[1 .. m]
    <2>1. m <= m
      BY <1>0
    <2> QED
      BY <1>0, <1>1, <1>2, <1>3, <2>1, LeftFoldsAgree
  <1>6. g[1 .. n] = G[<<n, g[1 .. n - 1]>>] /\ n - 1 = m
    <2>1. \A k \in 1 .. n : g[1 .. k] = G[<<k, g[1 .. k - 1]>>]
      BY <1>0, <1>1, LeftFoldStep
    <2> QED
      BY <1>0, <2>1
  <1>7. g[1 .. m] \in V
    <2>1. 1 .. m \in SUBSET (1 .. n)
      BY <1>0
    <2> QED
      BY <1>1, <2>1 DEF Values
  <1> QED
    BY <1>1, <1>2, <1>4, <1>5, <1>6, <1>7 DEF n

\* The monitor over no candle, and the type of its result.
LEMMA MonitoredType ==
  ASSUME NEW p \in PositionType, NEW cs \in Seq(CandleType)
  PROVE  /\ Monitored(p, cs) \in Monitors
         /\ Len(cs) = 0 => Monitored(p, cs) = MonitorStart(p)
  <1> DEFINE n == Len(cs)
             V == Monitors
             base == MonitorStart(p)
             G == MonitorStep(p, cs)
  <1>1. PICK g : /\ IsFold(g, 1 .. n, base, G, Latest(n))
                 /\ Values(g, n, V)
                 /\ Monitored(p, cs) = g[1 .. n]
    BY MonitoredFolds
  <1>2. n \in Nat
    OBVIOUS
  <1> HIDE DEF n, V, base, G
  <1>3. g[1 .. 0] = base /\ 1 .. n \in SUBSET (1 .. n)
    BY <1>1, <1>2, LeftFoldStep
  <1> QED
    BY <1>1, <1>3 DEF n, V, base, Values

\* The monitor after the first k candles.
MonitorAt(p, cs, k) == Monitored(p, SubSeq(cs, 1, k))

\* The monitor candle by candle.
LEMMA MonitorAtSteps ==
  ASSUME NEW p \in PositionType, NEW cs \in Seq(CandleType)
  PROVE  /\ MonitorAt(p, cs, 0) = MonitorStart(p)
         /\ MonitorAt(p, cs, Len(cs)) = Monitored(p, cs)
         /\ \A k \in 1 .. Len(cs) :
              MonitorAt(p, cs, k) = MonitorCandle(p, MonitorAt(p, cs, k - 1), cs[k])
  <1>1. Len(cs) \in Nat /\ 0 \in 0 .. Len(cs)
    OBVIOUS
  <1>2. MonitorAt(p, cs, 0) = MonitorStart(p)
    <2> DEFINE a == SubSeq(cs, 1, 0)
    <2>1. a \in Seq(CandleType) /\ Len(a) = 0
      BY <1>1, FirstCandles, Zenon DEF TakenFrom
    <2> HIDE DEF a
    <2>2. Monitored(p, a) = MonitorStart(p)
      BY <2>1, MonitoredType
    <2> QED
      BY <2>2 DEF a, MonitorAt
  <1>3. MonitorAt(p, cs, Len(cs)) = Monitored(p, cs)
    BY SubSeqFull DEF MonitorAt
  <1>4. ASSUME NEW k \in 1 .. Len(cs)
        PROVE  MonitorAt(p, cs, k) = MonitorCandle(p, MonitorAt(p, cs, k - 1), cs[k])
    <2> DEFINE a == SubSeq(cs, 1, k)
               b == SubSeq(cs, 1, k - 1)
    <2>1. k \in 0 .. Len(cs) /\ k - 1 \in 0 .. Len(cs)
      OBVIOUS
    <2>2. a \in Seq(CandleType) /\ Len(a) = k /\ \A i \in 1 .. k : a[i] = cs[i]
      BY <2>1, FirstCandles, Zenon DEF TakenFrom
    <2>3. b \in Seq(CandleType) /\ Len(b) = k - 1 /\ \A i \in 1 .. k - 1 : b[i] = cs[i]
      BY <2>1, FirstCandles, Zenon DEF TakenFrom
    <2> HIDE DEF a, b
    <2>4. Len(a) = Len(b) + 1 /\ (\A i \in 1 .. Len(b) : a[i] = b[i]) /\ a[Len(a)] = cs[k]
      BY <2>2, <2>3
    <2>5. Monitored(p, a) = MonitorCandle(p, Monitored(p, b), a[Len(a)])
      BY <2>2, <2>3, <2>4, MonitoredStep
    <2> QED
      BY <2>4, <2>5 DEF a, b, MonitorAt
  <1> QED
    BY <1>2, <1>3, <1>4

\* The best price b was seen: it is the entry or a candle reached it.
Reached(p, cs, k, b) ==
  b = p.entry \/ \E i \in 1 .. k : AtLeast(p.side, BestOf(p, cs[i]), b)

\* While the walk finds no exit after k candles, the monitor has its stop and
\* its best price, which is one that was seen and none was better.
HoldsAfter(p, cs, k) ==
  WalkAt(p, cs, k).exit = NoExit =>
    /\ MonitorAt(p, cs, k) = [stop |-> WalkAt(p, cs, k).stop, best |-> WalkAt(p, cs, k).best]
    /\ Reached(p, cs, k, WalkAt(p, cs, k).best)
    /\ \A i \in 1 .. k : AtLeast(p.side, WalkAt(p, cs, k).best, BestOf(p, cs[i]))

\* One candle more, without an exit.
LEMMA HoldsStep ==
  ASSUME NEW p \in PositionType, NEW cs \in Seq(CandleType), NEW k \in 1 .. Len(cs),
         HoldsAfter(p, cs, k - 1)
  PROVE  HoldsAfter(p, cs, k)
  <1> DEFINE w == WalkAt(p, cs, k - 1)
             v == WalkAt(p, cs, k)
             c == cs[k]
             new == Further(p.side, w.best, BestOf(p, c))
  <1> SUFFICES ASSUME v.exit = NoExit PROVE HoldsAfter(p, cs, k)
    BY DEF HoldsAfter
  <1>1. /\ k - 1 \in 0 .. Len(cs) /\ c \in CandleType /\ w \in Walks(p)
        /\ v = WalkOn(p, w, c) /\ \A i \in 1 .. k - 1 : cs[i] \in CandleType
    BY WalkAtSteps
  <1>2. MonitorAt(p, cs, k) = MonitorCandle(p, MonitorAt(p, cs, k - 1), c)
    BY MonitorAtSteps
  <1>3. w.exit = NoExit /\ v = PullStop(p, w, c)
    <2>1. NoExit.reason = "NONE"
      BY DEF NoExit
    <2>2. \A e : e.reason # "NONE" => e # NoExit
      BY <2>1
    <2>3. w \in WalkType
      BY <1>1 DEF Walks
    <2> HIDE DEF w
    <2> QED
      BY <1>1, <2>2, <2>3 DEF WalkOn, WalkCandle, StopReason, WalkType
  <1>4. /\ MonitorAt(p, cs, k - 1) = [stop |-> w.stop, best |-> w.best]
        /\ Reached(p, cs, k - 1, w.best)
        /\ \A i \in 1 .. k - 1 : AtLeast(p.side, w.best, BestOf(p, cs[i]))
    BY <1>3 DEF HoldsAfter
  <1>5. /\ w \in WalkType /\ w.best \in Int /\ p.side \in {"long", "short"} /\ BestOf(p, c) \in Int
        /\ \A i \in 1 .. k - 1 : BestOf(p, cs[i]) \in Int
    BY <1>1, PositionFields DEF Walks, WalkType, BestOf, CandleType
  <1>6. /\ v.best = new
        /\ v.stop = IF p.half = 0 THEN w.stop
                    ELSE Further(p.side, w.stop, TrailedStop(p, w.stop, new, Excursion(p, new)))
    <2>1. /\ Excursion(p, w.best) >= 0 /\ AtLeast(p.side, w.stop, p.stop)
          /\ w.mfe = IF p.half = 0 THEN 0 ELSE Excursion(p, w.best)
      BY <1>1 DEF Walks, WalkFacts
    <2> HIDE DEF w, c
    <2> QED
      BY <1>1, <1>3, <1>5, <2>1, PullStopStep, SMTT(30)
  <1> HIDE DEF v, w
  <1>7. MonitorAt(p, cs, k) = [stop |-> v.stop, best |-> v.best]
    BY <1>2, <1>4, <1>6 DEF MonitorCandle
  <1> HIDE DEF c
  <1>8. /\ new \in Int /\ AtLeast(p.side, new, w.best) /\ AtLeast(p.side, new, BestOf(p, c))
        /\ new = w.best \/ new = BestOf(p, c)
    BY <1>5 DEF Further, AtLeast
  <1> HIDE DEF new
  <1>9. Reached(p, cs, k, v.best)
    <2>1. CASE new = w.best
      <3>1. \A i \in 1 .. k - 1 : i \in 1 .. k
        OBVIOUS
      <3> QED
        BY <1>4, <1>6, <2>1, <3>1 DEF Reached
    <2>2. CASE new = BestOf(p, c)
      <3>1. AtLeast(p.side, BestOf(p, c), new) /\ k \in 1 .. k
        BY <1>8, <2>2 DEF AtLeast
      <3> QED
        BY <1>6, <3>1 DEF Reached, c
    <2> QED
      BY <1>8, <2>1, <2>2
  <1>10. ASSUME NEW i \in 1 .. k PROVE AtLeast(p.side, v.best, BestOf(p, cs[i]))
    <2>1. CASE i = k
      BY <1>6, <1>8, <2>1 DEF c
    <2>2. CASE i # k
      <3>1. i \in 1 .. k - 1
        BY <2>2
      <3>2. AtLeast(p.side, w.best, BestOf(p, cs[i])) /\ BestOf(p, cs[i]) \in Int
        BY <1>4, <1>5, <3>1
      <3> QED
        BY <1>5, <1>6, <1>8, <3>2 DEF AtLeast
    <2> QED
      BY <2>1, <2>2
  <1> QED
    BY <1>7, <1>9, <1>10 DEF HoldsAfter, v

\* It holds after every number of candles.
LEMMA HoldsAlways ==
  ASSUME NEW p \in PositionType, NEW cs \in Seq(CandleType)
  PROVE  \A k \in 0 .. Len(cs) : HoldsAfter(p, cs, k)
  <1> DEFINE bad == {k \in 0 .. Len(cs) : ~HoldsAfter(p, cs, k)}
  <1> SUFFICES ASSUME bad # {} PROVE FALSE
    OBVIOUS
  <1>1. PICK k \in bad : \A i \in bad : k <= i
    <2>1. bad \in SUBSET Nat
      OBVIOUS
    <2> HIDE DEF bad
    <2> QED
      BY <2>1, SmallestNumber
  <1>2. k \in 0 .. Len(cs) /\ ~HoldsAfter(p, cs, k)
    BY <1>1
  <1>3. HoldsAfter(p, cs, 0)
    BY WalkAtSteps, MonitorAtSteps DEF HoldsAfter, Reached, WalkStart, MonitorStart
  <1>4. k \in 1 .. Len(cs) /\ k - 1 \notin bad /\ k - 1 \in 0 .. Len(cs)
    BY <1>1, <1>2, <1>3
  <1>5. HoldsAfter(p, cs, k - 1)
    BY <1>4
  <1> QED
    BY <1>2, <1>4, <1>5, HoldsStep

----------------------------------------------------------------------------
(* The level of a best price and its stage. *)

\* A better price has a level at least as good.
LEMMA LevelMonotone ==
  ASSUME NEW p \in PositionType, TrailFits, NEW b \in Int, NEW c \in Int,
         Excursion(p, b) >= 0, AtLeast(p.side, c, b)
  PROVE  /\ LevelOf(p, b) \in Int /\ LevelOf(p, c) \in Int
         /\ AtLeast(p.side, LevelOf(p, c), LevelOf(p, b))
  <1> DEFINE D == TrailDistance * p.half
  <1>1. /\ p.side \in {"long", "short"} /\ p.entry \in Int /\ p.stop \in Int /\ D \in Int
    BY PositionFields, Thresholds
  <1> HIDE DEF D
  <1>2. ASSUME NEW s \in Int, NEW x \in Int PROVE TrailedStop(p, s, x, Excursion(p, x)) \in Int
    <2>1. Behind(p.side, x, D) \in Int
      BY <1>1 DEF Behind
    <2> QED
      BY <1>1, <2>1 DEF TrailedStop, D
  <1>3. ASSUME NEW x \in Int PROVE LevelOf(p, x) \in Int
    <2> DEFINE t == TrailedStop(p, p.stop, x, Excursion(p, x))
    <2>1. t \in Int
      BY <1>1, <1>2
    <2> HIDE DEF t
    <2>2. Further(p.side, p.stop, t) \in Int
      BY <1>1, <2>1 DEF Further
    <2> QED
      BY <1>1, <2>2 DEF LevelOf, t
  <1>4. LevelOf(p, b) \in Int /\ LevelOf(p, c) \in Int
    BY <1>3
  <1>5. CASE p.half = 0
    BY <1>1, <1>5 DEF LevelOf, AtLeast
  <1>6. CASE p.half # 0
    <2> DEFINE t == TrailedStop(p, LevelOf(p, b), c, Excursion(p, c))
    <2>1. Further(p.side, b, c) = c
      BY <1>1 DEF Further, AtLeast
    <2>2. LevelOf(p, c) = Further(p.side, LevelOf(p, b), t)
      BY <1>6, <2>1, PullReachesLevel DEF TrailFits
    <2>3. t \in Int
      BY <1>2, <1>4
    <2> HIDE DEF t
    <2>4. AtLeast(p.side, Further(p.side, LevelOf(p, b), t), LevelOf(p, b))
      BY <1>1, <1>4, <2>3 DEF AtLeast, Further
    <2> QED
      BY <1>4, <2>2, <2>4
  <1> QED
    BY <1>4, <1>5, <1>6

StageAt(p, b) == StageOf(StopReason(p, LevelOf(p, b)))

\* A better price has a stage at least as far.
LEMMA StageMonotone ==
  ASSUME NEW p \in PositionType, TrailFits, NEW b \in Int, NEW c \in Int,
         Excursion(p, b) >= 0, AtLeast(p.side, c, b)
  PROVE  /\ StageAt(p, b) = "TRAILING" => StageAt(p, c) = "TRAILING"
         /\ StageAt(p, b) = "BREAKEVEN" => StageAt(p, c) # "INITIAL"
  <1> DEFINE l == LevelOf(p, b)
             k == LevelOf(p, c)
  <1>1. /\ p.side \in {"long", "short"} /\ p.entry \in Int /\ p.stop \in Int /\ p.half \in Nat
    BY PositionFields
  <1>2. l \in Int /\ k \in Int /\ AtLeast(p.side, k, l)
    BY LevelMonotone
  <1>3. AtLeast(p.side, l, p.stop)
    <2>1. TrailDistance * p.half \in Int
      BY Thresholds
    <2>2. \A t \in Int : AtLeast(p.side, Further(p.side, p.stop, t), p.stop)
      BY <1>1 DEF AtLeast, Further
    <2>3. TrailedStop(p, p.stop, b, Excursion(p, b)) \in Int
      <3>1. \A d \in Int : Behind(p.side, b, d) \in Int
        BY <1>1 DEF Behind
      <3> QED
        BY <1>1, <2>1, <3>1 DEF TrailedStop
    <2>4. AtLeast(p.side, p.stop, p.stop)
      BY <1>1 DEF AtLeast
    <2> QED
      BY <2>2, <2>3, <2>4 DEF LevelOf
  <1>4. ASSUME l # p.stop, l # p.entry PROVE Excursion(p, l) >= 0
    <2>1. Excursion(p, l) >= (TrailActivation - TrailDistance) * p.half
      BY <1>4, LevelProfit DEF TrailFits
    <2>2. (TrailActivation - TrailDistance) * p.half = TrailActivation * p.half - TrailDistance * p.half
      BY <1>1, ThresholdDifference, SettingsAssumption
    <2> DEFINE A == TrailActivation * p.half
               D == TrailDistance * p.half
    <2>3. A \in Nat /\ D \in Nat /\ D <= A
      BY Thresholds DEF TrailFits
    <2>4. Excursion(p, l) >= A - D
      BY <2>1, <2>2
    <2>5. Excursion(p, l) \in Int
      BY <1>1, <1>2 DEF Excursion
    <2> HIDE DEF A, D, l
    <2> QED
      BY <2>3, <2>4, <2>5
  <1> HIDE DEF l, k
  <1>5. l # p.stop => k # p.stop
    BY <1>1, <1>2, <1>3 DEF AtLeast
  <1>6. l # p.stop /\ l # p.entry => k # p.entry
    BY <1>1, <1>2, <1>4 DEF AtLeast, Excursion
  <1>7. StageAt(p, b) = StageOf(StopReason(p, l)) /\ StageAt(p, c) = StageOf(StopReason(p, k))
    BY DEF StageAt, l, k
  <1>8. \A s : /\ StageOf(StopReason(p, s)) = "TRAILING" <=> s # p.stop /\ s # p.entry
               /\ StageOf(StopReason(p, s)) = "INITIAL" <=> s = p.stop
    BY DEF StageOf, StopReason
  <1>9. StageAt(p, b) = "BREAKEVEN" => StageAt(p, b) # "INITIAL"
    OBVIOUS
  <1> QED
    BY <1>5, <1>6, <1>7, <1>8, <1>9

----------------------------------------------------------------------------
(* The candles since the entry, as the market and the manager move. *)

Since(cs, e) == SubSeq(cs, e + 1, Len(cs))

\* The list a is the candles of cs after the first e.
RestOf(a, cs, e) ==
  /\ a \in Seq(CandleType)
  /\ Len(a) = Len(cs) - e
  /\ \A i \in 1 .. Len(cs) - e : a[i] = cs[e + i]

\* What the filter ts > entry_ts leaves.
LEMMA SinceIs ==
  ASSUME NEW cs \in Seq(CandleType), NEW e \in 0 .. Len(cs)
  PROVE  RestOf(Since(cs, e), cs, e)
  <1> DEFINE n == Len(cs)
             m == e + 1
  <1>1. n \in Nat /\ m \in Int /\ n \in Int /\ \A i \in m .. n : cs[i] \in CandleType
    OBVIOUS
  <1>2. /\ SubSeq(cs, m, n) \in Seq(CandleType)
        /\ Len(SubSeq(cs, m, n)) = IF m <= n THEN n - m + 1 ELSE 0
        /\ \A i \in 1 .. n - m + 1 : SubSeq(cs, m, n)[i] = cs[m + i - 1]
    BY <1>1, SubSeqProperties
  <1>3. /\ Since(cs, e) = SubSeq(cs, m, n)
        /\ n - m + 1 = n - e /\ (IF m <= n THEN n - m + 1 ELSE 0) = n - e
        /\ \A i \in 1 .. n - e : m + i - 1 = e + i
    BY <1>1 DEF Since
  <1> QED
    BY <1>2, <1>3 DEF RestOf

\* A candle more since the entry.
LEMMA SinceAppend ==
  ASSUME NEW cs \in Seq(CandleType), NEW e \in 0 .. Len(cs), NEW c \in CandleType
  PROVE  Since(Append(cs, c), e) = Append(Since(cs, e), c)
  <1> DEFINE ds == Append(cs, c)
             a == Since(cs, e)
             b == Since(ds, e)
             r == Append(a, c)
  <1>1. /\ ds \in Seq(CandleType) /\ Len(ds) = Len(cs) + 1 /\ ds[Len(cs) + 1] = c
        /\ \A i \in 1 .. Len(cs) : ds[i] = cs[i]
    BY AppendProperties
  <1>2. e \in 0 .. Len(ds) /\ Len(cs) \in Nat
    BY <1>1
  <1>3. RestOf(a, cs, e)
    BY SinceIs
  <1> HIDE DEF ds
  <1>4. RestOf(b, ds, e)
    BY <1>1, <1>2, SinceIs
  <1> HIDE DEF a, b
  <1>5. /\ a \in Seq(CandleType) /\ Len(a) = Len(cs) - e
        /\ \A i \in 1 .. Len(cs) - e : a[i] = cs[e + i]
        /\ b \in Seq(CandleType) /\ Len(b) = Len(cs) + 1 - e
        /\ \A i \in 1 .. Len(cs) + 1 - e : b[i] = ds[e + i]
    BY <1>1, <1>3, <1>4 DEF RestOf
  <1>6. /\ r \in Seq(CandleType) /\ Len(r) = Len(a) + 1 /\ r[Len(a) + 1] = c
        /\ \A i \in 1 .. Len(a) : r[i] = a[i]
    BY <1>5, AppendProperties
  <1> HIDE DEF r
  <1>7. ASSUME NEW i \in 1 .. Len(b) PROVE b[i] = r[i]
    <2>1. CASE i <= Len(a)
      <3>1. i \in 1 .. Len(a) /\ i \in 1 .. Len(cs) - e /\ e + i \in 1 .. Len(cs)
            /\ i \in 1 .. Len(cs) + 1 - e
        BY <1>2, <1>5, <2>1
      <3> QED
        BY <1>1, <1>5, <1>6, <3>1
    <2>2. CASE i > Len(a)
      <3>1. i = Len(a) + 1 /\ e + i = Len(cs) + 1 /\ i \in 1 .. Len(cs) + 1 - e
        BY <1>2, <1>5, <2>2
      <3> QED
        BY <1>1, <1>5, <1>6, <3>1
    <2> QED
      BY <1>5, <2>1, <2>2
  <1>8. Len(b) = Len(r)
    BY <1>2, <1>5, <1>6
  <1>9. b = r
    BY <1>5, <1>6, <1>7, <1>8, SeqEqual
  <1> QED
    BY <1>9 DEF a, b, r, ds

\* The forming candle grows since the entry too, unless it is the entry's.
LEMMA SinceGrown ==
  ASSUME NEW cs \in Seq(CandleType), NEW ds \in Seq(CandleType), Grown(cs, ds),
         NEW e \in 0 .. Len(cs)
  PROVE  IF e = Len(cs) THEN Since(ds, e) = Since(cs, e)
                        ELSE Grown(Since(cs, e), Since(ds, e))
  <1> DEFINE a == Since(cs, e)
             b == Since(ds, e)
  <1>1. /\ Len(ds) = Len(cs) /\ Len(cs) \in Nat /\ e \in 0 .. Len(ds)
    BY DEF Grown
  <1>2. RestOf(a, cs, e) /\ RestOf(b, ds, e)
    BY <1>1, SinceIs
  <1> HIDE DEF a, b
  <1>3. /\ a \in Seq(CandleType) /\ Len(a) = Len(cs) - e
        /\ \A i \in 1 .. Len(cs) - e : a[i] = cs[e + i]
        /\ b \in Seq(CandleType) /\ Len(b) = Len(cs) - e
        /\ \A i \in 1 .. Len(cs) - e : b[i] = ds[e + i]
    BY <1>1, <1>2 DEF RestOf
  <1>4. CASE e = Len(cs)
    <2>1. Len(a) = Len(b) /\ \A i \in 1 .. Len(b) : b[i] = a[i]
      BY <1>1, <1>3, <1>4
    <2>2. b = a
      BY <1>3, <2>1, SeqEqual
    <2> QED
      BY <1>4, <2>2 DEF a, b
  <1>5. CASE e # Len(cs)
    <2>1. Len(a) > 0 /\ Len(b) = Len(a) /\ Len(a) \in Nat
      BY <1>1, <1>3, <1>5
    <2>2. ASSUME NEW i \in 1 .. Len(a) - 1 PROVE a[i] = b[i]
      <3>1. i \in 1 .. Len(cs) - e /\ e + i \in 1 .. Len(cs) - 1
        BY <1>1, <1>3, <2>1
      <3> QED
        BY <1>3, <3>1 DEF Grown
    <2>3. a[Len(a)] = cs[Len(cs)] /\ b[Len(a)] = ds[Len(cs)]
      <3>1. Len(a) \in 1 .. Len(cs) - e /\ e + Len(a) = Len(cs)
        BY <1>1, <1>3, <2>1
      <3> QED
        BY <1>3, <3>1
    <2>4. Grown(a, b)
      BY <2>1, <2>2, <2>3 DEF Grown
    <2> QED
      BY <1>5, <2>4 DEF a, b
  <1> QED
    BY <1>4, <1>5

----------------------------------------------------------------------------
(* The invariant of the replay.  The manager stores no walk: what it would  *)
(* find now is computed from the candles, and it is compared with what a    *)
(* manager that never sleeps found at the time.                             *)

Seen == Since(candles, entryAt)
Now == WalkOutcome(pos, Seen, Len(candles))

ReplayTypes ==
  /\ candles \in Seq(CandleType) /\ Len(candles) > 0
  /\ price \in Int
  /\ pos \in Positions
  /\ state \in {"PENDING", "OPEN", "CLOSED"}

\* The first exit ever found stays in its candle, and is found by any replay.
EagerIsNow ==
  /\ eager.price \in Int
  /\ state = "PENDING" => eager = NoOutcome
  /\ state # "PENDING" =>
       /\ entryAt \in 1 .. Len(candles)
       /\ eager = NoOutcome <=> Now = NoOutcome
       /\ eager # NoOutcome => NotBetter(pos, eager, Now)

ClosedByNow ==
  /\ state # "CLOSED" => exit = NoOutcome
  /\ exit.reason \in WalkReasons => exit = Now

ReplayInv == ReplayTypes /\ EagerIsNow /\ ClosedByNow

\* The candles since the entry fit into the window the exchange returns.
HistoryFits == state = "OPEN" => Len(candles) - entryAt <= Window

\* Then the replay sees all of them.
LEMMA ReplayedIsSeen ==
  ASSUME ReplayInv, state = "OPEN", HistoryFits
  PROVE  Replayed(candles, entryAt) = Seen
  <1>1. /\ Len(candles) \in Nat /\ entryAt \in 1 .. Len(candles)
        /\ Len(candles) - entryAt <= Window /\ Window \in Nat
    BY ReplayAssumption DEF ReplayInv, ReplayTypes, EagerIsNow, HistoryFits
  <1> DEFINE first == IF Len(candles) > Window THEN Len(candles) - Window + 1 ELSE 1
             from == IF entryAt + 1 > first THEN entryAt + 1 ELSE first
  <1>2. from = entryAt + 1
    BY <1>1
  <1>3. Replayed(candles, entryAt) = SubSeq(candles, from, Len(candles))
    BY Zenon DEF Replayed
  <1> HIDE DEF from
  <1> QED
    BY <1>2, <1>3 DEF Seen, Since

\* No outcome has a worse one than itself, and worse is transitive.
LEMMA NotBetterOrder ==
  ASSUME NEW p \in PositionType, NEW a, NEW b, NEW c,
         a.price \in Int, b.price \in Int, c.price \in Int
  PROVE  /\ a # NoOutcome => NotBetter(p, a, a)
         /\ NotBetter(p, a, b) /\ NotBetter(p, b, c) => NotBetter(p, a, c)
  <1>1. p.side \in {"long", "short"}
    BY PositionFields
  <1>2. AtLeast(p.side, a.price, a.price)
    BY DEF AtLeast
  <1>3. AtLeast(p.side, a.price, b.price) /\ AtLeast(p.side, b.price, c.price)
          => AtLeast(p.side, a.price, c.price)
    BY <1>1 DEF AtLeast
  <1> QED
    BY <1>2, <1>3 DEF NotBetter

\* The price of every outcome is a number.
LEMMA OutcomePrice ==
  ASSUME NEW p \in PositionType, NEW cs \in Seq(CandleType), NEW n
  PROVE  WalkOutcome(p, cs, n).price \in Int
  <1>1. Walked(p, cs) \in WalkType
    BY WalkedType DEF Walks
  <1>2. Walked(p, cs).exit.price \in Int
    BY <1>1 DEF WalkType, ExitType
  <1> QED
    BY <1>2 DEF WalkOutcome, NoOutcome

\* The candles after a trade in the forming candle.
LEMMA TickGrows ==
  ASSUME ReplayTypes, NEW x \in Int, Tick(x)
  PROVE  /\ candles' \in Seq(CandleType) /\ Len(candles') = Len(candles)
         /\ Grown(candles, candles')
         /\ LET n == Len(candles)
            IN n > 1 => candles'[n].low <= x /\ x <= candles'[n].high
  <1> DEFINE n == Len(candles)
             c == candles[n]
             d == [low |-> Lower(c.low, x), high |-> Higher(c.high, x)]
  <1>1. /\ candles \in Seq(CandleType) /\ n \in Nat /\ n > 0 /\ n \in 1 .. n
        /\ c \in CandleType
    BY DEF ReplayTypes
  <1>2. candles' = IF n = 1 THEN candles ELSE [candles EXCEPT ![n] = d]
    BY DEF Tick
  <1>3. /\ c.low \in Int /\ c.high \in Int /\ c.low <= c.high
        /\ d.low = Lower(c.low, x) /\ d.high = Higher(c.high, x)
    BY <1>1 DEF CandleType
  <1>4. /\ d.low <= c.low /\ c.high <= d.high /\ d.low <= x /\ x <= d.high
        /\ d.low \in Int /\ d.high \in Int /\ d.low <= d.high
        /\ c.low <= c.low /\ c.high <= c.high
    BY <1>3 DEF Lower, Higher
  <1>5. d \in CandleType
    BY <1>4 DEF CandleType
  <1> HIDE DEF c, d
  <1>6. CASE n = 1
    BY <1>1, <1>2, <1>4, <1>6 DEF Grown, c
  <1>7. CASE n # 1
    <2>1. candles' = [candles EXCEPT ![n] = d]
      BY <1>2, <1>7
    <2>2. /\ candles' \in Seq(CandleType) /\ Len(candles') = n
          /\ \A i \in 1 .. n : candles'[i] = IF i = n THEN d ELSE candles[i]
      BY <1>1, <1>5, <2>1, ExceptSeq
    <2> QED
      BY <1>1, <1>4, <2>2 DEF Grown, c
  <1> QED
    BY <1>6, <1>7

\* The candles after a new one opens.
LEMMA RollAppends ==
  ASSUME ReplayTypes, NEW x \in Int, Roll(x)
  PROVE  /\ candles' \in Seq(CandleType) /\ Len(candles') = Len(candles) + 1
         /\ [low |-> x, high |-> x] \in CandleType
         /\ candles' = Append(candles, [low |-> x, high |-> x])
  <1>1. [low |-> x, high |-> x] \in CandleType
    BY DEF CandleType
  <1> QED
    BY <1>1, AppendProperties DEF ReplayTypes, Roll

\* The histories follow the market.
LEMMA MarketKeepsEager ==
  ASSUME ReplayInv, NEW x \in Int, Tick(x) \/ Roll(x)
  PROVE  EagerIsNow'
  <1>1. /\ ReplayTypes /\ EagerIsNow /\ state' = state /\ pos' = pos /\ entryAt' = entryAt
        /\ state # "CLOSED" /\ Learn(x, candles')
        /\ candles \in Seq(CandleType) /\ Len(candles) > 0 /\ Len(candles) \in Nat
        /\ pos \in PositionType /\ Len(candles) \in Int
    BY PositionsAssumption DEF ReplayInv, ReplayTypes, Tick, Roll
  <1>2. CASE state = "PENDING"
    <2>1. eager' = eager /\ eager = NoOutcome
      BY <1>1, <1>2 DEF Learn, EagerIsNow
    <2> QED
      BY <1>1, <1>2, <2>1 DEF EagerIsNow
  <1>3. CASE state = "OPEN"
    <2> DEFINE n == Len(candles')
               a == Seen
               b == Since(candles', entryAt)
               old == WalkOutcome(pos, a, Len(candles))
               new == WalkOutcome(pos, b, n)
    <2>1. /\ entryAt \in 1 .. Len(candles) /\ entryAt \in 0 .. Len(candles)
          /\ eager = NoOutcome <=> old = NoOutcome
          /\ eager # NoOutcome => NotBetter(pos, eager, old)
      BY <1>1, <1>3 DEF EagerIsNow, Now
    <2>2. /\ candles' \in Seq(CandleType) /\ Len(candles) <= n /\ n \in Nat
          /\ a \in Seq(CandleType)
      <3>1. candles' \in Seq(CandleType) /\ (n = Len(candles) \/ n = Len(candles) + 1)
        BY <1>1, TickGrows, RollAppends
      <3>2. RestOf(a, candles, entryAt)
        BY <1>1, <2>1, SinceIs DEF Seen
      <3> QED
        BY <1>1, <3>1, <3>2 DEF RestOf
    <2>3. b \in Seq(CandleType)
      <3>1. entryAt \in 0 .. Len(candles')
        BY <2>1, <2>2
      <3>2. RestOf(b, candles', entryAt)
        BY <2>2, <3>1, SinceIs
      <3> QED
        BY <3>2 DEF RestOf
    <2>4. eager' = IF eager # NoOutcome THEN eager ELSE new
      BY <1>1, <1>3 DEF Learn, Since
    <2>5. old # NoOutcome => NotBetter(pos, old, new)
      <3> SUFFICES ASSUME old # NoOutcome PROVE NotBetter(pos, old, new)
        OBVIOUS
      <3>1. CASE Tick(x)
        <4>1. n = Len(candles) /\ Grown(candles, candles')
          BY <1>1, <3>1, TickGrows
        <4>2. IF entryAt = Len(candles) THEN b = a ELSE Grown(a, b)
          BY <1>1, <2>1, <2>2, <4>1, SinceGrown DEF Seen
        <4>3. CASE entryAt = Len(candles)
          <5>1. new = old
            BY <4>1, <4>2, <4>3
          <5>2. old.price \in Int
            BY <1>1, <2>2, OutcomePrice
          <5> HIDE DEF old, new
          <5> QED
            BY <1>1, <5>1, <5>2, NotBetterOrder
        <4>4. CASE entryAt # Len(candles)
          <5>1. Grown(a, b)
            BY <4>2, <4>4
          <5> DEFINE k == Len(candles)
          <5>2. NotBetter(pos, WalkOutcome(pos, a, k), WalkOutcome(pos, b, k))
            <6>1. WalkOutcome(pos, a, k) # NoOutcome
              OBVIOUS
            <6> HIDE DEF a, b, k
            <6> QED
              BY <1>1, <2>2, <2>3, <5>1, <6>1, OutcomeGrown DEF k
          <5> QED
            BY <4>1, <5>2
        <4> QED
          BY <4>3, <4>4
      <3>2. CASE Roll(x)
        <4> DEFINE c == [low |-> x, high |-> x]
                   k == Len(candles)
        <4>1. c \in CandleType /\ candles' = Append(candles, c) /\ n = k + 1
          BY <1>1, <3>2, RollAppends
        <4> HIDE DEF c
        <4>2. b = Append(a, c)
          BY <1>1, <2>1, <4>1, SinceAppend DEF Seen
        <4>3. NotBetter(pos, WalkOutcome(pos, a, k), WalkOutcome(pos, Append(a, c), k + 1))
          <5>1. WalkOutcome(pos, a, k) # NoOutcome /\ k \in Int
            BY <1>1
          <5> HIDE DEF a, k
          <5> QED
            BY <1>1, <2>2, <4>1, <5>1, OutcomeAppend
        <4> QED
          BY <4>1, <4>2, <4>3
      <3> QED
        BY <1>1, <3>1, <3>2
    <2>6. old.price \in Int /\ new.price \in Int
      BY <1>1, <2>2, <2>3, OutcomePrice
    <2>7. Now' = new /\ entryAt' \in 1 .. n /\ state' # "PENDING" /\ state' = "OPEN"
      BY <1>1, <1>3, <2>1, <2>2 DEF Now, Seen
    <2> HIDE DEF old, new, a, b, n
    <2>8. CASE eager = NoOutcome
      <3>1. eager' = new /\ (new # NoOutcome => NotBetter(pos, new, new))
        BY <1>1, <2>4, <2>6, <2>8, NotBetterOrder
      <3> QED
        BY <1>1, <2>6, <2>7, <3>1 DEF EagerIsNow, n
    <2>9. CASE eager # NoOutcome
      <3>1. /\ eager' = eager /\ NotBetter(pos, eager, old) /\ NotBetter(pos, old, new)
            /\ new # NoOutcome
        BY <2>1, <2>4, <2>5, <2>9 DEF NotBetter
      <3>2. NotBetter(pos, eager, new)
        <4>1. eager.price \in Int
          BY <1>1 DEF EagerIsNow
        <4> QED
          BY <1>1, <2>6, <3>1, <4>1, NotBetterOrder
      <3> QED
        BY <1>1, <2>7, <2>9, <3>1, <3>2 DEF EagerIsNow, n
    <2> QED
      BY <2>8, <2>9
  <1> QED
    BY <1>1, <1>2, <1>3 DEF ReplayTypes

\* What a cycle of the manager does.
LEMMA PollDoes ==
  ASSUME ReplayInv, HistoryFits, Poll
  PROVE  /\ state = "OPEN" /\ UNCHANGED <<candles, price, pos, entryAt, eager>>
         /\ Now # NoOutcome => exit' = Now /\ state' = "CLOSED"
         /\ exit'.reason \in WalkReasons => exit' = Now
         /\ state' # "CLOSED" => exit' = NoOutcome /\ Now = NoOutcome
         /\ \/ state' = "CLOSED" /\ UNCHANGED <<stage, reported, crossed>>
            \/ /\ state' = "OPEN" /\ crossed' = "no"
               /\ stage' = StageOf(StopReason(pos, CurrentStop(pos, Seen)))
               /\ reported' = [stop |-> CurrentStop(pos, Seen), at |-> Len(candles)]
  <1>1. state = "OPEN" /\ UNCHANGED <<candles, price, pos, entryAt, eager>>
    BY DEF Poll
  <1>2. Replayed(candles, entryAt) = Seen
    BY <1>1, ReplayedIsSeen
  <1>3. exit = NoOutcome
    BY <1>1 DEF ReplayInv, ClosedByNow
  <1>4. PICK delisted \in BOOLEAN, extreme \in BOOLEAN :
          LET outcome == FindExit(candles, delisted, extreme)
              stop == CurrentStop(pos, Seen)
          IN IF outcome # NoOutcome
               THEN /\ state' = "CLOSED"
                    /\ exit' = outcome
                    /\ UNCHANGED <<stage, reported, crossed>>
               ELSE /\ stage' = StageOf(StopReason(pos, stop))
                    /\ reported' = [stop |-> stop, at |-> Len(candles)]
                    /\ crossed' = "no"
                    /\ UNCHANGED <<state, exit>>
    BY <1>2 DEF Poll
  <1> DEFINE outcome == FindExit(candles, delisted, extreme)
  <1>5. /\ Now # NoOutcome => outcome = Now
        /\ Now = NoOutcome => outcome.reason \notin WalkReasons
    BY <1>2 DEF FindExit, Now, NoOutcome, WalkReasons
  <1>6. NoOutcome.reason \notin WalkReasons
    BY DEF NoOutcome, WalkReasons
  <1> HIDE DEF outcome
  <1>7. CASE outcome # NoOutcome
    <2>1. state' = "CLOSED" /\ exit' = outcome /\ UNCHANGED <<stage, reported, crossed>>
      BY <1>4, <1>7 DEF outcome
    <2> QED
      BY <1>1, <1>5, <2>1
  <1>8. CASE outcome = NoOutcome
    <2>1. /\ stage' = StageOf(StopReason(pos, CurrentStop(pos, Seen)))
          /\ reported' = [stop |-> CurrentStop(pos, Seen), at |-> Len(candles)]
          /\ crossed' = "no" /\ UNCHANGED <<state, exit>>
      BY <1>4, <1>8 DEF outcome
    <2> QED
      BY <1>1, <1>3, <1>5, <1>6, <1>8, <2>1
  <1> QED
    BY <1>7, <1>8

\* The invariant holds before the position is opened.
LEMMA InitReplayInv == Init => ReplayInv
  <1> SUFFICES ASSUME Init PROVE ReplayInv
    OBVIOUS
  <1>1. price \in Int /\ candles = <<[low |-> price, high |-> price]>>
    BY ReplayAssumption DEF Init
  <1>2. [low |-> price, high |-> price] \in CandleType
    BY <1>1 DEF CandleType
  <1>3. candles \in Seq(CandleType) /\ Len(candles) > 0
    BY <1>1, <1>2
  <1>4. NoOutcome.price \in Int /\ NoOutcome.reason \notin WalkReasons
    BY DEF NoOutcome, WalkReasons
  <1> QED
    BY <1>1, <1>3, <1>4 DEF Init, ReplayInv, ReplayTypes, EagerIsNow, ClosedByNow

\* It is kept by every step while the history fits.
LEMMA NextReplayInv == ReplayInv /\ HistoryFits /\ [Next]_vars => ReplayInv'
  <1> SUFFICES ASSUME ReplayInv, HistoryFits, [Next]_vars PROVE ReplayInv'
    OBVIOUS
  <1>1. /\ ReplayTypes /\ EagerIsNow /\ ClosedByNow /\ pos \in PositionType
        /\ candles \in Seq(CandleType) /\ Len(candles) \in Nat /\ Len(candles) > 0
    BY PositionsAssumption DEF ReplayInv, ReplayTypes
  <1>2. ASSUME NEW x \in Prices, Tick(x) \/ Roll(x) PROVE ReplayInv'
    <2>1. x \in Int
      BY ReplayAssumption
    <2>2. EagerIsNow'
      BY <1>2, <2>1, MarketKeepsEager
    <2>3. candles' \in Seq(CandleType) /\ Len(candles') > 0
      <3>1. candles' \in Seq(CandleType) /\ (Len(candles') = Len(candles) \/ Len(candles') = Len(candles) + 1)
        BY <1>1, <1>2, <2>1, TickGrows, RollAppends
      <3> QED
        BY <1>1, <3>1
    <2>4. state # "CLOSED" /\ UNCHANGED <<pos, state, exit>> /\ price' = x
      BY <1>2 DEF Tick, Roll
    <2>5. ReplayTypes'
      BY <1>1, <2>1, <2>3, <2>4 DEF ReplayTypes
    <2>6. ClosedByNow'
      <3>1. exit = NoOutcome /\ exit' = exit
        BY <1>1, <2>4 DEF ClosedByNow
      <3>2. NoOutcome.reason \notin WalkReasons
        BY DEF NoOutcome, WalkReasons
      <3> QED
        BY <3>1, <3>2 DEF ClosedByNow
    <2> QED
      BY <2>2, <2>5, <2>6 DEF ReplayInv
  <1>3. CASE Open(pos)
    <2>1. /\ state = "PENDING" /\ state' = "OPEN" /\ pos' = pos
          /\ UNCHANGED <<candles, price, exit>>
          /\ entryAt' \in 1 .. Len(candles)
      BY <1>1, <1>3 DEF Open
    <2> DEFINE a == Since(candles, entryAt')
               o == WalkOutcome(pos, a, Len(candles))
    <2>2. eager' = o
      BY <1>3 DEF Open, Since
    <2>3. Now' = o
      BY <2>1 DEF Now, Seen
    <2>4. a \in Seq(CandleType)
      <3> DEFINE e == entryAt'
      <3>1. e \in 0 .. Len(candles)
        BY <2>1
      <3> HIDE DEF e
      <3>2. RestOf(Since(candles, e), candles, e)
        BY <1>1, <3>1, SinceIs
      <3> QED
        BY <3>2 DEF RestOf, e
    <2>5. o.price \in Int
      BY <1>1, <2>4, OutcomePrice
    <2> HIDE DEF o, a
    <2>6. o # NoOutcome => NotBetter(pos, o, o)
      BY <1>1, <2>5, NotBetterOrder
    <2>7. EagerIsNow'
      BY <2>1, <2>2, <2>3, <2>5, <2>6 DEF EagerIsNow
    <2>8. ReplayTypes'
      BY <1>1, <2>1 DEF ReplayTypes
    <2>9. ClosedByNow'
      <3>1. exit = NoOutcome /\ exit' = exit
        BY <1>1, <2>1 DEF ClosedByNow
      <3>2. NoOutcome.reason \notin WalkReasons
        BY DEF NoOutcome, WalkReasons
      <3> QED
        BY <3>1, <3>2 DEF ClosedByNow
    <2> QED
      BY <2>7, <2>8, <2>9 DEF ReplayInv
  <1>4. CASE Poll
    <2>1. /\ state = "OPEN" /\ UNCHANGED <<candles, price, pos, entryAt, eager>>
          /\ exit'.reason \in WalkReasons => exit' = Now
          /\ state' # "CLOSED" => exit' = NoOutcome
          /\ state' \in {"OPEN", "CLOSED"}
      BY <1>4, PollDoes
    <2>2. Now' = Now
      BY <2>1 DEF Now, Seen, Since
    <2>3. ReplayTypes'
      BY <1>1, <2>1 DEF ReplayTypes
    <2>4. EagerIsNow'
      BY <1>1, <2>1, <2>2 DEF EagerIsNow
    <2>5. ClosedByNow'
      BY <2>1, <2>2 DEF ClosedByNow
    <2> QED
      BY <2>3, <2>4, <2>5 DEF ReplayInv
  <1>5. CASE UNCHANGED vars
    <2>1. UNCHANGED <<candles, price, pos, state, entryAt, exit, eager>>
      BY <1>5 DEF vars
    <2>2. Now' = Now
      BY <2>1 DEF Now, Seen, Since
    <2> QED
      BY <1>1, <2>1, <2>2 DEF ReplayInv, ReplayTypes, EagerIsNow, ClosedByNow
  <1> QED
    BY <1>2, <1>3, <1>4, <1>5 DEF Next

\* It is invariant.
LEMMA ReplayInvariant == Spec /\ []HistoryFits => []ReplayInv
  BY InitReplayInv, NextReplayInv, PTL DEF Spec

\* A position whose history fits in the window, and whose target lies beyond its
\* entry and stop, is closed by the walk in the candle in which a manager that
\* never sleeps would have closed it, and never at a better price.
THEOREM DowntimeDoesNotMoveTheExit ==
  (\A p \in Positions : TargetAhead(p)) => (Spec /\ []HistoryFits => []LateExitIsTheSame)
  <1> SUFFICES ASSUME \A p \in Positions : TargetAhead(p)
               PROVE  Spec /\ []HistoryFits => []LateExitIsTheSame
    OBVIOUS
  <1>1. ReplayInv => LateExitIsTheSame
    <2> SUFFICES ASSUME ReplayInv, exit.reason \in WalkReasons
                 PROVE  /\ eager # NoOutcome /\ exit.at = eager.at
                        /\ AtLeast(pos.side, eager.price, exit.price)
      BY DEF LateExitIsTheSame
    <2>1. NoOutcome.reason \notin WalkReasons
      BY DEF NoOutcome, WalkReasons
    <2>2. exit = Now /\ Now # NoOutcome /\ state = "CLOSED" /\ TargetAhead(pos)
      BY <2>1 DEF ReplayInv, ClosedByNow, ReplayTypes
    <2>3. eager # NoOutcome /\ NotBetter(pos, eager, Now)
      BY <2>2 DEF ReplayInv, EagerIsNow
    <2> QED
      BY <2>2, <2>3 DEF NotBetter
  <1> QED
    BY <1>1, ReplayInvariant, PTL

\* A cycle that does not close the position by the walk comes before any exit of
\* the walk, however long the manager was down: the history fits in the window.
THEOREM DowntimeLosesNoExit == Spec /\ []HistoryFits => MissedExitIsCaught
  <1>1. ReplayInv /\ HistoryFits /\ [Next]_vars =>
          [Poll /\ exit'.reason \notin WalkReasons => eager = NoOutcome]_vars
    <2> SUFFICES ASSUME ReplayInv, HistoryFits, Poll, exit'.reason \notin WalkReasons
                 PROVE  eager = NoOutcome
      OBVIOUS
    <2>1. state = "OPEN" /\ (Now # NoOutcome => exit' = Now)
      BY PollDoes
    <2>2. CASE Now = NoOutcome
      BY <2>1, <2>2 DEF ReplayInv, EagerIsNow
    <2>3. CASE Now # NoOutcome
      <3>1. /\ pos \in PositionType /\ candles \in Seq(CandleType)
            /\ entryAt \in 0 .. Len(candles)
        BY <2>1, PositionsAssumption DEF ReplayInv, ReplayTypes, EagerIsNow
      <3> DEFINE a == Seen
      <3>2. a \in Seq(CandleType)
        BY <3>1, SinceIs DEF RestOf, Seen
      <3> HIDE DEF a
      <3>3. Now = WalkOutcome(pos, a, Len(candles))
        BY DEF Now, a
      <3>4. PICK u \in 1 .. Len(a) : ExitIn(pos, a, u)
        BY <2>3, <3>1, <3>2, <3>3, FirstExit, OutcomeIff
      <3>5. Now.reason \in WalkReasons
        BY <3>1, <3>2, <3>3, <3>4, OutcomeIs
      <3> QED
        BY <2>1, <2>3, <3>5
    <2> QED
      BY <2>2, <2>3
  <1> QED
    BY <1>1, ReplayInvariant, PTL DEF Spec, MissedExitIsCaught

----------------------------------------------------------------------------
(* The reported stop.  What the manager reported is the level of a best     *)
(* price that the candles since the entry still show, in the candles that   *)
(* were complete when it was reported or, until the next one opens, in the  *)
(* forming one.                                                             *)

\* The best price of a walk without exit covers every price that was seen.
LEMMA BestCovers ==
  ASSUME NEW p \in PositionType, NEW cs \in Seq(CandleType), NEW k \in 0 .. Len(cs),
         WalkAt(p, cs, k).exit = NoExit, NEW j \in 0 .. k, NEW b \in Int, Reached(p, cs, j, b)
  PROVE  /\ WalkAt(p, cs, k).best \in Int /\ Excursion(p, WalkAt(p, cs, k).best) >= 0
         /\ AtLeast(p.side, WalkAt(p, cs, k).best, b)
  <1> DEFINE w == WalkAt(p, cs, k)
  <1>1. w \in WalkType /\ w.best \in Int /\ Excursion(p, w.best) >= 0
    BY WalkAtSteps DEF Walks, WalkFacts, WalkType
  <1>2. \A i \in 1 .. k : AtLeast(p.side, w.best, BestOf(p, cs[i]))
    BY HoldsAlways DEF HoldsAfter
  <1>3. \A i \in 1 .. k : BestOf(p, cs[i]) \in Int
    <2>1. \A i \in 1 .. k : cs[i] \in CandleType
      OBVIOUS
    <2> QED
      BY <2>1 DEF BestOf, CandleType
  <1>4. p.side \in {"long", "short"} /\ p.entry \in Int
    BY PositionFields
  <1> HIDE DEF w
  <1>5. CASE b = p.entry
    BY <1>1, <1>4, <1>5 DEF Excursion, AtLeast, w
  <1>6. CASE \E i \in 1 .. j : AtLeast(p.side, BestOf(p, cs[i]), b)
    <2>1. PICK i \in 1 .. j : AtLeast(p.side, BestOf(p, cs[i]), b)
      BY <1>6
    <2>2. i \in 1 .. k
      BY <2>1
    <2>3. /\ AtLeast(p.side, w.best, BestOf(p, cs[i])) /\ BestOf(p, cs[i]) \in Int
      BY <1>2, <1>3, <2>2
    <2>4. AtLeast(p.side, w.best, b)
      BY <1>1, <1>4, <2>1, <2>3 DEF AtLeast
    <2> QED
      BY <1>1, <2>4 DEF w
  <1> QED
    BY <1>5, <1>6 DEF Reached

\* A candle that goes through the level of a price seen before it ends the walk.
LEMMA CrossingExits ==
  ASSUME NEW p \in PositionType, NEW cs \in Seq(CandleType), TrailFits, Len(cs) > 0,
         NEW j \in 0 .. Len(cs) - 1, NEW b \in Int, Excursion(p, b) >= 0, Reached(p, cs, j, b),
         NEW x \in Int, cs[Len(cs)].low <= x, x <= cs[Len(cs)].high,
         TouchesStop(p, LevelOf(p, b), [low |-> x, high |-> x])
  PROVE  Walked(p, cs).exit # NoExit
  <1> DEFINE n == Len(cs)
             w == WalkAt(p, cs, n - 1)
             c == cs[n]
  <1>1. n \in Nat /\ n - 1 \in 0 .. n /\ n \in 1 .. n /\ n \in n - 1 .. n /\ c \in CandleType
    OBVIOUS
  <1>2. WalkAt(p, cs, n) = Walked(p, cs) /\ WalkAt(p, cs, n) = WalkOn(p, w, c) /\ w \in Walks(p)
    BY <1>1, WalkAtSteps
  <1>3. CASE w.exit # NoExit
    BY <1>2, <1>3 DEF WalkOn
  <1>4. CASE w.exit = NoExit
    <2>1. w.best \in Int /\ AtLeast(p.side, w.best, b)
      BY <1>1, <1>4, BestCovers
    <2>2. w \in WalkType /\ w.stop = LevelOf(p, w.best)
      BY <1>2 DEF Walks, WalkFacts
    <2> HIDE DEF w
    <2>3. /\ LevelOf(p, b) \in Int /\ w.stop \in Int
          /\ AtLeast(p.side, w.stop, LevelOf(p, b))
      BY <2>1, <2>2, LevelMonotone
    <2>4. /\ c.low \in Int /\ c.high \in Int /\ c.low <= x /\ x <= c.high
          /\ p.side \in {"long", "short"}
      BY <1>1, PositionFields DEF CandleType
    <2> HIDE DEF c
    <2>5. TouchesStop(p, w.stop, c)
      BY <2>3, <2>4 DEF TouchesStop, AtLeast
    <2>6. WalkOn(p, w, c).exit = [reason |-> StopReason(p, w.stop), price |-> w.stop]
      BY <1>4, <2>2, <2>5 DEF WalkOn, WalkCandle, WalkType
    <2>7. [reason |-> StopReason(p, w.stop), price |-> w.stop] # NoExit
      BY DEF StopReason, NoExit
    <2> QED
      BY <1>2, <2>6, <2>7 DEF c
  <1> QED
    BY <1>3, <1>4

\* What was seen is still seen when the last candle grows, or another opens.
LEMMA ReachedStays ==
  ASSUME NEW p \in PositionType, NEW cs \in Seq(CandleType), NEW ds \in Seq(CandleType),
         NEW k \in 0 .. Len(cs), NEW b \in Int, Reached(p, cs, k, b)
  PROVE  /\ Grown(cs, ds) => Reached(p, ds, k, b)
         /\ \A c \in CandleType, j \in k .. Len(cs) : Reached(p, Append(cs, c), j, b)
  <1>1. ASSUME Grown(cs, ds) PROVE Reached(p, ds, k, b)
    <2>1. CASE b = p.entry
      BY <2>1 DEF Reached
    <2>2. CASE b # p.entry
      <3>1. PICK i \in 1 .. k : AtLeast(p.side, BestOf(p, cs[i]), b)
        BY <2>2 DEF Reached
      <3>2. /\ i \in 1 .. Len(cs) /\ cs[i] \in CandleType /\ ds[i] \in CandleType
            /\ p.side \in {"long", "short"}
        BY <1>1, PositionFields DEF Grown
      <3>3. ds[i].low <= cs[i].low /\ cs[i].high <= ds[i].high
        <4>1. CASE i = Len(cs)
          BY <1>1, <4>1 DEF Grown
        <4>2. CASE i # Len(cs)
          <5>1. i \in 1 .. Len(cs) - 1
            BY <3>2, <4>2
          <5>2. cs[i] = ds[i]
            BY <1>1, <5>1 DEF Grown
          <5> QED
            BY <3>2, <5>2, SMTT(30) DEF CandleType
        <4> QED
          BY <4>1, <4>2
      <3>4. AtLeast(p.side, BestOf(p, ds[i]), b)
        <4>1. /\ cs[i].low \in Int /\ cs[i].high \in Int /\ ds[i].low \in Int /\ ds[i].high \in Int
          BY <3>2 DEF CandleType
        <4> QED
          BY <3>1, <3>2, <3>3, <4>1 DEF AtLeast, BestOf
      <3> QED
        BY <3>4 DEF Reached
    <2> QED
      BY <2>1, <2>2
  <1>2. ASSUME NEW c \in CandleType, NEW j \in k .. Len(cs)
        PROVE  Reached(p, Append(cs, c), j, b)
    <2>1. \A i \in 1 .. k : i \in 1 .. j /\ i \in 1 .. Len(cs) /\ Append(cs, c)[i] = cs[i]
      BY AppendProperties
    <2> QED
      BY <2>1 DEF Reached
  <1> QED
    BY <1>1, <1>2

\* The candles that were complete, or seen by the last cycle.
Whole == IF reported.at = Len(candles) THEN Len(candles) ELSE Len(candles) - 1

\* The price b stands behind the reported stop.
ReportedFor(b) ==
  /\ Excursion(pos, b) >= 0
  /\ reported.stop = LevelOf(pos, b)
  /\ Reached(pos, Seen, Whole - entryAt, b)

ReportStands ==
  /\ reported.at = 0 => stage = "INITIAL" /\ crossed = "no"
  /\ reported.at # 0 =>
       /\ state # "PENDING" /\ reported.at \in entryAt .. Len(candles)
       /\ stage = StageOf(StopReason(pos, reported.stop))
       /\ \E b \in Int : ReportedFor(b)
  /\ crossed = "later" => eager # NoOutcome

\* The market keeps the report standing, and goes through it only by an exit.
LEMMA MarketKeepsReport ==
  ASSUME ReplayInv, ReplayInv', TrailFits, ReportStands, NEW x \in Int, Tick(x) \/ Roll(x)
  PROVE  ReportStands'
  <1>1. /\ state' = state /\ pos' = pos /\ entryAt' = entryAt /\ reported' = reported
        /\ stage' = stage /\ Learn(x, candles')
        /\ candles \in Seq(CandleType) /\ Len(candles) > 0 /\ Len(candles) \in Nat
        /\ pos \in PositionType /\ state \in {"PENDING", "OPEN"} /\ ReplayTypes
    BY PositionsAssumption DEF ReplayInv, ReplayTypes, Tick, Roll
  <1>2. CASE state = "PENDING"
    <2>1. reported.at = 0 /\ UNCHANGED <<crossed, eager>>
      BY <1>1, <1>2 DEF Learn, ReportStands
    <2> QED
      BY <1>1, <2>1 DEF ReportStands
  <1>3. CASE state = "OPEN"
    <2> DEFINE n == Len(candles')
               a == Seen
               b == Since(candles', entryAt)
    <2>1. /\ entryAt \in 1 .. Len(candles) /\ entryAt \in 0 .. Len(candles)
          /\ EagerIsNow' /\ state' = "OPEN"
      BY <1>1, <1>3 DEF EagerIsNow, ReplayInv
    <2>2. candles' \in Seq(CandleType) /\ (n = Len(candles) \/ n = Len(candles) + 1) /\ n \in Nat
      <3>1. candles' \in Seq(CandleType) /\ (n = Len(candles) \/ n = Len(candles) + 1)
        BY <1>1, TickGrows, RollAppends
      <3> QED
        BY <1>1, <3>1
    <2>3. /\ RestOf(a, candles, entryAt) /\ RestOf(b, candles', entryAt)
          /\ entryAt \in 0 .. n
      <3>1. RestOf(a, candles, entryAt)
        BY <1>1, <2>1, SinceIs DEF Seen
      <3>2. entryAt \in 0 .. n
        BY <1>1, <2>1, <2>2
      <3> QED
        BY <2>2, <3>1, <3>2, SinceIs
    <2>4. /\ a \in Seq(CandleType) /\ Len(a) = Len(candles) - entryAt
          /\ b \in Seq(CandleType) /\ Len(b) = n - entryAt
      BY <2>3 DEF RestOf
    <2>5. /\ crossed' = IF PassesReported(x) /\ crossed # "later"
                        THEN IF n = reported.at THEN "same" ELSE "later"
                        ELSE crossed
          /\ eager # NoOutcome => eager' # NoOutcome
      BY <1>1, <1>3 DEF Learn
    <2>6. Seen' = b /\ Now' = WalkOutcome(pos, b, n)
      BY <1>1 DEF Now, Seen
    <2> HIDE DEF a, b
    <2>7. CASE reported.at = 0
      <3>1. ~PassesReported(x)
        BY <2>7 DEF PassesReported
      <3> QED
        BY <1>1, <2>5, <2>7, <3>1 DEF ReportStands
    <2>8. CASE reported.at # 0
      <3>1. /\ reported.at \in entryAt .. Len(candles)
            /\ stage = StageOf(StopReason(pos, reported.stop))
        BY <2>8 DEF ReportStands
      <3>2. PICK best \in Int : ReportedFor(best)
        BY <2>8 DEF ReportStands
      <3> DEFINE k == Whole - entryAt
                 j == Whole' - entryAt
      <3>3. /\ k \in 0 .. Len(a) /\ Reached(pos, a, k, best)
            /\ Excursion(pos, best) >= 0 /\ reported.stop = LevelOf(pos, best)
        <4>1. Reached(pos, a, k, best) /\ Excursion(pos, best) >= 0 /\ reported.stop = LevelOf(pos, best)
          BY <3>2 DEF ReportedFor, a
        <4>2. k \in 0 .. Len(a)
          BY <1>1, <2>1, <2>4, <3>1 DEF Whole
        <4> QED
          BY <4>1, <4>2
      <3>4. /\ Whole' = IF reported.at = n THEN n ELSE n - 1
            /\ reported.at \in entryAt .. n
        BY <1>1, <2>1, <2>2, <3>1 DEF Whole
      <3>5. /\ Reached(pos, b, j, best)
            /\ n # reported.at => b[Len(b)].low <= x /\ x <= b[Len(b)].high /\ Len(b) > 0
                                  /\ j \in 0 .. Len(b) - 1
        <4>1. CASE Tick(x)
          <5>1. n = Len(candles) /\ Grown(candles, candles') /\ j = k
            BY <1>1, <3>4, <4>1, TickGrows DEF Whole
          <5>2. IF entryAt = Len(candles) THEN b = a ELSE Grown(a, b)
            BY <1>1, <2>1, <2>2, <5>1, SinceGrown DEF a, b, Seen
          <5>3. Reached(pos, b, k, best)
            <6> HIDE DEF k
            <6>1. CASE entryAt = Len(candles)
              BY <3>3, <5>2, <6>1
            <6>2. CASE entryAt # Len(candles)
              <7>1. Grown(a, b)
                BY <5>2, <6>2
              <7> QED
                BY <1>1, <2>4, <3>3, <7>1, ReachedStays
            <6> QED
              BY <6>1, <6>2
          <5>4. ASSUME n # reported.at
                PROVE  b[Len(b)].low <= x /\ x <= b[Len(b)].high /\ Len(b) > 0
                       /\ j \in 0 .. Len(b) - 1
            <6>1. Len(candles) > 1 /\ entryAt < Len(candles)
              BY <1>1, <2>1, <3>1, <5>1, <5>4
            <6>2. candles'[n].low <= x /\ x <= candles'[n].high
              BY <1>1, <4>1, <5>1, <6>1, TickGrows
            <6>3. Len(b) \in 1 .. n - entryAt /\ entryAt + Len(b) = n /\ Len(b) > 0
              BY <1>1, <2>1, <2>4, <5>1, <6>1
            <6>4. b[Len(b)] = candles'[n]
              BY <2>3, <6>3 DEF RestOf
            <6>5. j \in 0 .. Len(b) - 1
              BY <1>1, <2>1, <2>2, <2>4, <3>4, <5>4, <6>1, <5>1
            <6> QED
              BY <6>2, <6>3, <6>4, <6>5
          <5> QED
            BY <5>1, <5>3, <5>4
        <4>2. CASE Roll(x)
          <5> DEFINE c == [low |-> x, high |-> x]
          <5>1. c \in CandleType /\ candles' = Append(candles, c) /\ n = Len(candles) + 1
            BY <1>1, <4>2, RollAppends
          <5>2. c.low = x /\ c.high = x
            OBVIOUS
          <5> HIDE DEF c
          <5>3. b = Append(a, c)
            BY <1>1, <2>1, <5>1, SinceAppend DEF Seen, a, b
          <5>4. /\ n # reported.at /\ Whole' = Len(candles) /\ j = Len(a) /\ j \in k .. Len(a)
                /\ Len(b) = Len(a) + 1 /\ b[Len(b)] = c /\ Len(a) \in Nat
            <6>1. n # reported.at /\ Whole' = Len(candles)
              BY <1>1, <2>1, <3>1, <3>4, <5>1
            <6>2. j = Len(a) /\ Len(a) \in Nat
              BY <1>1, <2>1, <2>4, <6>1
            <6>3. Len(b) = Len(a) + 1 /\ b[Len(a) + 1] = c
              BY <2>4, <5>1, <5>3, AppendProperties
            <6> HIDE DEF j, k
            <6>4. j \in k .. Len(a)
              BY <3>3, <6>2
            <6> QED
              BY <6>1, <6>2, <6>3, <6>4
          <5>5. Reached(pos, b, j, best)
            <6> HIDE DEF j, k
            <6> QED
              BY <1>1, <2>4, <3>3, <5>1, <5>3, <5>4, ReachedStays
          <5>6. j \in 0 .. Len(b) - 1 /\ x <= x /\ Len(b) > 0
            <6> HIDE DEF j
            <6> QED
              BY <5>4
          <5> QED
            BY <5>2, <5>4, <5>5, <5>6
        <4> QED
          BY <4>1, <4>2
      <3>6. ASSUME PassesReported(x), n # reported.at PROVE eager' # NoOutcome
        <4>1. TouchesStop(pos, LevelOf(pos, best), [low |-> x, high |-> x])
          BY <3>3, <3>6 DEF PassesReported
        <4>2. /\ Reached(pos, b, j, best) /\ j \in 0 .. Len(b) - 1 /\ Len(b) > 0
              /\ b[Len(b)].low <= x /\ x <= b[Len(b)].high
          BY <3>5, <3>6
        <4> HIDE DEF j
        <4>3. Walked(pos, b).exit # NoExit
          BY <1>1, <2>4, <3>3, <4>1, <4>2, CrossingExits
        <4>4. WalkOutcome(pos, b, n) # NoOutcome
          BY <1>1, <2>4, <4>3, OutcomeIff
        <4> QED
          BY <2>1, <2>6, <4>4 DEF EagerIsNow
      <3>7. \E z \in Int : ReportedFor(z)'
        <4> HIDE DEF k
        <4>1. ReportedFor(best)'
          BY <1>1, <2>6, <3>3, <3>5 DEF ReportedFor
        <4> QED
          BY <4>1
      <3>8. (\E z \in Int : ReportedFor(z))'
        BY <3>7
      <3>9. crossed' = "later" => eager' # NoOutcome
        <4>1. CASE crossed = "later"
          BY <2>5, <4>1 DEF ReportStands
        <4>2. CASE crossed # "later"
          BY <2>5, <3>6, <4>2
        <4> QED
          BY <4>1, <4>2
      <3> QED
        BY <1>1, <2>1, <2>8, <3>1, <3>4, <3>8, <3>9 DEF ReportStands
    <2> QED
      BY <2>7, <2>8
  <1> QED
    BY <1>1, <1>2, <1>3

\* A cycle that does not close the position reports the stop of its walk, whose
\* best price covers every price seen since the entry.
LEMMA PollReports ==
  ASSUME ReplayInv, HistoryFits, TrailFits, Poll, state' # "CLOSED"
  PROVE  \E b \in Int :
           /\ Excursion(pos, b) >= 0
           /\ reported' = [stop |-> LevelOf(pos, b), at |-> Len(candles)]
           /\ stage' = StageOf(StopReason(pos, LevelOf(pos, b)))
           /\ Reached(pos, Seen, Len(candles) - entryAt, b)
           /\ \A j \in 0 .. Len(candles) - entryAt, c \in Int :
                Reached(pos, Seen, j, c) => AtLeast(pos.side, b, c)
  <1>1. /\ state = "OPEN" /\ Now = NoOutcome
        /\ stage' = StageOf(StopReason(pos, CurrentStop(pos, Seen)))
        /\ reported' = [stop |-> CurrentStop(pos, Seen), at |-> Len(candles)]
    BY PollDoes
  <1>2. /\ pos \in PositionType /\ candles \in Seq(CandleType)
        /\ entryAt \in 0 .. Len(candles) /\ entryAt \in 1 .. Len(candles)
    BY <1>1, PositionsAssumption DEF ReplayInv, ReplayTypes, EagerIsNow
  <1> DEFINE a == Seen
             k == Len(candles) - entryAt
             w == WalkAt(pos, a, k)
  <1>3. a \in Seq(CandleType) /\ Len(a) = k /\ k \in 0 .. Len(a)
    <2>1. RestOf(a, candles, entryAt)
      BY <1>2, SinceIs DEF Seen
    <2>2. a \in Seq(CandleType) /\ Len(a) = k
      BY <2>1 DEF RestOf
    <2> QED
      BY <1>2, <2>2
  <1>4. Now = WalkOutcome(pos, a, Len(candles)) /\ CurrentStop(pos, Seen) = Monitored(pos, a).stop
    BY DEF Now, CurrentStop, Monitored
  <1> HIDE DEF a
  <1>5. /\ w = Walked(pos, a) /\ MonitorAt(pos, a, k) = Monitored(pos, a) /\ w \in Walks(pos)
    BY <1>2, <1>3, WalkAtSteps, MonitorAtSteps
  <1>6. w.exit = NoExit
    BY <1>1, <1>2, <1>3, <1>4, <1>5, OutcomeIff
  <1>7. /\ Monitored(pos, a) = [stop |-> w.stop, best |-> w.best]
        /\ Reached(pos, a, k, w.best)
    <2>1. HoldsAfter(pos, a, k)
      BY <1>2, <1>3, HoldsAlways
    <2> QED
      BY <1>5, <1>6, <2>1 DEF HoldsAfter
  <1>8. /\ w.best \in Int /\ Excursion(pos, w.best) >= 0 /\ w.stop = LevelOf(pos, w.best)
    BY <1>5 DEF Walks, WalkFacts, WalkType
  <1>9. \A j \in 0 .. k, c \in Int : Reached(pos, a, j, c) => AtLeast(pos.side, w.best, c)
    BY <1>2, <1>3, <1>6, BestCovers
  <1>10. CurrentStop(pos, Seen) = LevelOf(pos, w.best)
    BY <1>4, <1>7, <1>8
  <1> HIDE DEF w
  <1> QED
    BY <1>1, <1>7, <1>8, <1>9, <1>10 DEF a

\* A cycle renews the report.
LEMMA PollKeepsReport ==
  ASSUME ReplayInv, HistoryFits, TrailFits, ReportStands, Poll
  PROVE  ReportStands'
  <1>1. /\ state = "OPEN" /\ UNCHANGED <<candles, price, pos, entryAt, eager>>
        /\ \/ state' = "CLOSED" /\ UNCHANGED <<stage, reported, crossed>>
           \/ state' = "OPEN" /\ crossed' = "no"
    BY PollDoes
  <1>2. Seen' = Seen
    BY <1>1 DEF Seen, Since
  <1>3. CASE state' = "CLOSED"
    <2>1. UNCHANGED <<stage, reported, crossed>> /\ Whole' = Whole
      BY <1>1, <1>3 DEF Whole
    <2>2. (\E b \in Int : ReportedFor(b)) => (\E b \in Int : ReportedFor(b))'
      BY <1>1, <1>2, <2>1 DEF ReportedFor
    <2> QED
      BY <1>1, <1>3, <2>1, <2>2 DEF ReportStands
  <1>4. CASE state' = "OPEN" /\ crossed' = "no"
    <2>1. PICK b \in Int :
            /\ Excursion(pos, b) >= 0
            /\ reported' = [stop |-> LevelOf(pos, b), at |-> Len(candles)]
            /\ stage' = StageOf(StopReason(pos, LevelOf(pos, b)))
            /\ Reached(pos, Seen, Len(candles) - entryAt, b)
      BY <1>4, PollReports
    <2>2. /\ Whole' = Len(candles) /\ entryAt \in 1 .. Len(candles)
          /\ Len(candles) \in entryAt .. Len(candles)
      BY <1>1, <2>1 DEF Whole, ReplayInv, ReplayTypes, EagerIsNow
    <2>3. ReportedFor(b)'
      BY <1>1, <1>2, <2>1, <2>2 DEF ReportedFor
    <2>4. (\E c \in Int : ReportedFor(c))'
      BY <2>3
    <2>5. /\ reported'.at \in entryAt' .. Len(candles') /\ reported'.at # 0
          /\ stage' = StageOf(StopReason(pos', reported'.stop))
      BY <1>1, <2>1, <2>2
    <2> QED
      BY <1>4, <2>4, <2>5 DEF ReportStands
  <1> QED
    BY <1>1, <1>3, <1>4

\* The report stands in every state, when the trail is not wider than what
\* activates it.
LEMMA ReportInvariant == TrailFits => (Spec /\ []HistoryFits => []ReportStands)
  <1> SUFFICES ASSUME TrailFits PROVE Spec /\ []HistoryFits => []ReportStands
    OBVIOUS
  <1>1. Init => ReportStands
    BY DEF Init, ReportStands
  <1>2. ReplayInv /\ ReplayInv' /\ HistoryFits /\ ReportStands /\ [Next]_vars => ReportStands'
    <2> SUFFICES ASSUME ReplayInv, ReplayInv', HistoryFits, ReportStands, [Next]_vars
                 PROVE  ReportStands'
      OBVIOUS
    <2>1. ASSUME NEW x \in Prices, Tick(x) \/ Roll(x) PROVE ReportStands'
      <3>1. x \in Int
        BY ReplayAssumption
      <3> QED
        BY <2>1, <3>1, MarketKeepsReport
    <2>2. CASE Open(pos)
      <3>1. reported.at = 0 /\ UNCHANGED <<stage, reported, crossed>>
        BY <2>2 DEF Open, ReportStands
      <3> QED
        BY <3>1 DEF ReportStands
    <2>3. CASE Poll
      BY <2>3, PollKeepsReport
    <2>4. CASE UNCHANGED vars
      <3>1. UNCHANGED <<candles, pos, state, entryAt, stage, eager, reported, crossed>>
        BY <2>4 DEF vars
      <3>2. Seen' = Seen /\ Whole' = Whole
        BY <3>1 DEF Seen, Since, Whole
      <3>3. (\E b \in Int : ReportedFor(b)) => (\E b \in Int : ReportedFor(b))'
        BY <3>1, <3>2 DEF ReportedFor
      <3> QED
        BY <3>1, <3>3 DEF ReportStands
    <2> QED
      BY <2>1, <2>2, <2>3, <2>4 DEF Next
  <1> QED
    BY <1>1, <1>2, ReplayInvariant, PTL DEF Spec

\* The stage stored for a position never goes back, whatever the forming candles
\* looked like and however many cycles were missed, while the history fits in the
\* window and the trail is not wider than what activates it.
THEOREM StageOnlyAdvances ==
  TrailFits => (Spec /\ []HistoryFits => StageNeverRegresses)
  <1> SUFFICES ASSUME TrailFits PROVE Spec /\ []HistoryFits => StageNeverRegresses
    OBVIOUS
  <1>1. ReplayInv /\ HistoryFits /\ ReportStands /\ [Next]_vars =>
          [/\ stage = "TRAILING" => stage' = "TRAILING"
           /\ stage = "BREAKEVEN" => stage' # "INITIAL"]_stage
    <2> SUFFICES ASSUME ReplayInv, HistoryFits, ReportStands, [Next]_vars, stage' # stage
                 PROVE  /\ stage = "TRAILING" => stage' = "TRAILING"
                        /\ stage = "BREAKEVEN" => stage' # "INITIAL"
      OBVIOUS
    <2>1. Poll
      BY DEF Next, Tick, Roll, Open, vars
    <2>2. /\ state = "OPEN" /\ state' # "CLOSED"
      BY <2>1, PollDoes
    <2>3. CASE reported.at = 0
      BY <2>3 DEF ReportStands
    <2>4. CASE reported.at # 0
      <3>1. PICK b \in Int : ReportedFor(b)
        BY <2>4 DEF ReportStands
      <3>2. PICK c \in Int :
              /\ stage' = StageOf(StopReason(pos, LevelOf(pos, c)))
              /\ \A j \in 0 .. Len(candles) - entryAt, z \in Int :
                   Reached(pos, Seen, j, z) => AtLeast(pos.side, c, z)
        BY <2>1, <2>2, PollReports
      <3>3. Whole - entryAt \in 0 .. Len(candles) - entryAt
        <4>1. /\ reported.at \in entryAt .. Len(candles) /\ entryAt \in 1 .. Len(candles)
              /\ Len(candles) \in Nat
          BY <2>2, <2>4 DEF ReportStands, ReplayInv, ReplayTypes, EagerIsNow
        <4> QED
          BY <4>1 DEF Whole
      <3>4. /\ AtLeast(pos.side, c, b) /\ Excursion(pos, b) >= 0
            /\ pos \in PositionType
        BY <3>1, <3>2, <3>3, PositionsAssumption DEF ReportedFor, ReplayInv, ReplayTypes
      <3>5. stage = StageAt(pos, b) /\ stage' = StageAt(pos, c)
        BY <2>4, <3>1, <3>2 DEF ReportStands, ReportedFor, StageAt
      <3> QED
        BY <3>4, <3>5, StageMonotone
    <2> QED
      BY <2>3, <2>4
  <1> QED
    BY <1>1, ReplayInvariant, ReportInvariant, PTL DEF Spec, StageNeverRegresses

\* A stop that was reported is enforced: once a later candle went through it,
\* the next cycle closes the position, under the same conditions.
THEOREM ReportedStopIsEnforced ==
  TrailFits => (Spec /\ []HistoryFits => ReportedStopHoldsLater)
  <1> SUFFICES ASSUME TrailFits PROVE Spec /\ []HistoryFits => ReportedStopHoldsLater
    OBVIOUS
  <1>1. ReplayInv /\ HistoryFits /\ ReportStands /\ [Next]_vars =>
          [Poll /\ crossed = "later" => state' = "CLOSED"]_vars
    <2> SUFFICES ASSUME ReplayInv, HistoryFits, ReportStands, Poll, crossed = "later"
                 PROVE  state' = "CLOSED"
      OBVIOUS
    <2>1. state = "OPEN" /\ eager # NoOutcome /\ (Now # NoOutcome => state' = "CLOSED")
      BY PollDoes DEF ReportStands
    <2> QED
      BY <2>1 DEF ReplayInv, EagerIsNow
  <1> QED
    BY <1>1, ReplayInvariant, ReportInvariant, PTL DEF Spec, ReportedStopHoldsLater
=============================================================================
