----------------------------- MODULE Indicators -----------------------------
(***************************************************************************)
(* The indicators of the screener (app/domain/indicators.py), over what    *)
(* the exchanges publish of a symbol.  A bar holds what there is for its   *)
(* four hours: the candle, the values that the library ta has for the      *)
(* series which ends there, and the points of the derivatives' histories.  *)
(* Rates of long to short are logarithms, so that 0 is balance.  Settings  *)
(* that are fractions are percentages.                                     *)
(***************************************************************************)
EXTENDS Integers, Sequences, FiniteSets, SequencesExt

CONSTANTS
  settings,  \* the settings of the screener, by their names
  periods    \* the constants of indicators.py, and how many bars make a day

\* What the indicators and the criteria ask of the settings.
SettingNames ==
  {"VOLUME_SPIKE_MULTIPLIER", "BB_SQUEEZE_THRESHOLD", "NEAR_SWING_ATR_MULT", "NEAR_SWING_WINDOW",
   "OI_TREND_MIN_PCT", "OI_CHANGE_4H_SCORE_PCT", "POSITIONING_LOOKBACK",
   "POSITIONING_PRICE_MIN_PCT", "POSITIONING_OI_MIN_PCT", "FUNDING_RATE_HIGH", "FUNDING_RATE_LOW",
   "LS_RATIO_HIGH", "LS_RATIO_LOW", "BASIS_CONTANGO_THRESHOLD", "LIQ_SPIKE_WINDOW",
   "LIQ_SPIKE_MULTIPLIER", "CVD_CANDLES", "RSI_OVERBOUGHT", "RSI_OVERSOLD",
   "DIRECTION_VOTE_THRESHOLD"}

ASSUME IndicatorsAssumption ==
  /\ periods \in [{"ADX", "ATR", "RSI", "RSI_LOOKBACK", "RADIUS", "MACD_SLOW", "VOLUME_SMA",
                   "BB", "EMA_SLOW", "VWAP_MIN", "VWAP_FALLBACK", "OI_LOOKBACK", "CVD_MIN",
                   "CVD_DIVISOR", "DAY"} -> Nat \ {0}]
  /\ SettingNames \subseteq DOMAIN settings
  /\ settings.DIRECTION_VOTE_THRESHOLD \in Nat \ {0}
  /\ settings.LIQ_SPIKE_WINDOW \in Nat
  /\ settings.NEAR_SWING_WINDOW \in Nat \ {0} /\ settings.CVD_CANDLES \in Nat \ {0}
  /\ settings.BASIS_CONTANGO_THRESHOLD \in Nat \ {0}
  /\ settings.RSI_OVERBOUGHT \in Int /\ settings.RSI_OVERSOLD \in Int
  /\ settings.LS_RATIO_LOW \in Int /\ settings.LS_RATIO_LOW < 0
  /\ settings.LS_RATIO_HIGH \in Nat \ {0}
  /\ settings.FUNDING_RATE_LOW \in Int /\ settings.FUNDING_RATE_LOW < 0
  /\ settings.FUNDING_RATE_HIGH \in Nat \ {0}

Recent(s, n) == SubSeq(s, Max({1, Len(s) - n + 1}), Len(s))
Ago(s, n) == s[Len(s) - n]
Total(f) == MapThenSumSet(LAMBDA i : f[i], DOMAIN f)
Abs(n) == Max({n, -n})

\* The day of the bar at i; the daily candle of today is still growing.
DayOf(i) == (i - 1) \div periods.DAY

Days(bars) ==
  [d \in 1 .. DayOf(Len(bars)) + 1 |->
     LET day == {i \in DOMAIN bars : DayOf(i) = d - 1}
     IN  [high |-> Max({bars[i].high : i \in day}),
          low |-> Min({bars[i].low : i \in day}),
          close |-> bars[Max(day)].close,
          atr |-> bars[Max(day)].atrDay,
          ema |-> bars[Max(day)].emaDay]]

----------------------------------------------------------------------------
(* Of the candles. *)

CalcAdx(bars) == IF Len(bars) < periods.ADX * 3 THEN 0 ELSE Last(bars).adx

CalcAtr(candles) == IF Len(candles) < periods.ATR + 1 THEN 0 ELSE Last(candles).atr

CalcRsiLevel(bars) == IF Len(bars) < periods.RSI + 1 THEN {} ELSE {Last(bars).rsi}

\* The places of the local extrema: beyond all neighbours within the radius.
LocalMinima(v) ==
  {i \in 1 + periods.RADIUS .. Len(v) - periods.RADIUS :
     \A j \in i - periods.RADIUS .. i + periods.RADIUS : j # i => v[i] < v[j]}

LocalMaxima(v) == LocalMinima([i \in DOMAIN v |-> -v[i]])

\* Price and RSI disagree between the last two extrema: the price went on.
Diverges(v, rsi, extrema) ==
  /\ Cardinality(extrema) >= 2
  /\ LET later == Max(extrema)
         earlier == Max(extrema \ {later})
     IN  v[later] < v[earlier] /\ rsi[later] > rsi[earlier]

RsiBullish(bars) ==
  LET window == Recent(bars, periods.RSI_LOOKBACK)
      lows == [i \in DOMAIN window |-> window[i].low]
  IN  Diverges(lows, [i \in DOMAIN window |-> window[i].rsi], LocalMinima(lows))

RsiBearish(bars) ==
  LET window == Recent(bars, periods.RSI_LOOKBACK)
      highs == [i \in DOMAIN window |-> window[i].high]
  IN  Diverges([i \in DOMAIN window |-> -highs[i]],
               [i \in DOMAIN window |-> -window[i].rsi], LocalMaxima(highs))

\* The lows are looked at first.
CalcRsiDivergence(bars) ==
  IF Len(bars) < periods.RSI + periods.RSI_LOOKBACK THEN "none"
  ELSE IF RsiBullish(bars) THEN "bullish"
  ELSE IF RsiBearish(bars) THEN "bearish" ELSE "none"

CalcMacd(bars) ==
  IF Len(bars) < periods.MACD_SLOW * 3 THEN "none"
  ELSE LET last == Last(bars).macd
           prev == Ago(bars, 1).macd
       IN  CASE last > 0 /\ last > prev -> "bullish"
             [] last < 0 /\ last < prev -> "bearish"
             [] OTHER -> "none"

CalcVolumeSpike(bars) ==
  LET n == periods.VOLUME_SMA
      before == Recent(Front(bars), n)
  IN  /\ Len(bars) >= n + 1
      /\ Last(bars).volume * n >
           settings.VOLUME_SPIKE_MULTIPLIER * Total([i \in 1 .. n |-> before[i].volume])

CalcBbSqueeze(bars) ==
  Len(bars) >= periods.BB + 1 /\ Last(bars).band < settings.BB_SQUEEZE_THRESHOLD

CalcEmaCross(bars) ==
  IF Len(bars) < periods.EMA_SLOW * 3 THEN "none"
  ELSE LET prev == Ago(bars, 1).ema
           curr == Last(bars).ema
       IN  CASE prev < 0 /\ curr >= 0 -> "golden"
             [] prev > 0 /\ curr <= 0 -> "death"
             [] OTHER -> "none"

\* Today's bars, or the last ones while the day is young.
VwapWindow(bars) ==
  LET today == Cardinality({i \in DOMAIN bars : DayOf(i) = DayOf(Len(bars))})
  IN  Recent(bars, IF today < periods.VWAP_MIN THEN periods.VWAP_FALLBACK ELSE today)

\* How far the close lies above the average price, times three and the volume.
OverVwap(bars) ==
  LET window == VwapWindow(bars)
  IN  Total([i \in DOMAIN window |->
        window[i].volume *
          (3 * Last(bars).close - window[i].high - window[i].low - window[i].close)])

\* A window without volume has no average and counts as below.
CalcVwapBias(bars) == IF OverVwap(bars) > 0 THEN "above" ELSE "below"

CalcNearSwing(candles) ==
  LET window == Recent(candles, settings.NEAR_SWING_WINDOW)
      atr == CalcAtr(candles)
      Near(level) == 100 * Abs(Last(candles).close - level) <= atr * settings.NEAR_SWING_ATR_MULT
  IN  /\ Len(candles) >= settings.NEAR_SWING_WINDOW /\ atr # 0
      /\ \/ Near(Max({window[i].high : i \in DOMAIN window}))
         \/ Near(Min({window[i].low : i \in DOMAIN window}))

CalcDailyTrend(days) ==
  IF Len(days) < periods.EMA_SLOW + 1 THEN "neutral"
  ELSE IF Last(days).ema > 0 THEN "up"
  ELSE IF Last(days).ema < 0 THEN "down" ELSE "neutral"

----------------------------------------------------------------------------
(* Of the derivatives. *)

\* A relative change beyond a percentage, either way, over a number of points.
Change(series, lookback, pct) ==
  LET first == Ago(series, lookback)
      change == 100 * (Last(series) - first)
  IN  IF first = 0 THEN "neutral"
      ELSE IF change >= pct * first THEN "growing"
      ELSE IF change <= -pct * first THEN "shrinking" ELSE "neutral"

\* Binance's open interest and the aggregated one have the same rule.
CalcOiTrend(series) ==
  IF Len(series) < periods.OI_LOOKBACK + 2 THEN "neutral"
  ELSE Change(series, periods.OI_LOOKBACK, settings.OI_TREND_MIN_PCT)

\* Beyond both thresholds: who opens positions, and who closes them.
CalcPositioningRegime(bars) ==
  LET back == settings.POSITIONING_LOOKBACK
      price == [i \in DOMAIN bars |-> bars[i].close]
      oi == [i \in DOMAIN bars |-> bars[i].oi]
      Still(series, pct) ==
        \/ Ago(series, back) = 0
        \/ 100 * Abs(Last(series) - Ago(series, back)) < pct * Ago(series, back)
      Up(series) == Last(series) > Ago(series, back)
  IN  CASE \/ Len(bars) < back + 1
           \/ Still(price, settings.POSITIONING_PRICE_MIN_PCT)
           \/ Still(oi, settings.POSITIONING_OI_MIN_PCT) -> "neutral"
        [] OTHER -> IF Up(oi) THEN IF Up(price) THEN "longs_building" ELSE "shorts_building"
                    ELSE IF Up(price) THEN "shorts_covering" ELSE "longs_unwinding"

\* The average of the rates, against thresholds that need not be symmetrical.
FundingBias(rates) ==
  IF rates = <<>> THEN "neutral"
  ELSE IF Total(rates) >= settings.FUNDING_RATE_HIGH * Len(rates) THEN "long_heavy"
  ELSE IF Total(rates) <= settings.FUNDING_RATE_LOW * Len(rates) THEN "short_heavy"
  ELSE "neutral"

CalcSqueezeSetup(regime, funding) ==
  CASE regime = "longs_building" /\ funding = "long_heavy" -> "long_squeeze_primed"
    [] regime = "shorts_building" /\ funding = "short_heavy" -> "short_squeeze_primed"
    [] OTHER -> "none"

\* Buyers' less sellers' volume, summed up from the first candle of the answer.
KlinesToCvd(flows) == [i \in DOMAIN flows |-> Total([j \in 1 .. i |-> flows[j]])]

CalcCvdTrend(cvd) ==
  LET n == Max({periods.CVD_MIN, Len(cvd) \div periods.CVD_DIVISOR})
      change == Last(cvd) - Ago(cvd, n - 1)
  IN  IF Len(cvd) < periods.CVD_MIN THEN "neutral"
      ELSE IF change > 0 THEN "rising"
      ELSE IF change < 0 THEN "falling" ELSE "neutral"

CalcSpotPerpDivergence(spot, perp) ==
  LET spotTrend == CalcCvdTrend(spot)
      perpTrend == CalcCvdTrend(perp)
  IN  CASE spotTrend = "rising" /\ perpTrend # "rising" -> "bullish"
        [] spotTrend = "falling" /\ perpTrend # "falling" -> "bearish"
        [] OTHER -> "none"

\* A price that stands still counts as falling, a flat CVD as negative.
CalcCvdPriceDivergence(bars, cvd) ==
  LET n == Len(cvd)
      priceUp == Last(bars).close > Ago(bars, n - 1).close
      positive == Last(cvd) > cvd[1]
  IN  IF n < periods.CVD_MIN \/ Len(bars) < n \/ priceUp = positive THEN "none"
      ELSE IF priceUp THEN "bearish" ELSE "bullish"

CalcLiquidationSpike(liquidated) ==
  LET n == settings.LIQ_SPIKE_WINDOW
      before == Total(Recent(Front(liquidated), n))
  IN  /\ Len(liquidated) >= n + 1 /\ before # 0
      /\ Last(liquidated) * n > settings.LIQ_SPIKE_MULTIPLIER * before

=============================================================================
