------------------------------ MODULE Criteria ------------------------------
(***************************************************************************)
(* How the screener judges a symbol: the signals that evaluate_symbol      *)
(* derives from the answers of the exchanges, the score that counts them,  *)
(* and the direction they vote for (criteria.py).  A value that may be     *)
(* missing is a set of at most one.                                        *)
(***************************************************************************)
EXTENDS Indicators

\* The calls of the second gather, which may fail one by one.
CoinGlassCalls ==
  {"liquidation", "top_position_ratio", "oi_funding", "basis", "spot_cvd", "oi_aggregated"}

\* The points of an answer; none if the call failed.
Points(bars, call, failed) == IF call \in failed THEN <<>> ELSE bars

Optional(points, value(_)) == IF points = <<>> THEN {} ELSE {value(Last(points))}

CalcOiChange4h(bars) ==
  LET prev == Ago(bars, 1).oi
  IN  IF Len(bars) < 2 \/ prev = 0 THEN [move |-> 0, of |-> 1]
      ELSE [move |-> Last(bars).oi - prev, of |-> prev]

\* The aggregated funding counts, and Binance's where that has nothing to say.
EffectiveFunding(weighted, binance) == IF weighted # "neutral" THEN weighted ELSE binance

ClassifySmartMoney(retail, top) ==
  LET Retail(side) == \E r \in retail :
        IF side = "long" THEN r >= settings.LS_RATIO_HIGH ELSE r <= settings.LS_RATIO_LOW
      Top(side) == \E t \in top : IF side = "long" THEN t > 0 ELSE t < 0
  IN  CASE retail = {} \/ top = {} -> "neutral"
        [] Retail("long") /\ Top("short") -> "diverges_bearish"
        [] Retail("short") /\ Top("long") -> "diverges_bullish"
        [] \E side \in {"long", "short"} : Retail(side) /\ Top(side) -> "confirms"
        [] OTHER -> "neutral"

Signals(bars, failed) ==
  LET days == Days(bars)
      recent == Recent(bars, settings.CVD_CANDLES)
      cvd == KlinesToCvd([i \in DOMAIN recent |-> recent[i].flow])
      Series(call, value(_)) ==
        LET points == Points(bars, call, failed) IN [i \in DOMAIN points |-> value(points[i])]
      spot == Recent(Series("spot_cvd", LAMBDA b : b.spot), settings.CVD_CANDLES)
      top == Optional(Points(bars, "top_position_ratio", failed), LAMBDA b : b.top)
      retail == {Last(bars).ls}
      funding == FundingBias([i \in DOMAIN bars |-> bars[i].funding])
      weighted == FundingBias(Series("oi_funding", LAMBDA b : b.weighted))
      regime == CalcPositioningRegime(bars)
  IN  [atr |-> CalcAtr(bars),
       volume_spike |-> CalcVolumeSpike(bars),
       bb_squeeze |-> CalcBbSqueeze(bars),
       ema_cross |-> CalcEmaCross(bars),
       rsi_level |-> CalcRsiLevel(bars),
       rsi_divergence |-> CalcRsiDivergence(bars),
       macd |-> CalcMacd(bars),
       vwap_bias |-> CalcVwapBias(bars),
       daily_trend |-> CalcDailyTrend(days),
       near_swing |-> CalcNearSwing(days),
       oi_change_4h |-> CalcOiChange4h(bars),
       oi_trend |-> CalcOiTrend([i \in DOMAIN bars |-> bars[i].oi]),
       oi_aggregated_trend |-> CalcOiTrend(Series("oi_aggregated", LAMBDA b : b.oiAll)),
       funding_bias |-> funding,
       oi_weighted_funding_bias |-> weighted,
       long_short_ratio |-> retail,
       cvd_trend |-> CalcCvdTrend(cvd),
       cvd_price_divergence |-> CalcCvdPriceDivergence(bars, cvd),
       liq_spike |-> CalcLiquidationSpike(Series("liquidation", LAMBDA b : b.liquidated)),
       top_trader_ls_ratio |-> top,
       basis |-> Optional(Points(bars, "basis", failed), LAMBDA b : b.basis),
       smart_money_divergence |-> ClassifySmartMoney(retail, top),
       positioning_regime |-> regime,
       squeeze_setup |-> CalcSqueezeSetup(regime, EffectiveFunding(weighted, funding)),
       spot_perp_divergence |-> CalcSpotPerpDivergence(KlinesToCvd(spot), cvd)]

----------------------------------------------------------------------------
(* Direction. *)

Vote(signal, long, short) ==
  CASE signal = long -> 1
    [] signal = short -> -1
    [] OTHER -> 0

\* Where a value that may be missing lies with respect to two thresholds.
Extreme(value, low, high) ==
  IF \E v \in value : v >= high THEN "high"
  ELSE IF \E v \in value : v <= low THEN "low" ELSE "none"

\* Fault variant: a missing ratio is read as zero.
CrowdZero(ratio) ==
  IF ratio = {} THEN "low" ELSE Extreme(ratio, settings.LS_RATIO_LOW, settings.LS_RATIO_HIGH)

Crowd(ratio) == Extreme(ratio, settings.LS_RATIO_LOW, settings.LS_RATIO_HIGH)

TrendVotes(sig) ==
    Vote(sig.ema_cross, "golden", "death")
  + Vote(sig.rsi_divergence, "bullish", "bearish")
  + Vote(sig.macd, "bullish", "bearish")
  + Vote(sig.cvd_price_divergence, "bullish", "bearish")
  + Vote(sig.daily_trend, "up", "down")
  + Vote(sig.vwap_bias, "above", "below")
  + Vote(sig.cvd_trend, "rising", "falling")

\* Fault variant: the branch of the low ratio is lost.
CrowdVotesOneSided(sig) ==
    Vote(Crowd(sig.long_short_ratio), "low?", "high")
  + Vote(EffectiveFunding(sig.oi_weighted_funding_bias, sig.funding_bias), "short_heavy", "long_heavy")

\* The crowd and what it pays are contrarian.
CrowdVotes(sig) ==
    Vote(Crowd(sig.long_short_ratio), "low", "high")
  + Vote(EffectiveFunding(sig.oi_weighted_funding_bias, sig.funding_bias), "short_heavy", "long_heavy")

\* The top traders are not, nor is the basis.
SmartVotes(sig) ==
    Vote(Crowd(sig.top_trader_ls_ratio), "high", "low")
  + Vote(Extreme(sig.basis, -settings.BASIS_CONTANGO_THRESHOLD, settings.BASIS_CONTANGO_THRESHOLD),
         "high", "low")

ComputeDirection(sig) ==
  LET votes == TrendVotes(sig) + CrowdVotes(sig) + SmartVotes(sig)
  IN  CASE votes >= settings.DIRECTION_VOTE_THRESHOLD -> "long"
        [] votes <= -settings.DIRECTION_VOTE_THRESHOLD -> "short"
        [] OTHER -> "mixed"

----------------------------------------------------------------------------
(* Score. *)

\* The criteria, each with whether it is met.
Criteria(sig) ==
  [volume |-> sig.volume_spike,
   squeeze |-> sig.bb_squeeze,
   swing |-> sig.near_swing,
   cross |-> sig.ema_cross # "none",
   rsi_divergence |-> sig.rsi_divergence # "none",
   macd |-> sig.macd # "none",
   cvd_divergence |-> sig.cvd_price_divergence # "none",
   rsi |-> Extreme(sig.rsi_level, settings.RSI_OVERSOLD, settings.RSI_OVERBOUGHT) # "none",
   crowd |-> Crowd(sig.long_short_ratio) # "none",
   top |-> Crowd(sig.top_trader_ls_ratio) # "none",
   aligned |-> <<sig.daily_trend, sig.vwap_bias>> \in {<<"up", "above">>, <<"down", "below">>},
   funding |-> sig.funding_bias # "neutral" \/ sig.oi_weighted_funding_bias # "neutral",
   oi_trend |-> sig.oi_trend # "neutral",
   oi_change |-> 100 * Abs(sig.oi_change_4h.move) >=
                   settings.OI_CHANGE_4H_SCORE_PCT * sig.oi_change_4h.of,
   liquidations |-> sig.liq_spike]

ComputeScore(sig) == LET met == Criteria(sig) IN Cardinality({c \in DOMAIN met : met[c]})

=============================================================================
