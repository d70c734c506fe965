---------------------------- MODULE MCMarketScan ----------------------------
(***************************************************************************)
(* Model checking of MarketScan, in two kinds of behaviours: one coin of   *)
(* which the history grows by any of five bars, and three coins whose      *)
(* histories differ, with several listings.                                *)
(***************************************************************************)
EXTENDS MarketScan

CONSTANTS a, b, c

MCPeriods ==
  [ADX |-> 1, ATR |-> 1, RSI |-> 1, RSI_LOOKBACK |-> 5, RADIUS |-> 1, MACD_SLOW |-> 1,
   VOLUME_SMA |-> 2, BB |-> 2, EMA_SLOW |-> 1, VWAP_MIN |-> 2, VWAP_FALLBACK |-> 3,
   OI_LOOKBACK |-> 1, CVD_MIN |-> 2, CVD_DIVISOR |-> 3, DAY |-> 3]

MCSettings ==
  [ADX_GATE_MIN |-> 20, VOLUME_SPIKE_MULTIPLIER |-> 2, BB_SQUEEZE_THRESHOLD |-> 4,
   NEAR_SWING_ATR_MULT |-> 50, NEAR_SWING_WINDOW |-> 2, OI_TREND_MIN_PCT |-> 15,
   OI_CHANGE_4H_SCORE_PCT |-> 5, POSITIONING_LOOKBACK |-> 2, POSITIONING_PRICE_MIN_PCT |-> 1,
   POSITIONING_OI_MIN_PCT |-> 2, FUNDING_RATE_HIGH |-> 3, FUNDING_RATE_LOW |-> -1,
   LS_RATIO_HIGH |-> 2, LS_RATIO_LOW |-> -1, BASIS_CONTANGO_THRESHOLD |-> 5,
   LIQ_SPIKE_WINDOW |-> 2, LIQ_SPIKE_MULTIPLIER |-> 3, CVD_CANDLES |-> 4,
   RSI_OVERBOUGHT |-> 70, RSI_OVERSOLD |-> 30, DIRECTION_VOTE_THRESHOLD |-> 3,
   SCREENER_MIN_SCORE |-> 5, SCREENER_TOP_N |-> 2, SCREENER_CONCURRENCY |-> 2,
   UNIVERSE_MIN_VOLUME_USD |-> 5, EXECUTION_UNIVERSE_FILTER |-> TRUE,
   LUNARCRUSH_BASELINE_DAYS |-> 2, LUNARCRUSH_ATTENTION_RATIO_SPIKE |-> 300,
   LUNARCRUSH_ATTENTION_RATIO_NORMAL |-> 50, LUNARCRUSH_SENTIMENT_BULLISH_THRESHOLD |-> 60,
   LUNARCRUSH_SENTIMENT_BEARISH_THRESHOLD |-> 40, LUNARCRUSH_CONTRARIAN_HIGH |-> 85,
   LUNARCRUSH_CONTRARIAN_LOW |-> 15, LUNARCRUSH_POST_SENTIMENT_BULLISH |-> 35,
   LUNARCRUSH_POST_SENTIMENT_BEARISH |-> 25, NEWS_FRESH_CATALYST_WINDOW_H |-> 24,
   LUNARCRUSH_INFLUENCER_FOLLOWERS_THRESHOLD |-> 100, PUMP_INFLUENCER_MIN |-> 2]

Close(bars) == IF bars = <<>> THEN 100 ELSE Last(bars).close
Interest(bars) == IF bars = <<>> THEN 100 ELSE Last(bars).oi

\* A bar that moves the price, with a wick of one in its direction, and the open interest.
Bar(bars, move, grows, rest) ==
  LET from == Close(bars)
      to == from + move
  IN  [high |-> IF move > 0 THEN to + 1 ELSE from, low |-> IF move < 0 THEN to - 1 ELSE from,
       close |-> to, oi |-> Interest(bars) + grows, oiAll |-> Interest(bars) + grows] @@ rest

Rally(bars) == Bar(bars, 3, 20,
  [volume |-> 9, adx |-> 30, atr |-> 4, atrDay |-> 6, rsi |-> 75, macd |-> 2, ema |-> 1,
   emaDay |-> 1, band |-> 9, flow |-> 4, spot |-> 1, ls |-> 3, top |-> -2, funding |-> 4,
   weighted |-> 0, basis |-> 6, liquidated |-> 9])

Selloff(bars) == Bar(bars, -3, 15,
  [volume |-> 8, adx |-> 40, atr |-> 5, atrDay |-> 8, rsi |-> 20, macd |-> -3, ema |-> -2,
   emaDay |-> -1, band |-> 9, flow |-> -5, spot |-> 2, ls |-> -3, top |-> 2, funding |-> 1,
   weighted |-> -7, basis |-> -6, liquidated |-> 20])

\* The price slips while it is bought, on falling interest.
Accumulation(bars) == Bar(bars, -4, -20,
  [volume |-> 3, adx |-> 22, atr |-> 3, atrDay |-> 6, rsi |-> 45, macd |-> 1, ema |-> -1,
   emaDay |-> 1, band |-> 3, flow |-> 2, spot |-> 3, ls |-> 0, top |-> 1, funding |-> -5,
   weighted |-> 8, basis |-> 0, liquidated |-> 1])

\* The price creeps up while it is sold.
Distribution(bars) == Bar(bars, 4, 3,
  [volume |-> 2, adx |-> 25, atr |-> 2, atrDay |-> 6, rsi |-> 60, macd |-> -1, ema |-> 2,
   emaDay |-> 1, band |-> 3, flow |-> -3, spot |-> -1, ls |-> 2, top |-> -1, funding |-> 3,
   weighted |-> 3, basis |-> 1, liquidated |-> 0])

\* Nothing is traded and the trend is lost.
Calm(bars) == Bar(bars, 0, 0,
  [volume |-> 0, adx |-> 10, atr |-> 1, atrDay |-> 3, rsi |-> 50, macd |-> 0, ema |-> 0,
   emaDay |-> 0, band |-> 1, flow |-> 0, spot |-> 0, ls |-> 0, top |-> 0, funding |-> 0,
   weighted |-> 0, basis |-> 0, liquidated |-> 0])

\* A coin may be calm before it moves.
MCNextBars(bars) ==
  {Rally(bars), Selloff(bars), Accumulation(bars), Distribution(bars)}
    \cup IF Len(bars) < 2 THEN {Calm(bars)} ELSE {}

Grown(bars, one(_), two(_)) ==
  LET s1 == Append(bars, one(bars))
      s2 == Append(s1, two(s1))
  IN  s2

Long(x(_), y(_), z(_)) == Grown(Grown(Grown(<<>>, x, y), x, z), y, z)

MCAxis == 200
MCOutages == {{}, {"liquidation"}, {"top_position_ratio"}, {"oi_funding"}, {"basis"}, CoinGlassCalls}

Ticker(s, volume) ==
  [symbol |-> s, swap |-> TRUE, quoted |-> TRUE, active |-> TRUE, base |-> TRUE, coin |-> TRUE,
   volume |-> volume]

Primary == <<Ticker(a, 7), Ticker(b, 9), Ticker(c, 7)>>

MCListings ==
  {[primary |-> Primary, execution |-> <<>>],
   [primary |-> Primary, execution |-> <<Ticker(a, 9), Ticker(b, 9), Ticker(c, 4)>>],
   [primary |-> <<Ticker(a, 7), [Ticker(b, 9) EXCEPT !.coin = FALSE], Ticker(c, 7)>>,
    execution |-> <<[Ticker(c, 5) EXCEPT !.coin = FALSE], Ticker(a, 5)>>]}

Coin(s, topic, volume, sentiment, rank) ==
  [symbol |-> s, topic |-> topic, volume |-> {volume}, sentiment |-> sentiment,
   galaxy |-> {5}, galaxyBefore |-> {4}, rank |-> {rank}, rankBefore |-> {7}]

MCCoins == <<Coin(a, "other", 10, {50}, 3), Coin(b, "b", 60, {90}, 5), Coin(a, "a", 90, {30}, 9)>>

News(age, interactions, sentiment) ==
  [age |-> {age}, interactions |-> interactions, sentiment |-> {sentiment}]

MCTopics ==
  "a" :> [news |-> <<News(30, 9, 40)>>, posts |-> <<500, 100, 99>>]
  @@ "b" :> [news |-> <<News(2, 5, 40), News(3, 7, 20)>>, posts |-> <<500, 100>>]

MCTimeSeries == [s \in Symbols |-> IF s = c THEN <<>> ELSE <<{90}, {}, {30}, {10}, {1}>>]

Init ==
  /\ ScanInit
  /\ \/ /\ market = [s \in Symbols |-> IF s = a THEN <<>> ELSE Long(Calm, Calm, Calm)]
        /\ listing = [primary |-> <<Ticker(a, 9)>>, execution |-> <<>>]
     \/ /\ market = [s \in Symbols |->
             CASE s = a -> Long(Selloff, Accumulation, Rally)
               [] s = b -> Long(Accumulation, Distribution, Selloff)
               [] s = c -> Long(Rally, Accumulation, Distribution)]
        /\ listing \in MCListings

Spec == Init /\ [][ScanNext]_scanVars

=============================================================================
