------------------------------ MODULE Insight -------------------------------
(***************************************************************************)
(* What the enricher makes of the answers of LunarCrush for a candidate    *)
(* (derive_social_insight).  A value that may be missing is a set of at    *)
(* most one.  The lists that are only handed on, the galaxy score, the     *)
(* categories and the sources are left out.                                *)
(***************************************************************************)
EXTENDS Criteria

\* The mean of the posts of the full days before today, as a sum and a number.
AttentionBaseline(series) ==
  LET known == SelectSeq(Front(series), LAMBDA posts : posts # {})
      history == Recent(known, settings.LUNARCRUSH_BASELINE_DAYS)
  IN  IF series = <<>> \/ history = <<>> THEN {}
      ELSE {[sum |-> Total([i \in DOMAIN history |-> CHOOSE n \in history[i] : TRUE]),
             of |-> Len(history)]}

\* Fault variant: where there is nothing to compare with, any talk is a spike.
AttentionLevelUnknown(volume, baseline) ==
  IF baseline = {} /\ volume # {} THEN "spike" ELSE "silent"

\* The volume of the day against the mean; silent where one of them is missing.
AttentionLevel(volume, baseline) ==
  LET Reaches(percent) ==
        \E v \in volume, b \in baseline : b.sum > 0 /\ 100 * v * b.of >= percent * b.sum
  IN  IF Reaches(settings.LUNARCRUSH_ATTENTION_RATIO_SPIKE) THEN "spike"
      ELSE IF Reaches(settings.LUNARCRUSH_ATTENTION_RATIO_NORMAL) THEN "normal"
      ELSE "silent"

Mood(sentiment) ==
  Extreme(sentiment, settings.LUNARCRUSH_SENTIMENT_BEARISH_THRESHOLD,
          settings.LUNARCRUSH_SENTIMENT_BULLISH_THRESHOLD)

SentimentDirection(sentiment) ==
  CASE sentiment = {} -> "unknown"
    [] Mood(sentiment) = "high" -> "bullish"
    [] Mood(sentiment) = "low" -> "bearish"
    [] OTHER -> "mixed"

ContrarianWarning(sentiment) ==
  Extreme(sentiment, settings.LUNARCRUSH_CONTRARIAN_LOW, settings.LUNARCRUSH_CONTRARIAN_HIGH) # "none"

ScreenerAlignment(sentiment, direction) ==
  LET against == Vote(direction, "long", "short") * Vote(Mood(sentiment), "high", "low")
  IN  CASE sentiment = {} -> "no_data"
        [] against = 1 -> "confirms"
        [] against = -1 -> "contradicts"
        [] OTHER -> "neutral"

\* The change from one value to the other, 0 where one of them is missing.
Delta(from, to) ==
  IF from = {} \/ to = {} THEN 0 ELSE (CHOOSE t \in to : TRUE) - (CHOOSE f \in from : TRUE)

\* Better by one measure and worse by none, or the opposite.
Momentum(galaxy, galaxyBefore, rank, rankBefore) ==
  LET deltas == {Delta(galaxyBefore, galaxy), Delta(rank, rankBefore)}
  IN  CASE (galaxy = {} \/ galaxyBefore = {}) /\ (rank = {} \/ rankBefore = {}) -> "unknown"
        [] (\E d \in deltas : d > 0) /\ (\A d \in deltas : d >= 0) -> "improving"
        [] (\E d \in deltas : d < 0) /\ (\A d \in deltas : d <= 0) -> "deteriorating"
        [] OTHER -> "flat"

NewsPolarity(sentiment) ==
  LET side == Extreme(sentiment, settings.LUNARCRUSH_POST_SENTIMENT_BEARISH,
                      settings.LUNARCRUSH_POST_SENTIMENT_BULLISH)
  IN  CASE sentiment = {} -> "unknown"
        [] side = "high" -> "positive"
        [] side = "low" -> "negative"
        [] OTHER -> "neutral"

\* News of the last hours; one without a time is not fresh.
FreshNews(news) ==
  {i \in DOMAIN news : \E age \in news[i].age : age <= settings.NEWS_FRESH_CATALYST_WINDOW_H}

\* The fresh news most talked about, the first of them.
CatalystPolarity(news) ==
  LET fresh == FreshNews(news)
      hottest == {i \in fresh : \A j \in fresh : news[i].interactions >= news[j].interactions}
  IN  IF fresh = {} THEN "none" ELSE NewsPolarity(news[Min(hottest)].sentiment)

ClassifyPumpRisk(attention, influencers, news) ==
  IF attention # "spike" THEN "none"
  ELSE IF influencers >= settings.PUMP_INFLUENCER_MIN /\ news = 0 THEN "high"
  ELSE "moderate"

\* lc is the entry of the list of coins, if there is one.
DeriveSocialInsight(lc, news, posts, series, direction) ==
  LET Of(value(_)) == UNION {value(c) : c \in lc}
      level == AttentionLevel(Of(LAMBDA c : c.volume), AttentionBaseline(series))
      sentiment == Of(LAMBDA c : c.sentiment)
      influencers == Cardinality({i \in DOMAIN posts :
                       posts[i] >= settings.LUNARCRUSH_INFLUENCER_FOLLOWERS_THRESHOLD})
  IN  [attention_level |-> level,
       momentum |-> Momentum(Of(LAMBDA c : c.galaxy), Of(LAMBDA c : c.galaxyBefore),
                             Of(LAMBDA c : c.rank), Of(LAMBDA c : c.rankBefore)),
       sentiment_direction |-> SentimentDirection(sentiment),
       contrarian_warning |-> ContrarianWarning(sentiment),
       screener_alignment |-> ScreenerAlignment(sentiment, direction),
       catalyst_polarity |-> CatalystPolarity(news),
       important_news_count_24h |-> Cardinality(FreshNews(news)),
       influencer_mentions |-> influencers,
       pump_risk |-> ClassifyPumpRisk(level, influencers, Cardinality(FreshNews(news))),
       is_partial |-> lc = {}]

=============================================================================
