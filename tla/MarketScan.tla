----------------------------- MODULE MarketScan -----------------------------
(***************************************************************************)
(* The first two stages of the pipeline: run_screener narrows the liquid   *)
(* perpetuals down to the best candidates, and DataEnricher.enrich asks    *)
(* LunarCrush about those.  Each symbol has a task of its own; an action   *)
(* is what a task does between two awaits.  Bars close between the scans.  *)
(***************************************************************************)
EXTENDS Insight

CONSTANTS
  Symbols,
  NextBars(_),  \* the bars that may follow a history
  MaxBars,      \* bound on the length of a history
  Outages,      \* sets of CoinGlassCalls that may fail together
  Coins,        \* the answer of coins/list
  Topics,       \* news and posts, by topic
  TimeSeries,   \* posts per day, by symbol
  Axis          \* where prices are mirrored

ASSUME ScanAssumption ==
  /\ \A topic \in DOMAIN Topics :
       /\ Topics[topic].news \in
            Seq([age : SUBSET Int, interactions : Int, sentiment : SUBSET Int])
       /\ Topics[topic].posts \in Seq(Int)
  /\ settings.PUMP_INFLUENCER_MIN \in Nat /\ settings.SCREENER_TOP_N \in Nat
  /\ Axis \in Int

VARIABLES
  market,    \* the history of each symbol
  listing,   \* the tickers of the "primary" and of the "execution" exchange
  phase,     \* "idle", "screen", "sources", "social" or "failed"
  universe,  \* the symbols of the scan, by volume
  task,      \* where the task of the symbol is
  outcome,   \* the ScreenerResult of the symbol
  top,       \* the candidates
  lc,        \* what coins/list says of them
  insight    \* their SocialInsight, and which endpoints it had to do without

scanVars == <<market, listing, phase, universe, task, outcome, top, lc, insight>>

----------------------------------------------------------------------------
(* Helpers. *)

\* What is in a set, in the order of the sequence.
Kept(s, S) ==
  FoldLeft(LAMBDA kept, x : IF x \in S THEN Append(kept, x) ELSE kept, <<>>, s)

\* The order of a stable descending sort, by the keys of the members.
SortedDown(s, key) ==
  LET Before(i, j) == key[s[i]] > key[s[j]] \/ (key[s[i]] = key[s[j]] /\ i < j)
  IN  [p \in DOMAIN s |->
         s[CHOOSE i \in DOMAIN s : Cardinality({j \in DOMAIN s : Before(j, i)}) = p - 1]]

\* _filter_perp_pairs: active perpetuals of the quote currency, of a coin where that
\* is asked for, with a base that is plain and not excluded, and with volume.
LiquidPairs(tickers, coinOnly) ==
  LET Liquid(t) ==
        /\ t.swap /\ t.quoted /\ t.active /\ t.base
        /\ coinOnly => t.coin
        /\ t.volume >= settings.UNIVERSE_MIN_VOLUME_USD
      liquid == Kept(tickers, {t \in ToSet(tickers) : Liquid(t)})
      pairs == SortedDown(liquid, [t \in ToSet(liquid) |-> t.volume])
  IN  [i \in DOMAIN pairs |-> pairs[i].symbol]

\* Nothing tradable is taken for a failure of the data.
ScreeningUniverse ==
  LET primary == LiquidPairs(listing.primary, TRUE)
      tradable == ToSet(LiquidPairs(listing.execution, FALSE))
  IN  IF settings.EXECUTION_UNIVERSE_FILTER /\ tradable # {}
      THEN Kept(primary, tradable)
      ELSE primary

FailedResult == [gate |-> FALSE, score |-> 0, direction |-> "mixed"]

Active == {s \in Symbols : task[s] \in {"fetch", "coinglass", "book"}}
Ended == {"done", "raised", "refused"}

Goes(s, place) == task' = [task EXCEPT ![s] = place]

Results(s, result) == outcome' = [outcome EXCEPT ![s] = result]

\* The next tick starts from nothing.
Cleared ==
  /\ universe' = <<>> /\ top' = <<>>
  /\ task' = [s \in Symbols |-> "none"]
  /\ outcome' = [s \in Symbols |-> FailedResult]
  /\ lc' = [s \in Symbols |-> {}]
  /\ insight' = [s \in Symbols |-> {}]

ScanInit ==
  /\ phase = "idle"
  /\ universe = <<>> /\ top = <<>>
  /\ task = [s \in Symbols |-> "none"]
  /\ outcome = [s \in Symbols |-> FailedResult]
  /\ lc = [s \in Symbols |-> {}]
  /\ insight = [s \in Symbols |-> {}]

----------------------------------------------------------------------------
(* The screener. *)

BarCloses(s) ==
  /\ phase = "idle" /\ Len(market[s]) < MaxBars
  /\ \E bar \in NextBars(market[s]) : market' = [market EXCEPT ![s] = Append(@, bar)]
  /\ UNCHANGED <<listing, phase, universe, task, outcome, top, lc, insight>>

\* A tick begins; without the markets of an exchange it fails.
Begin ==
  /\ phase = "idle"
  /\ \/ /\ phase' = "screen" /\ universe' = ScreeningUniverse
        /\ task' = [s \in Symbols |-> IF s \in ToSet(universe') THEN "waiting" ELSE "none"]
     \/ phase' = "failed" /\ UNCHANGED <<universe, task>>
  /\ UNCHANGED <<market, listing, outcome, top, lc, insight>>

\* The semaphore admits the symbols in the order of the universe.
Enter(s) ==
  /\ task[s] = "waiting" /\ Cardinality(Active) < settings.SCREENER_CONCURRENCY
  /\ \A i, j \in DOMAIN universe : universe[j] = s /\ i < j => task[universe[i]] # "waiting"
  /\ Goes(s, "fetch")
  /\ UNCHANGED <<market, listing, phase, universe, outcome, top, lc, insight>>

\* The exchange's data: one failure rejects the symbol, and so does a weak trend.
Fetch(s) ==
  /\ task[s] = "fetch"
  /\ \/ Goes(s, "done")
     \/ Goes(s, IF CalcAdx(market[s]) < settings.ADX_GATE_MIN THEN "done" ELSE "coinglass")
  /\ UNCHANGED <<market, listing, phase, universe, outcome, top, lc, insight>>

Verdict(s, failed) ==
  LET signals == Signals(market[s], failed)
  IN  [gate |-> TRUE, score |-> ComputeScore(signals), direction |-> ComputeDirection(signals)]

\* CoinGlass: a call that fails leaves its signals out.  A key that is refused ends
\* the task, and so does an error that nobody expects.
AskCoinGlass(s) ==
  /\ task[s] = "coinglass"
  /\ \/ \E failed \in Outages : Results(s, Verdict(s, failed)) /\ Goes(s, "book")
     \/ \E end \in {"refused", "raised"} : Goes(s, end) /\ UNCHANGED outcome
  /\ UNCHANGED <<market, listing, phase, universe, top, lc, insight>>

\* The order book, which may fail, is for the liquidity map only.
FetchBook(s) ==
  /\ task[s] = "book"
  /\ Goes(s, "done")
  /\ UNCHANGED <<market, listing, phase, universe, outcome, top, lc, insight>>

IsCandidate(s) == outcome[s].gate /\ outcome[s].score >= settings.SCREENER_MIN_SCORE

\* Fault variant: the list is cut before it is sorted.
BestUnsorted(symbols) ==
  SubSeq(symbols, 1, Min({settings.SCREENER_TOP_N, Len(symbols)}))

Best(symbols) ==
  SubSeq(SortedDown(symbols, [s \in ToSet(symbols) |-> outcome[s].score]), 1,
         Min({settings.SCREENER_TOP_N, Len(symbols)}))

\* All tasks have ended; a symbol whose task raised is passed over, a refused key
\* ends the tick.
Finish ==
  /\ phase = "screen" /\ \A s \in ToSet(universe) : task[s] \in Ended
  /\ IF \E s \in ToSet(universe) : task[s] = "refused"
     THEN phase' = "failed" /\ UNCHANGED <<market, listing, universe, task, outcome, top, lc, insight>>
     ELSE LET candidates ==
                Kept(universe, {s \in ToSet(universe) : task[s] = "done" /\ IsCandidate(s)})
          IN  IF candidates = <<>>
              THEN phase' = "idle" /\ Cleared /\ UNCHANGED <<market, listing>>
              ELSE /\ phase' = "sources" /\ top' = Best(candidates)
                   /\ UNCHANGED <<market, listing, universe, task, outcome, lc, insight>>

----------------------------------------------------------------------------
(* The enricher. *)

\* coins/list has a ticker more than once: the last entry stays.
EntryOf(s) ==
  LET places == {i \in DOMAIN Coins : Coins[i].symbol = s}
  IN  IF places = {} THEN {} ELSE {Coins[Max(places)]}

\* Macro, fear and greed, and coins/list are asked together.  A failed request has
\* its substitute; an answer that cannot be read fails the tick.
AskSources ==
  /\ phase = "sources"
  /\ \/ phase' = "failed" /\ UNCHANGED <<task, lc>>
     \/ /\ phase' = "social"
        /\ task' = [s \in Symbols |-> IF s \in ToSet(top) THEN "asking" ELSE "none"]
        /\ \/ lc' = [s \in Symbols |-> IF s \in ToSet(top) THEN EntryOf(s) ELSE {}]
           \/ UNCHANGED lc
  /\ UNCHANGED <<market, listing, universe, outcome, top, insight>>

\* Without an entry the symbol itself is the topic.
TopicOf(s) == IF lc[s] = {} THEN s ELSE (CHOOSE c \in lc[s] : TRUE).topic

Endpoints == {"news", "posts", "series"}

\* The insight when some endpoints have failed; what failed is empty.
InsightWithout(s, failed) ==
  LET Answer(endpoint, value) == IF endpoint \in failed THEN <<>> ELSE value
      page == IF TopicOf(s) \in DOMAIN Topics THEN Topics[TopicOf(s)]
              ELSE [news |-> <<>>, posts |-> <<>>]
  IN  DeriveSocialInsight(lc[s], Answer("news", page.news), Answer("posts", page.posts),
                          Answer("series", TimeSeries[s]), outcome[s].direction)

\* An answer that cannot be read costs the symbol all of its endpoints.
AskLunarCrush(s) ==
  /\ phase = "social" /\ task[s] = "asking"
  /\ \E failed \in SUBSET Endpoints :
       insight' = [insight EXCEPT ![s] = {[failed |-> failed, social |-> InsightWithout(s, failed)]}]
  /\ Goes(s, "done")
  /\ UNCHANGED <<market, listing, phase, universe, outcome, top, lc>>

\* The candidates go to the analysis, and the next bar is waited for.
HandOver ==
  /\ phase = "social" /\ \A s \in ToSet(top) : task[s] = "done"
  /\ phase' = "idle" /\ Cleared
  /\ UNCHANGED <<market, listing>>

\* The failure is logged, the scheduler goes on.
Recover ==
  /\ phase = "failed"
  /\ phase' = "idle" /\ Cleared
  /\ UNCHANGED <<market, listing>>

ScanNext ==
  \/ \E s \in Symbols : \/ BarCloses(s) \/ Enter(s) \/ Fetch(s) \/ AskCoinGlass(s)
                        \/ FetchBook(s) \/ AskLunarCrush(s)
  \/ Begin \/ Finish \/ AskSources \/ HandOver \/ Recover

\* Whatever the markets and the listings are at first.
ScanSpec == ScanInit /\ [][ScanNext]_scanVars

----------------------------------------------------------------------------
(* Properties. *)

\* What has a side, and a balance at 0.
Signed == {"macd", "ema", "emaDay", "flow", "spot", "ls", "top", "funding", "weighted", "basis"}

\* The opposite market: prices fall where they rose, sellers are buyers, and the
\* crowd stands on the other side.
Mirrored(b) ==
  [field \in DOMAIN b |->
     CASE field = "high" -> Axis - b.low
       [] field = "low" -> Axis - b.high
       [] field = "close" -> Axis - b.close
       [] field = "rsi" -> 100 - b.rsi
       [] field \in Signed -> -b[field]
       [] OTHER -> b[field]]

Opposite(direction) ==
  CASE direction = "long" -> "short"
    [] direction = "short" -> "long"
    [] OTHER -> "mixed"

\* The settings of the opposite screener: what it takes for one crowd is what the
\* screener takes for the other.  They are not the same: the crowd is long from a
\* ratio of 3.3 on and short from 0.55.
Opposed ==
  [name \in DOMAIN settings |->
     CASE name = "LS_RATIO_HIGH" -> -settings.LS_RATIO_LOW
       [] name = "LS_RATIO_LOW" -> -settings.LS_RATIO_HIGH
       [] name = "FUNDING_RATE_HIGH" -> -settings.FUNDING_RATE_LOW
       [] name = "FUNDING_RATE_LOW" -> -settings.FUNDING_RATE_HIGH
       [] name = "RSI_OVERBOUGHT" -> 100 - settings.RSI_OVERSOLD
       [] name = "RSI_OVERSOLD" -> 100 - settings.RSI_OVERBOUGHT
       [] OTHER -> settings[name]]

Image == INSTANCE Criteria WITH settings <- Opposed

\* No tie for the code to break: it takes a price on its average for below it, one
\* that stands still for falling, a flat CVD for selling, and sees lows first.
Decided(bars) ==
  LET recent == Recent(bars, settings.CVD_CANDLES)
  IN  /\ bars # <<>> /\ OverVwap(bars) # 0
      /\ recent[1].close # Last(bars).close
      /\ Total([i \in 2 .. Len(recent) |-> recent[i].flow]) # 0
      /\ ~(RsiBullish(bars) /\ RsiBearish(bars))

\* Whatever side the screener takes, its thresholds take: the opposite market, seen with
\* the opposite thresholds, gets the opposite direction and the same score, with any
\* calls of CoinGlass failing.
MirrorImage ==
  phase = "idle" =>
    \A s \in Symbols : Decided(market[s]) =>
      \A failed \in Outages :
        LET real == Signals(market[s], failed)
            mirror == Image!Signals([i \in DOMAIN market[s] |-> Mirrored(market[s][i])], failed)
        IN  /\ Image!ComputeDirection(mirror) = Opposite(ComputeDirection(real))
            /\ Image!ComputeScore(mirror) = ComputeScore(real)

\* An outage of CoinGlass can cost a symbol its place but never win it one, and it
\* can blur the direction but never turn it round.
OutageNeverPromotes ==
  \A s \in Symbols : task[s] = "book" =>
    LET whole == Verdict(s, {})
    IN  /\ outcome[s].score <= whole.score
        /\ {outcome[s].direction, whole.direction} # {"long", "short"}

\* Whatever order the tasks end in and whichever of them fail, the candidates are
\* the best of those that passed, by score and then by volume, and tradable where
\* that is asked for and anything is.
TopStands ==
  LET tradable == ToSet(LiquidPairs(listing.execution, FALSE))
      Place(s) == CHOOSE i \in DOMAIN universe : universe[i] = s
      Beats(s, t) == \/ outcome[s].score > outcome[t].score
                     \/ outcome[s].score = outcome[t].score /\ Place(s) < Place(t)
  IN  phase \in {"sources", "social"} =>
        /\ \A i, j \in DOMAIN top : i < j => Beats(top[i], top[j])
        /\ \A s \in ToSet(universe) \ ToSet(top) : IsCandidate(s) =>
             Len(top) = settings.SCREENER_TOP_N /\ \A t \in ToSet(top) : Beats(t, s)
        /\ \A s \in ToSet(top) : IsCandidate(s)
        /\ settings.EXECUTION_UNIVERSE_FILTER /\ tradable # {} => ToSet(top) \subseteq tradable

RiskRank(risk) == CASE risk = "none" -> 0 [] risk = "moderate" -> 1 [] risk = "high" -> 2

\* What is missing errs on one side: an outage of the news never makes a candidate
\* look less of a pump, and an outage of anything else never makes it look more of
\* one than the same answers with that endpoint up.
RiskErrsOneWay ==
  \A s \in Symbols : \A i \in insight[s] : \A endpoint \in i.failed :
    LET risk == RiskRank(i.social.pump_risk)
        up == RiskRank(InsightWithout(s, i.failed \ {endpoint}).pump_risk)
    IN  IF endpoint = "news" THEN risk >= up ELSE risk <= up

=============================================================================
