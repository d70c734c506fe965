--------------------------- MODULE AnalysisRunProofs ---------------------------
(***************************************************************************)
(* Proofs about the LLM gateway, for every number of tasks, every cap and  *)
(* every cost of a call; and about the analysis stage: it uses the gateway *)
(* as LLMGateway allows, and its nested retries are bounded, for any runs, *)
(* any numbers of candidates, any cap and any cost.                        *)
(***************************************************************************)
EXTENDS AnalysisRun, FiniteSetTheorems, TLAPS

----------------------------------------------------------------------------
(* The gateway. *)

\* What makes OvershootBounded inductive: each call in flight may still cost
\* MaxCost, and the last that was let in saw less than the cap.
Committed ==
  /\ IsFiniteSet(flight)
  /\ Cardinality(flight) <= peak
  /\ peak = 0 => spent = 0
  /\ peak > 0 => spent + MaxCost * Cardinality(flight) <= Cap - 1 + MaxCost * peak

GatewayInv == GatewayTypeOK /\ Committed

\* Letting a call in makes one more that is in flight, letting it go one less.
LEMMA FlightCounts ==
  ASSUME NEW S, IsFiniteSet(S), NEW t
  PROVE  /\ Cardinality(S) \in Nat
         /\ IsFiniteSet(S \cup {t}) /\ IsFiniteSet(S \ {t})
         /\ Cardinality(S \cup {t}) \in Nat
         /\ t \in S => Cardinality(S \ {t}) = Cardinality(S) - 1
  BY FS_AddElement, FS_RemoveElement, FS_CardinalityType

\* The multiples of a natural number grow with the factor.
LEMMA Grows ==
  ASSUME NEW m \in Nat, NEW a \in Nat, NEW b \in Nat, a <= b
  PROVE  m * a \in Nat /\ m * b \in Nat /\ m * a <= m * b
  <1>1. PICK d \in Nat : b = a + d
    <2>1. b - a \in Nat /\ b = a + (b - a)
      OBVIOUS
    <2> QED BY <2>1
  <1>2. m * b = m * a + m * d /\ m * a \in Nat /\ m * d \in Nat
    BY <1>1
  <1> QED BY <1>2

\* One call less in flight pays for the cost of one.
LEMMA OneLess ==
  ASSUME NEW m \in Nat, NEW n \in Nat, n > 0
  PROVE  m * (n - 1) = m * n - m
  OBVIOUS

\* The gateway starts with nothing spent and nobody asking.
LEMMA GatewayInitInv == GatewayInit => GatewayInv
  BY FS_EmptySet, GatewayAssumption DEF GatewayInit, GatewayInv, GatewayTypeOK, Committed

\* Every step keeps the invariant: what is spent and what may still come.
LEMMA GatewayNextInv == GatewayInv /\ [GatewayNext]_gateVars => GatewayInv'
  <1> SUFFICES ASSUME GatewayInv, [GatewayNext]_gateVars PROVE GatewayInv'
    OBVIOUS
  <1> USE GatewayAssumption
  <1>0. Cardinality(flight) \in Nat
    BY FS_CardinalityType DEF GatewayInv, Committed
  <1>1. ASSUME NEW T \in SUBSET Tasks, Asks(T) PROVE GatewayInv'
    BY <1>1 DEF Asks, GatewayInv, GatewayTypeOK, Committed
  <1>2. ASSUME NEW t \in Tasks, Admits(t) PROVE GatewayInv'
    <2>1. GatewayTypeOK'
      <3>1. Cardinality(flight') \in Nat
        BY <1>2, FlightCounts DEF Admits, GatewayInv, Committed
      <3> QED BY <1>2, <3>1 DEF Admits, GatewayInv, GatewayTypeOK, Larger
    <2>2. IsFiniteSet(flight') /\ Cardinality(flight') \in Nat
      BY <1>2, FlightCounts DEF Admits, GatewayInv, Committed
    <2>3. Cardinality(flight') <= peak' /\ peak' \in Nat /\ peak' > 0
      <3>1. Cardinality(flight') <= peak' /\ peak' \in Nat
        BY <1>2, <2>2 DEF Admits, GatewayInv, GatewayTypeOK, Larger
      <3>2. flight' # {}
        BY <1>2 DEF Admits
      <3>3. Cardinality(flight') # 0
        BY <2>2, <3>2, FS_EmptySet
      <3> QED BY <2>2, <3>1, <3>3
    <2>4. MaxCost * Cardinality(flight') <= MaxCost * peak'
      BY <2>2, <2>3, Grows
    <2>5. MaxCost * Cardinality(flight') \in Nat /\ MaxCost * peak' \in Nat
      BY <2>2, <2>3, Grows
    <2>6. spent' <= Cap - 1 /\ spent' \in Nat
      BY <1>2 DEF Admits, GatewayInv, GatewayTypeOK
    <2>7. spent' + MaxCost * Cardinality(flight') <= Cap - 1 + MaxCost * peak'
      BY <2>4, <2>5, <2>6
    <2> QED BY <2>1, <2>2, <2>3, <2>7 DEF GatewayInv, Committed
  <1>3. ASSUME NEW t \in Tasks, Refuses(t) PROVE GatewayInv'
    BY <1>3 DEF Refuses, GatewayInv, GatewayTypeOK, Committed
  <1>4. ASSUME NEW t \in Tasks, t \in flight, NEW cost \in 0..MaxCost,
               flight' = flight \ {t}, spent' \in {spent, spent + cost},
               UNCHANGED peak, asked' \subseteq Tasks
        PROVE  GatewayInv'
    <2>1. GatewayTypeOK'
      BY <1>4 DEF GatewayInv, GatewayTypeOK
    <2>2. IsFiniteSet(flight') /\ Cardinality(flight') = Cardinality(flight) - 1
      BY <1>4, FlightCounts DEF GatewayInv, Committed
    <2>3. Cardinality(flight) > 0
      <3>1. flight # {}
        BY <1>4
      <3> QED BY <1>0, <3>1, FS_EmptySet DEF GatewayInv, Committed
    <2>4. peak > 0 /\ Cardinality(flight') <= peak
      BY <1>0, <2>2, <2>3 DEF GatewayInv, GatewayTypeOK, Committed
    <2>5. MaxCost * Cardinality(flight') = MaxCost * Cardinality(flight) - MaxCost
      BY <1>0, <2>2, <2>3, OneLess
    <2>6. MaxCost * Cardinality(flight) \in Nat /\ MaxCost * peak \in Nat
      BY <1>0, Grows DEF GatewayInv, GatewayTypeOK, Committed
    <2>7. spent' + MaxCost * Cardinality(flight') <= Cap - 1 + MaxCost * peak
      <3>1. spent' <= spent + MaxCost /\ spent' \in Nat /\ spent \in Nat
        BY <1>4 DEF GatewayInv, GatewayTypeOK
      <3>2. spent + MaxCost * Cardinality(flight) <= Cap - 1 + MaxCost * peak
        BY <2>4 DEF GatewayInv, Committed
      <3> QED BY <2>5, <2>6, <3>1, <3>2
    <2> QED BY <1>4, <2>1, <2>2, <2>4, <2>7 DEF GatewayInv, Committed
  <1>5. ASSUME NEW t \in Tasks, NEW cost \in 0..MaxCost, Answers(t, cost) PROVE GatewayInv'
    BY <1>4, <1>5 DEF Answers, GatewayInv, GatewayTypeOK
  <1>6. ASSUME NEW t \in Tasks, Breaks(t) PROVE GatewayInv'
    <2>1. 0 \in 0..MaxCost
      OBVIOUS
    <2> QED BY <1>4, <1>6, <2>1 DEF Breaks, GatewayInv, GatewayTypeOK
  <1>7. CASE NewDay
    <2>1. GatewayTypeOK'
      BY <1>7 DEF NewDay, GatewayInv, GatewayTypeOK
    <2>2. peak > 0 => MaxCost * Cardinality(flight) \in Nat /\ MaxCost * peak \in Nat
      BY <1>0, Grows DEF GatewayInv, GatewayTypeOK, Committed
    <2>3. peak > 0 => 0 + MaxCost * Cardinality(flight) <= Cap - 1 + MaxCost * peak
      BY <2>2 DEF GatewayInv, GatewayTypeOK, Committed
    <2> QED BY <1>7, <2>1, <2>3 DEF NewDay, GatewayInv, Committed
  <1>8. CASE UNCHANGED gateVars
    BY <1>8 DEF gateVars, GatewayInv, GatewayTypeOK, Committed
  <1> QED BY <1>1, <1>2, <1>3, <1>5, <1>6, <1>7, <1>8 DEF GatewayNext

\* The invariant holds of every behaviour of the gateway.
LEMMA GatewayInvariant == GatewaySpec => []GatewayInv
  <1>1. GatewayInit => GatewayInv
    BY GatewayInitInv
  <1>2. GatewayInv /\ [GatewayNext]_gateVars => GatewayInv'
    BY GatewayNextInv
  <1> QED BY <1>1, <1>2, PTL DEF GatewaySpec

\* The gateway is well-typed, whatever calls are made (service.py, budget.py).
THEOREM GatewayTyped == GatewaySpec => []GatewayTypeOK
  <1>1. GatewayInv => GatewayTypeOK
    BY DEF GatewayInv
  <1> QED BY <1>1, GatewayInvariant, PTL

\* The check of the budget and the booking of the cost are not one transaction
\* (budget.py, ensure_within_budget; service.py, structured): the budget is
\* overshot, but never by more than the cost of the calls once in flight together.
THEOREM GatewayOvershoots == GatewaySpec => []OvershootBounded
  <1>1. GatewayInv => OvershootBounded
    <2> SUFFICES ASSUME GatewayInv, spent > 0
                 PROVE  spent <= Cap - 1 + MaxCost * peak
      BY DEF OvershootBounded
    <2> USE GatewayAssumption
    <2>1. peak > 0 /\ Cardinality(flight) \in Nat
      BY FS_CardinalityType DEF GatewayInv, GatewayTypeOK, Committed
    <2>2. MaxCost * Cardinality(flight) \in Nat /\ MaxCost * peak \in Nat
      BY <2>1, Grows DEF GatewayInv, GatewayTypeOK, Committed
    <2> QED BY <2>1, <2>2 DEF GatewayInv, GatewayTypeOK, Committed
  <1> QED BY <1>1, GatewayInvariant, PTL

----------------------------------------------------------------------------
(* The analysis implements the gateway. *)

\* A run that moves on starts some calls, and does nothing else to the gateway.
LEMMA MovingAsks ==
  ASSUME NEW r, NEW p, GoesTo(r, p) PROVE GatewayNext
  <1>1. \E T \in SUBSET Tasks : Asks(T)
    BY DEF GoesTo, Asks
  <1> QED BY <1>1 DEF GatewayNext

\* So does a candidate that is through.
LEMMA SettlingAsks ==
  ASSUME NEW r, NEW v, Settles(r, v) PROVE GatewayNext
  BY MovingAsks DEF Settles

\* Every stage of a candidate is a step of the gateway.
LEMMA ContinuingAsks ==
  ASSUME NEW r, Starts(r) \/ Continues(r) PROVE GatewayNext
  <1>1. ASSUME NEW step, MovesTo(r, step) PROVE GatewayNext
    BY <1>1, MovingAsks DEF MovesTo
  <1>2. ASSUME NEW i, NEW j, AsksSetup(r, i, j) PROVE GatewayNext
    BY <1>2, MovingAsks DEF AsksSetup
  <1>3. CASE Starts(r)
    BY <1>1, <1>3 DEF Starts
  <1>4. CASE MacroKnown(r) \/ Advocate(r) \/ Fails(r)
    BY <1>4, SettlingAsks DEF MacroKnown, Advocate, Fails
  <1>5. CASE Derivatives(r) \/ Sentiment(r) \/ Debate(r)
    BY <1>1, <1>5 DEF Derivatives, Sentiment, Debate
  <1>6. CASE Candles(r) \/ Technical(r)
    BY <1>1, <1>6, SettlingAsks DEF Candles, Technical
  <1>7. CASE Trader(r)
    BY <1>2, <1>7, SettlingAsks DEF Trader
  <1>8. CASE Setup(r)
    BY <1>1, <1>2, <1>8, SettlingAsks DEF Setup, Reprompts, Reresolves
  <1> QED BY <1>3, <1>4, <1>5, <1>6, <1>7, <1>8 DEF Continues

\* run_analysis, the debate and the setup graph call the LLM through the gateway
\* only: the analysis implements it.
THEOREM AnalysisUsesGateway == Spec => GatewaySpec
  <1>1. Init => GatewayInit
    BY DEF Init
  <1>2. [Next]_vars => [GatewayNext]_gateVars
    <2> SUFFICES ASSUME Next PROVE GatewayNext
      BY DEF vars, gateVars
    <2>1. ASSUME NEW t \in Tasks, CallEnds(t) PROVE GatewayNext
      BY <2>1 DEF CallEnds, CallPasses, CallRefused, CallBreaks, CallAnswered, GatewayNext
    <2>2. CASE NewDay
      BY <2>2 DEF GatewayNext
    <2> QED BY <2>1, <2>2, ContinuingAsks DEF Next
  <1> QED BY <1>1, <1>2, PTL DEF Spec, GatewaySpec

\* However many runs and candidates share the budget (analysis.py, budget.py),
\* it is overshot by no more than the calls once in flight together.
THEOREM AnalysisOvershoots == Spec => []OvershootBounded
  BY AnalysisUsesGateway, GatewayOvershoots, PTL

----------------------------------------------------------------------------
(* The invariant. *)

Place == [cand: Nat, step: Steps, heard: SUBSET Agents,
          prompts: 0..MaxAttempts, rounds: 0..ResolveAttempts, calls: Nat]

\* The calls a candidate has cost when it comes to a step.
Within(p) ==
  /\ p.step \in {"idle"} => p.calls = 0
  /\ p.step \in {"macro", "derivatives"} => p.calls <= 1
  /\ p.step \in {"sentiment", "candles"} => p.calls <= 2
  /\ p.step = "technical" => p.calls <= 3
  /\ p.step = "debate" => p.calls <= 5
  /\ p.step = "trader" => p.calls <= 6
  /\ p.step = "setup" =>
       /\ p.prompts >= 1 /\ p.rounds >= 1
       /\ p.calls <= 4 + 2 * p.rounds + p.prompts
  /\ p.calls <= 11

Shape ==
  /\ at \in [Runs -> Place]
  /\ \A r \in Runs :
       /\ at[r].cand <= Count[r] /\ Within(at[r])
       /\ at[r].step # "failing" => at[r].heard \subseteq Called(at[r].step)
  /\ DOMAIN verdict = Runs
  /\ \A r \in Runs : verdict[r] \in [Places(r) -> Verdicts]

\* The candidates before the current one have a verdict and the others have none.
InOrder ==
  \A r \in Runs : \A c \in Places(r) :
    /\ c < at[r].cand => verdict[r][c] # "none"
    /\ c > at[r].cand => verdict[r][c] = "none"
    /\ c = at[r].cand => (verdict[r][c] = "none" <=> at[r].step # "done")

\* The call t is one that its run waits for.
Live(t) ==
  /\ t[2] = at[t[1]].cand
  /\ t[3] \in Called(at[t[1]].step) \ at[t[1]].heard

\* The call t is the rest of a debate that has failed.
Lone(t) ==
  /\ t[3] \in Debaters
  /\ \/ verdict[t[1]][t[2]] = "failed"
     \/ t[2] = at[t[1]].cand /\ at[t[1]].step = "failing"
  /\ \A u \in asked \cup flight : u[1] = t[1] /\ u[2] = t[2] => u = t

Accounted == \A t \in asked \cup flight : Live(t) \/ Lone(t)

Ordered == Shape /\ InOrder

----------------------------------------------------------------------------
(* The places a run goes to. *)

Arrival(p) == [p EXCEPT !.heard = {}, !.calls = @ + Cardinality(Called(p.step))]

\* How many calls a step makes.
LEMMA CallCounts ==
  /\ Called("debate") = Debaters /\ Cardinality(Debaters) = 2
  /\ \A s \in LoneAgents : Called(s) = {s} /\ Cardinality(Called(s)) = 1
  /\ \A s \in {"idle", "candles", "failing", "done"} :
       Called(s) = {} /\ Cardinality(Called(s)) = 0
  <1>1. Cardinality(Debaters) = 2
    <2>1. Debaters = {"bull"} \cup {"bear"} /\ "bear" \notin {"bull"}
      BY DEF Debaters
    <2>2. IsFiniteSet({"bull"}) /\ Cardinality({"bull"}) = 1
      BY FS_Singleton
    <2> QED BY <2>1, <2>2, FS_AddElement
  <1>2. ASSUME NEW s \in LoneAgents
        PROVE  Called(s) = {s} /\ Cardinality(Called(s)) = 1
    <2>1. Called(s) = {s}
      BY DEF Called, LoneAgents
    <2> QED BY <2>1, FS_Singleton
  <1>3. \A s \in {"idle", "candles", "failing", "done"} : Called(s) = {}
    BY DEF Called, LoneAgents
  <1> QED BY <1>1, <1>2, <1>3, FS_EmptySet DEF Called

\* A run is at a place with that many more calls, and has heard nobody.
LEMMA Arrives ==
  ASSUME NEW p \in Place, NEW n \in Nat, n = Cardinality(Called(p.step))
  PROVE  /\ Arrival(p) \in Place
         /\ Arrival(p).cand = p.cand /\ Arrival(p).step = p.step
         /\ Arrival(p).prompts = p.prompts /\ Arrival(p).rounds = p.rounds
         /\ Arrival(p).heard = {} /\ Arrival(p).calls = p.calls + n
  <1>1. p.calls + n \in Nat
    BY DEF Place
  <1>2. Arrival(p) = [p EXCEPT !.heard = {}, !.calls = p.calls + n]
    BY DEF Arrival
  <1>3. /\ Arrival(p).cand = p.cand /\ Arrival(p).step = p.step
        /\ Arrival(p).prompts = p.prompts /\ Arrival(p).rounds = p.rounds
        /\ Arrival(p).heard = {} /\ Arrival(p).calls = p.calls + n
    BY <1>2 DEF Place
  <1>4. Arrival(p) \in Place
    BY <1>1, <1>2 DEF Place
  <1> QED BY <1>3, <1>4

\* The shape holds after a run has gone to a place within the bounds.
LEMMA GoesToShape ==
  ASSUME Shape, NEW r \in Runs, NEW p \in Place, GoesTo(r, p),
         p.cand <= Count[r], Within(Arrival(p)), Arrival(p) \in Place
  PROVE  /\ at' = [at EXCEPT ![r] = Arrival(p)]
         /\ at' \in [Runs -> Place]
         /\ \A q \in Runs :
              /\ at'[q].cand <= Count[q] /\ Within(at'[q])
              /\ at'[q].step # "failing" => at'[q].heard \subseteq Called(at'[q].step)
  <1>1. at' = [at EXCEPT ![r] = Arrival(p)]
    BY DEF GoesTo, Arrival
  <1>2. Arrival(p).heard = {} /\ Arrival(p).cand = p.cand
    BY DEF Arrival, Place
  <1> QED BY <1>1, <1>2 DEF Shape

\* A step follows another: the calls for the candidate stay within its bounds.
LEMMA Follows ==
  ASSUME NEW p \in Place, Within(p), NEW s \in Steps,
         \/ p.step = "idle" /\ s = "macro"
         \/ p.step = "derivatives" /\ s = "sentiment"
         \/ p.step = "sentiment" /\ s = "candles"
         \/ p.step = "candles" /\ s = "technical"
         \/ p.step = "technical" /\ s = "debate"
         \/ p.step = "debate" /\ s = "trader"
         \/ p.step = "setup" /\ s = "advocate"
  PROVE  LET q == [p EXCEPT !.step = s]
         IN q \in Place /\ q.cand = p.cand /\ Arrival(q) \in Place /\ Within(Arrival(q))
  <1> DEFINE q == [p EXCEPT !.step = s]
  <1>1. /\ q \in Place /\ q.cand = p.cand /\ q.step = s /\ q.calls = p.calls
        /\ q.prompts = p.prompts /\ q.rounds = p.rounds
    BY DEF Place
  <1>2. p.calls \in Nat /\ p.prompts \in 0..2 /\ p.rounds \in 0..2
    BY DEF Place, MaxAttempts, ResolveAttempts
  <1> HIDE DEF q
  <1>3. CASE s \in LoneAgents
    <2>1. Cardinality(Called(q.step)) = 1
      BY <1>1, <1>3, CallCounts
    <2>2. /\ Arrival(q) \in Place /\ Arrival(q).calls = p.calls + 1
          /\ Arrival(q).step = s
      BY <1>1, <2>1, Arrives
    <2> QED BY <1>1, <1>2, <1>3, <2>2 DEF Within, LoneAgents, q
  <1>4. CASE s = "debate"
    <2>1. Cardinality(Called(q.step)) = 2
      BY <1>1, <1>4, CallCounts
    <2>2. /\ Arrival(q) \in Place /\ Arrival(q).calls = p.calls + 2
          /\ Arrival(q).step = s
      BY <1>1, <2>1, Arrives
    <2> QED BY <1>1, <1>2, <1>4, <2>2 DEF Within, q
  <1>5. CASE s = "candles"
    <2>1. Cardinality(Called(q.step)) = 0
      BY <1>1, <1>5, CallCounts
    <2>2. /\ Arrival(q) \in Place /\ Arrival(q).calls = p.calls + 0
          /\ Arrival(q).step = s
      BY <1>1, <2>1, Arrives
    <2> QED BY <1>1, <1>2, <1>5, <2>2 DEF Within, q
  <1> QED BY <1>3, <1>4, <1>5 DEF LoneAgents

\* The setup is asked for: first, again, or afresh.
LEMMA SetupFollows ==
  ASSUME NEW p \in Place, Within(p), NEW i \in 1..MaxAttempts, NEW j \in 1..ResolveAttempts,
         \/ p.step = "trader" /\ i = 1 /\ j = 1
         \/ p.step = "setup" /\ i = p.prompts + 1 /\ j = p.rounds
         \/ p.step = "setup" /\ i = 1 /\ j = p.rounds + 1
  PROVE  LET q == [p EXCEPT !.step = "setup", !.prompts = i, !.rounds = j]
         IN q \in Place /\ q.cand = p.cand /\ Arrival(q) \in Place /\ Within(Arrival(q))
  <1> DEFINE q == [p EXCEPT !.step = "setup", !.prompts = i, !.rounds = j]
  <1>1. /\ q \in Place /\ q.cand = p.cand /\ q.step = "setup" /\ q.calls = p.calls
        /\ q.prompts = i /\ q.rounds = j
    <2>1. /\ q.cand = p.cand /\ q.step = "setup" /\ q.calls = p.calls
          /\ q.prompts = i /\ q.rounds = j
      BY DEF Place
    <2>2. "setup" \in Steps /\ i \in 0..MaxAttempts /\ j \in 0..ResolveAttempts
      BY DEF Steps, LoneAgents, MaxAttempts, ResolveAttempts
    <2>3. q \in Place
      BY <2>2 DEF Place
    <2> QED BY <2>1, <2>3
  <1>2. /\ p.calls \in Nat /\ p.prompts \in 0..2 /\ p.rounds \in 0..2
        /\ i \in 1..2 /\ j \in 1..2
    BY DEF Place, MaxAttempts, ResolveAttempts
  <1> HIDE DEF q
  <1>3. Cardinality(Called(q.step)) = 1
    BY <1>1, CallCounts DEF LoneAgents
  <1>4. /\ Arrival(q) \in Place /\ Arrival(q).calls = p.calls + 1
        /\ Arrival(q).step = "setup" /\ Arrival(q).prompts = i /\ Arrival(q).rounds = j
    BY <1>1, <1>3, Arrives
  <1> QED BY <1>1, <1>2, <1>4 DEF Within, q

----------------------------------------------------------------------------
(* The candidates are taken in their order. *)

\* A step within a candidate leaves the order as it is.
LEMMA StepInOrder ==
  ASSUME Ordered, NEW r \in Runs, NEW q, at' = [at EXCEPT ![r] = q],
         q.cand = at[r].cand, q.step # "done", at[r].step # "done", verdict' = verdict
  PROVE  InOrder'
  BY DEF Ordered, InOrder, Shape

\* MovesTo keeps the order and the bounds.
LEMMA MoveOrdered ==
  ASSUME Ordered, NEW r \in Runs, NEW s \in Steps, MovesTo(r, s),
         \/ at[r].step = "idle" /\ s = "macro"
         \/ at[r].step = "derivatives" /\ s = "sentiment"
         \/ at[r].step = "sentiment" /\ s = "candles"
         \/ at[r].step = "candles" /\ s = "technical"
         \/ at[r].step = "technical" /\ s = "debate"
         \/ at[r].step = "debate" /\ s = "trader"
         \/ at[r].step = "setup" /\ s = "advocate"
  PROVE  Ordered'
  <1> DEFINE q == [at[r] EXCEPT !.step = s]
  <1>1. at[r] \in Place /\ Within(at[r]) /\ at[r].cand <= Count[r]
    BY DEF Ordered, Shape
  <1>2. q \in Place /\ q.cand = at[r].cand /\ Arrival(q) \in Place /\ Within(Arrival(q))
    BY <1>1, Follows
  <1>3. q.step = s
    BY <1>1 DEF Place
  <1>4. GoesTo(r, q) /\ verdict' = verdict
    BY DEF MovesTo
  <1> HIDE DEF q
  <1>5. Arrival(q).cand = q.cand /\ Arrival(q).step = q.step
    BY <1>2 DEF Arrival, Place
  <1>6. /\ at' = [at EXCEPT ![r] = Arrival(q)]
        /\ Shape'
    BY <1>1, <1>2, <1>4, GoesToShape DEF Ordered, Shape
  <1>7. InOrder'
    BY <1>2, <1>3, <1>4, <1>5, <1>6, StepInOrder
  <1> QED BY <1>6, <1>7 DEF Ordered

\* So does asking for a setup.
LEMMA SetupOrdered ==
  ASSUME Ordered, NEW r \in Runs, NEW i \in 1..MaxAttempts, NEW j \in 1..ResolveAttempts,
         AsksSetup(r, i, j),
         \/ at[r].step = "trader" /\ i = 1 /\ j = 1
         \/ at[r].step = "setup" /\ i = at[r].prompts + 1 /\ j = at[r].rounds
         \/ at[r].step = "setup" /\ i = 1 /\ j = at[r].rounds + 1
  PROVE  Ordered'
  <1> DEFINE q == [at[r] EXCEPT !.step = "setup", !.prompts = i, !.rounds = j]
  <1>1. at[r] \in Place /\ Within(at[r]) /\ at[r].cand <= Count[r]
    BY DEF Ordered, Shape
  <1>2. q \in Place /\ q.cand = at[r].cand /\ Arrival(q) \in Place /\ Within(Arrival(q))
    BY <1>1, SetupFollows
  <1>3. q.step = "setup"
    BY <1>1 DEF Place
  <1>4. GoesTo(r, q) /\ verdict' = verdict
    BY DEF AsksSetup
  <1> HIDE DEF q
  <1>5. Arrival(q).cand = q.cand /\ Arrival(q).step = q.step
    BY <1>2 DEF Arrival, Place
  <1>6. /\ at' = [at EXCEPT ![r] = Arrival(q)]
        /\ Shape'
    BY <1>1, <1>2, <1>4, GoesToShape DEF Ordered, Shape
  <1>7. InOrder'
    BY <1>2, <1>3, <1>4, <1>5, <1>6, StepInOrder
  <1> QED BY <1>6, <1>7 DEF Ordered

\* Where a run goes when a candidate is through.
NextPlace(r, over) ==
  [cand |-> IF over THEN at[r].cand ELSE at[r].cand + 1,
   step |-> IF over THEN "done" ELSE "derivatives",
   heard |-> {}, prompts |-> 0, rounds |-> 0, calls |-> 0]

\* The candidates have numbers.
LEMMA CountsAreNumbers == \A r \in Runs : Count[r] \in Nat \ {0}
  BY RunAssumption

\* The run arrives there with one call, or none when it is over.
LEMMA NextArrival ==
  ASSUME Ordered, NEW r \in Runs, NEW over \in BOOLEAN,
         over \/ at[r].cand # Count[r]
  PROVE  LET q == NextPlace(r, over)
         IN /\ q \in Place /\ q.cand <= Count[r]
            /\ Arrival(q) \in Place /\ Within(Arrival(q))
            /\ Arrival(q).cand = q.cand /\ Arrival(q).step = q.step
            /\ q.cand = (IF over THEN at[r].cand ELSE at[r].cand + 1)
            /\ q.step = (IF over THEN "done" ELSE "derivatives")
  <1> DEFINE q == NextPlace(r, over)
  <1>1. at[r].cand \in Nat /\ at[r].cand <= Count[r] /\ Count[r] \in Nat
    BY CountsAreNumbers DEF Ordered, Shape, Place
  <1>2. /\ q.cand = (IF over THEN at[r].cand ELSE at[r].cand + 1)
        /\ q.step = (IF over THEN "done" ELSE "derivatives")
        /\ q.prompts = 0 /\ q.rounds = 0 /\ q.calls = 0
    BY DEF NextPlace
  <1>3. q \in Place
    <2>1. /\ (IF over THEN at[r].cand ELSE at[r].cand + 1) \in Nat
          /\ (IF over THEN "done" ELSE "derivatives") \in Steps
          /\ 0 \in 0..MaxAttempts /\ 0 \in 0..ResolveAttempts
      BY <1>1 DEF Steps, LoneAgents, MaxAttempts, ResolveAttempts
    <2> QED BY <2>1 DEF NextPlace, Place
  <1>4. q.cand <= Count[r]
    BY <1>1, <1>2
  <1> HIDE DEF q
  <1>5. CASE over
    <2>1. Cardinality(Called(q.step)) = 0
      BY <1>2, <1>5, CallCounts
    <2>2. /\ Arrival(q) \in Place /\ Arrival(q).calls = 0
          /\ Arrival(q).cand = q.cand /\ Arrival(q).step = "done"
      BY <1>2, <1>3, <1>5, <2>1, Arrives
    <2>3. Within(Arrival(q))
      BY <2>2 DEF Within
    <2> QED BY <1>2, <1>3, <1>4, <1>5, <2>2, <2>3 DEF q
  <1>6. CASE ~over
    <2>1. Cardinality(Called(q.step)) = 1
      BY <1>2, <1>6, CallCounts DEF LoneAgents
    <2>2. /\ Arrival(q) \in Place /\ Arrival(q).calls = 1
          /\ Arrival(q).cand = q.cand /\ Arrival(q).step = "derivatives"
      BY <1>2, <1>3, <1>6, <2>1, Arrives
    <2>3. Within(Arrival(q))
      BY <2>2 DEF Within
    <2> QED BY <1>2, <1>3, <1>4, <1>6, <2>2, <2>3 DEF q
  <1> QED BY <1>5, <1>6

\* What Settles does.
LEMMA SettlesMeans ==
  ASSUME Ordered, NEW r \in Runs, NEW v \in Verdicts \ {"none"}, Settles(r, v)
  PROVE  \E over \in BOOLEAN :
           /\ over <=> at[r].cand = Count[r] \/ (at[r].cand = 0 /\ v = "failed")
           /\ GoesTo(r, NextPlace(r, over))
           /\ at' = [at EXCEPT ![r] = Arrival(NextPlace(r, over))]
           /\ Shape'
           /\ verdict' = [verdict EXCEPT ![r][at[r].cand] = v]
  <1> DEFINE over == at[r].cand = Count[r] \/ (at[r].cand = 0 /\ v = "failed")
  <1>1. over \in BOOLEAN /\ (over \/ at[r].cand # Count[r])
    OBVIOUS
  <1>2. /\ GoesTo(r, NextPlace(r, over))
        /\ verdict' = [verdict EXCEPT ![r][at[r].cand] = v]
    BY DEF Settles, NextPlace
  <1> HIDE DEF over
  <1>3. /\ at' = [at EXCEPT ![r] = Arrival(NextPlace(r, over))]
        /\ at' \in [Runs -> Place]
        /\ \A q \in Runs :
              /\ at'[q].cand <= Count[q] /\ Within(at'[q])
              /\ at'[q].step # "failing" => at'[q].heard \subseteq Called(at'[q].step)
    BY <1>1, <1>2, NextArrival, GoesToShape DEF Ordered
  <1>4. /\ DOMAIN verdict' = Runs
        /\ \A q \in Runs : verdict'[q] \in [Places(q) -> Verdicts]
    BY <1>2 DEF Ordered, Shape
  <1>5. Shape'
    BY <1>3, <1>4 DEF Shape
  <1> QED BY <1>1, <1>2, <1>3, <1>5 DEF over

\* A candidate that is through makes room for the next, or ends the run.
LEMMA SettleOrdered ==
  ASSUME Ordered, NEW r \in Runs, NEW v \in Verdicts \ {"none"}, Settles(r, v),
         at[r].step # "done"
  PROVE  Ordered'
  <1>1. PICK over \in BOOLEAN :
           /\ over <=> at[r].cand = Count[r] \/ (at[r].cand = 0 /\ v = "failed")
           /\ at' = [at EXCEPT ![r] = Arrival(NextPlace(r, over))]
           /\ Shape'
           /\ verdict' = [verdict EXCEPT ![r][at[r].cand] = v]
    BY SettlesMeans
  <1>2. /\ Arrival(NextPlace(r, over)).cand = (IF over THEN at[r].cand ELSE at[r].cand + 1)
        /\ Arrival(NextPlace(r, over)).step = (IF over THEN "done" ELSE "derivatives")
    BY <1>1, NextArrival
  <1>3. \A q \in Runs : at[q].cand \in Nat /\ Count[q] \in Nat /\ at[q].cand \in Places(q)
    BY CountsAreNumbers DEF Ordered, Shape, Place, Places
  <1>4. /\ at'[r].cand = (IF over THEN at[r].cand ELSE at[r].cand + 1)
        /\ at'[r].step = (IF over THEN "done" ELSE "derivatives")
        /\ \A q \in Runs \ {r} : at'[q] = at[q] /\ verdict'[q] = verdict[q]
        /\ verdict'[r] = [verdict[r] EXCEPT ![at[r].cand] = v]
    BY <1>1, <1>2 DEF Ordered, Shape
  <1>5. ASSUME NEW c \in Places(r)
        PROVE  /\ c < at'[r].cand => verdict'[r][c] # "none"
               /\ c > at'[r].cand => verdict'[r][c] = "none"
               /\ c = at'[r].cand => (verdict'[r][c] = "none" <=> at'[r].step # "done")
    <2>1. /\ c < at[r].cand => verdict[r][c] # "none"
          /\ c > at[r].cand => verdict[r][c] = "none"
      BY DEF Ordered, InOrder
    <2>2. verdict'[r][c] = (IF c = at[r].cand THEN v ELSE verdict[r][c])
      BY <1>4 DEF Ordered, Shape
    <2>3. c \in Nat
      BY <1>3 DEF Places
    <2> QED BY <1>3, <1>4, <2>1, <2>2, <2>3
  <1>6. InOrder'
    <2> SUFFICES ASSUME NEW q \in Runs, NEW c \in Places(q)
                 PROVE  /\ c < at'[q].cand => verdict'[q][c] # "none"
                        /\ c > at'[q].cand => verdict'[q][c] = "none"
                        /\ c = at'[q].cand => (verdict'[q][c] = "none" <=> at'[q].step # "done")
      BY DEF InOrder, Places
    <2>1. CASE q = r
      BY <1>5, <2>1
    <2>2. CASE q # r
      <3>1. at'[q] = at[q] /\ verdict'[q] = verdict[q]
        BY <1>4, <2>2
      <3>2. /\ c < at[q].cand => verdict[q][c] # "none"
            /\ c > at[q].cand => verdict[q][c] = "none"
            /\ c = at[q].cand => (verdict[q][c] = "none" <=> at[q].step # "done")
        BY DEF Ordered, InOrder
      <3> QED BY <3>1, <3>2
    <2> QED BY <2>1, <2>2
  <1> QED BY <1>1, <1>6 DEF Ordered

\* An answer keeps the run where it is; a failure makes its candidate fail.
LEMMA CallOrdered ==
  ASSUME Ordered, NEW t \in Tasks, Gets(t) \/ Misses(t)
  PROVE  Ordered'
  <1> DEFINE r == t[1]
  <1>0. r \in Runs
    BY TaskAssumption DEF RunTasks
  <1>1. CASE UNCHANGED <<at, verdict>>
    BY <1>1 DEF Ordered, Shape, InOrder
  <1>2. CASE Awaited(t) /\ Gets(t)
    <2> DEFINE q == [at[r] EXCEPT !.heard = @ \cup {t[3]}]
    <2>1. at' = [at EXCEPT ![r] = q] /\ verdict' = verdict
      BY <1>0, <1>2 DEF Gets, Ordered, Shape
    <2>2. t[3] \in Called(at[r].step) /\ t[3] \in Agents
      BY <1>2 DEF Awaited, Called, Agents
    <2>3. /\ q \in Place /\ q.cand = at[r].cand /\ q.step = at[r].step
          /\ q.calls = at[r].calls /\ q.prompts = at[r].prompts /\ q.rounds = at[r].rounds
          /\ q.heard = at[r].heard \cup {t[3]}
      BY <1>0, <2>2 DEF Ordered, Shape, Place
    <2>4. at[r].step # "done"
      BY <2>2, CallCounts
    <2> HIDE DEF q
    <2>5. Within(q) /\ (q.step # "failing" => q.heard \subseteq Called(q.step))
      BY <1>0, <2>2, <2>3 DEF Ordered, Shape, Within
    <2>6. Shape'
      BY <1>0, <2>1, <2>3, <2>5 DEF Ordered, Shape
    <2>7. InOrder'
      BY <1>0, <2>1, <2>3, <2>4, StepInOrder
    <2> QED BY <2>6, <2>7 DEF Ordered
  <1>3. CASE Awaited(t) /\ Misses(t)
    <2> DEFINE q == [at[r] EXCEPT !.step = "failing"]
    <2>1. at' = [at EXCEPT ![r] = q] /\ verdict' = verdict
      BY <1>0, <1>3 DEF Misses, Ordered, Shape
    <2>2. t[3] \in Called(at[r].step)
      BY <1>3 DEF Awaited
    <2>3. /\ q \in Place /\ q.cand = at[r].cand /\ q.step = "failing"
          /\ q.calls = at[r].calls
      BY <1>0 DEF Ordered, Shape, Place, Steps
    <2>4. at[r].step # "done"
      BY <2>2, CallCounts
    <2> HIDE DEF q
    <2>5. Within(q)
      BY <1>0, <2>3 DEF Ordered, Shape, Within
    <2>6. Shape'
      BY <1>0, <2>1, <2>3, <2>5 DEF Ordered, Shape
    <2>7. InOrder'
      BY <1>0, <2>1, <2>3, <2>4, StepInOrder
    <2> QED BY <2>6, <2>7 DEF Ordered
  <1> QED BY <1>1, <1>2, <1>3 DEF Gets, Misses

----------------------------------------------------------------------------
(* Every call is accounted for, and every run has something to wait for. *)

Open == asked \cup flight

\* There is no call of the run r for the candidate c.
Quiet(r, c) == \A u \in Open : ~(u[1] = r /\ u[2] = c)

\* The agents a run waits for have calls that will answer.
Waiting ==
  \A r \in Runs : \A a \in Called(at[r].step) \ at[r].heard : <<r, at[r].cand, a>> \in Open

\* A run that is over has come to its last candidate, or failed at once.
Ended ==
  \A r \in Runs :
    at[r].step = "done" => verdict[r][0] = "failed" \/ at[r].cand = Count[r]

Calls == GatewayTypeOK /\ asked \cap flight = {} /\ Accounted

RunInv == Ordered /\ Calls /\ Waiting /\ Ended

\* What a task is: a run, one of its candidates, and an agent.
LEMMA TaskIs ==
  /\ \A t \in Tasks : /\ t[1] \in Runs /\ t[2] \in Places(t[1]) /\ t[3] \in Agents
                      /\ t = <<t[1], t[2], t[3]>>
  /\ \A r \in Runs, a \in Agents : \A c \in Places(r) : <<r, c, a>> \in Tasks
  BY TaskAssumption DEF RunTasks

\* When a run has heard whom it waited for, its candidate has no call left.
LEMMA HeardIsQuiet ==
  ASSUME RunInv, NEW r \in Runs, at[r].step \notin {"failing", "done"},
         Called(at[r].step) \subseteq at[r].heard
  PROVE  Quiet(r, at[r].cand)
  <1> SUFFICES ASSUME NEW u \in Open, u[1] = r, u[2] = at[r].cand PROVE FALSE
    BY DEF Quiet
  <1>1. u \in Tasks /\ u[2] \in Places(r)
    BY TaskIs DEF Open, RunInv, Calls, GatewayTypeOK
  <1>2. verdict[r][u[2]] = "none"
    BY <1>1 DEF RunInv, Ordered, InOrder
  <1>3. ~Live(u)
    BY DEF Live
  <1>4. ~Lone(u)
    BY <1>2 DEF Lone
  <1> QED BY <1>3, <1>4 DEF RunInv, Calls, Accounted, Open

\* The candidates to come have no calls.
LEMMA AheadIsQuiet ==
  ASSUME RunInv, NEW r \in Runs, NEW c \in Places(r), c > at[r].cand
  PROVE  Quiet(r, c)
  <1> SUFFICES ASSUME NEW u \in Open, u[1] = r, u[2] = c PROVE FALSE
    BY DEF Quiet
  <1>1. verdict[r][c] = "none"
    BY DEF RunInv, Ordered, InOrder
  <1>2. c # at[r].cand
    BY CountsAreNumbers DEF RunInv, Ordered, Shape, Place, Places
  <1>3. ~Live(u) /\ ~Lone(u)
    BY <1>1, <1>2 DEF Live, Lone
  <1> QED BY <1>3 DEF RunInv, Calls, Accounted, Open

\* The calls of a run that moves on, but for the new ones, are left alone.
LEMMA RestIsLone ==
  ASSUME RunInv, NEW r \in Runs, Quiet(r, at[r].cand), NEW t \in Open, t[1] = r
  PROVE  /\ t[3] \in Debaters /\ verdict[r][t[2]] = "failed" /\ t[2] # at[r].cand
         /\ \A u \in Open : u[1] = t[1] /\ u[2] = t[2] => u = t
  <1>1. t[2] # at[r].cand
    BY DEF Quiet
  <1>2. Lone(t)
    BY <1>1 DEF RunInv, Calls, Accounted, Live, Open
  <1> QED BY <1>1, <1>2 DEF Lone, Open

\* A run that goes to a place keeps the books.
LEMMA GoesToCalls ==
  ASSUME RunInv, NEW r \in Runs, NEW p \in Place, GoesTo(r, p),
         at' = [at EXCEPT ![r] = Arrival(p)], Arrival(p) \in Place,
         Called(p.step) = {} \/ Quiet(r, p.cand),
         \A q \in Runs \ {r} : verdict'[q] = verdict[q],
         \A t \in Open : t[1] = r =>
           /\ t[3] \in Debaters /\ verdict'[r][t[2]] = "failed"
           /\ \A u \in Open : u[1] = t[1] /\ u[2] = t[2] => u = t
  PROVE  Calls' /\ Waiting'
  <1> DEFINE T == {<<r, p.cand, a>> : a \in Called(p.step)}
  <1>1. Asks(T)
    BY DEF GoesTo
  <1>2. /\ asked' = asked \cup T /\ flight' = flight /\ spent' = spent /\ peak' = peak
        /\ T \subseteq Tasks /\ Open' = Open \cup T
    BY <1>1 DEF Asks, Open
  <1>3. /\ at'[r].cand = p.cand /\ at'[r].step = p.step /\ at'[r].heard = {}
        /\ \A q \in Runs \ {r} : at'[q] = at[q]
    BY DEF RunInv, Ordered, Shape, Arrival, Place
  <1>4. \A t \in T : t[1] = r /\ t[2] = p.cand /\ t[3] \in Called(p.step)
    OBVIOUS
  <1>5. T \cap Open = {}
    BY <1>4 DEF Quiet
  <1>6. GatewayTypeOK' /\ asked' \cap flight' = {}
    BY <1>2, <1>5 DEF RunInv, Calls, GatewayTypeOK, Open
  <1>7. ASSUME NEW t \in T PROVE Live(t)'
    BY <1>3, <1>4 DEF Live
  <1>8. ASSUME NEW t \in Open, t[1] = r PROVE Lone(t)'
    <2>1. \A u \in T : ~(u[1] = t[1] /\ u[2] = t[2])
      BY <1>4, <1>8 DEF Quiet
    <2>2. t[3] \in Debaters /\ verdict'[t[1]][t[2]] = "failed"
      BY <1>8
    <2>3. \A u \in Open' : u[1] = t[1] /\ u[2] = t[2] => u = t
      BY <1>2, <1>8, <2>1
    <2> QED BY <2>2, <2>3 DEF Lone, Open
  <1>9. ASSUME NEW t \in Open, t[1] # r PROVE Live(t)' \/ Lone(t)'
    <2>1. t[1] \in Runs
      BY TaskIs DEF RunInv, Calls, GatewayTypeOK, Open
    <2>2. at'[t[1]] = at[t[1]] /\ verdict'[t[1]] = verdict[t[1]]
      BY <1>3, <1>9, <2>1
    <2>3. Live(t) \/ Lone(t)
      BY DEF RunInv, Calls, Accounted, Open
    <2>4. Live(t) => Live(t)'
      BY <2>2 DEF Live
    <2>5. ASSUME Lone(t) PROVE Lone(t)'
      <3>1. \A u \in Open' : u[1] = t[1] /\ u[2] = t[2] => u = t
        BY <1>2, <1>4, <1>9, <2>5 DEF Lone, Open
      <3> QED BY <2>2, <2>5, <3>1 DEF Lone, Open
    <2> QED BY <2>3, <2>4, <2>5
  <1>10. Accounted'
    <2> SUFFICES ASSUME NEW t \in Open' PROVE Live(t)' \/ Lone(t)'
      BY DEF Accounted, Open
    <2> QED BY <1>2, <1>7, <1>8, <1>9
  <1>11. Waiting'
    <2> SUFFICES ASSUME NEW q \in Runs, NEW a \in Called(at'[q].step) \ at'[q].heard
                 PROVE  <<q, at'[q].cand, a>> \in Open'
      BY DEF Waiting
    <2>1. CASE q = r
      BY <1>2, <1>3, <2>1
    <2>2. CASE q # r
      BY <1>2, <1>3, <2>2 DEF RunInv, Waiting
    <2> QED BY <2>1, <2>2
  <1> QED BY <1>6, <1>10, <1>11 DEF Calls

\* A step within a candidate is taken when its calls are through.
LEMMA StepKeeps ==
  ASSUME RunInv, Ordered', NEW r \in Runs, NEW p \in Place, GoesTo(r, p),
         at' = [at EXCEPT ![r] = Arrival(p)], Arrival(p) \in Place,
         p.cand = at[r].cand, p.step # "done", verdict' = verdict,
         at[r].step \notin {"failing", "done"}, Called(at[r].step) \subseteq at[r].heard
  PROVE  RunInv'
  <1>1. Quiet(r, at[r].cand)
    BY HeardIsQuiet
  <1>2. Calls' /\ Waiting'
    BY <1>1, RestIsLone, GoesToCalls, ZenonT(30)
  <1>3. Arrival(p).step = p.step
    BY DEF Arrival, Place
  <1>4. Ended'
    BY <1>3 DEF RunInv, Ended, Ordered, Shape
  <1> QED BY <1>2, <1>4 DEF RunInv

\* MovesTo keeps the invariant.
LEMMA MoveKeeps ==
  ASSUME RunInv, NEW r \in Runs, NEW s \in Steps, MovesTo(r, s),
         Called(at[r].step) \subseteq at[r].heard,
         \/ at[r].step = "idle" /\ s = "macro"
         \/ at[r].step = "derivatives" /\ s = "sentiment"
         \/ at[r].step = "sentiment" /\ s = "candles"
         \/ at[r].step = "candles" /\ s = "technical"
         \/ at[r].step = "technical" /\ s = "debate"
         \/ at[r].step = "debate" /\ s = "trader"
         \/ at[r].step = "setup" /\ s = "advocate"
  PROVE  RunInv'
  <1> DEFINE q == [at[r] EXCEPT !.step = s]
  <1>1. at[r] \in Place /\ Within(at[r])
    BY DEF RunInv, Ordered, Shape
  <1>2. q \in Place /\ q.cand = at[r].cand /\ Arrival(q) \in Place
    BY <1>1, Follows
  <1>3. q.step = s
    BY <1>1 DEF Place
  <1>4. GoesTo(r, q) /\ verdict' = verdict
    BY DEF MovesTo
  <1>5. at' = [at EXCEPT ![r] = Arrival(q)]
    BY <1>4 DEF GoesTo, Arrival
  <1>6. Ordered'
    BY MoveOrdered DEF RunInv
  <1> HIDE DEF q
  <1> QED BY <1>2, <1>3, <1>4, <1>5, <1>6, StepKeeps

\* Asking for a setup keeps it.
LEMMA SetupKeeps ==
  ASSUME RunInv, NEW r \in Runs, NEW i \in 1..MaxAttempts, NEW j \in 1..ResolveAttempts,
         AsksSetup(r, i, j), Called(at[r].step) \subseteq at[r].heard,
         \/ at[r].step = "trader" /\ i = 1 /\ j = 1
         \/ at[r].step = "setup" /\ i = at[r].prompts + 1 /\ j = at[r].rounds
         \/ at[r].step = "setup" /\ i = 1 /\ j = at[r].rounds + 1
  PROVE  RunInv'
  <1> DEFINE q == [at[r] EXCEPT !.step = "setup", !.prompts = i, !.rounds = j]
  <1>1. at[r] \in Place /\ Within(at[r])
    BY DEF RunInv, Ordered, Shape
  <1>2. q \in Place /\ q.cand = at[r].cand /\ Arrival(q) \in Place
    BY <1>1, SetupFollows
  <1>3. q.step = "setup"
    BY <1>1 DEF Place
  <1>4. GoesTo(r, q) /\ verdict' = verdict
    BY DEF AsksSetup
  <1>5. at' = [at EXCEPT ![r] = Arrival(q)]
    BY <1>4 DEF GoesTo, Arrival
  <1>6. Ordered'
    BY SetupOrdered DEF RunInv
  <1> HIDE DEF q
  <1> QED BY <1>2, <1>3, <1>4, <1>5, <1>6, StepKeeps

\* A candidate is through: when its calls are, or when it fails and leaves the
\* other call of its debate behind.
LEMMA SettleKeeps ==
  ASSUME RunInv, NEW r \in Runs, NEW v \in Verdicts \ {"none"}, Settles(r, v),
         at[r].step # "done",
         \/ at[r].step # "failing" /\ Called(at[r].step) \subseteq at[r].heard
         \/ at[r].step = "failing" /\ v = "failed"
  PROVE  RunInv'
  <1>1. PICK over \in BOOLEAN :
           /\ over <=> at[r].cand = Count[r] \/ (at[r].cand = 0 /\ v = "failed")
           /\ GoesTo(r, NextPlace(r, over))
           /\ at' = [at EXCEPT ![r] = Arrival(NextPlace(r, over))]
           /\ verdict' = [verdict EXCEPT ![r][at[r].cand] = v]
    BY SettlesMeans DEF RunInv
  <1> DEFINE p == NextPlace(r, over)
  <1>2. /\ p \in Place /\ p.cand <= Count[r] /\ Arrival(p) \in Place
        /\ Arrival(p).cand = p.cand /\ Arrival(p).step = p.step
        /\ p.cand = (IF over THEN at[r].cand ELSE at[r].cand + 1)
        /\ p.step = (IF over THEN "done" ELSE "derivatives")
    BY <1>1, NextArrival DEF RunInv
  <1>3. /\ at[r].cand \in Nat /\ at[r].cand <= Count[r] /\ Count[r] \in Nat
        /\ at[r].cand \in Places(r)
    BY CountsAreNumbers DEF RunInv, Ordered, Shape, Place, Places
  <1> HIDE DEF p
  <1>4. Called(p.step) = {} \/ Quiet(r, p.cand)
    <2>1. CASE over
      BY <1>2, <2>1, CallCounts
    <2>2. CASE ~over
      <3>1. p.cand \in Places(r) /\ p.cand > at[r].cand
        BY <1>2, <1>3, <2>2 DEF Places
      <3> QED BY <3>1, AheadIsQuiet
    <2> QED BY <2>1, <2>2
  <1>5. /\ \A q \in Runs \ {r} : verdict'[q] = verdict[q]
        /\ \A c \in Places(r) : verdict'[r][c] = (IF c = at[r].cand THEN v ELSE verdict[r][c])
    BY <1>1, <1>3 DEF RunInv, Ordered, Shape
  <1>6. ASSUME NEW t \in Open, t[1] = r
        PROVE  /\ t[3] \in Debaters /\ verdict'[r][t[2]] = "failed"
               /\ \A u \in Open : u[1] = t[1] /\ u[2] = t[2] => u = t
    <2>0. t[2] \in Places(r)
      BY <1>6, TaskIs DEF RunInv, Calls, GatewayTypeOK, Open
    <2>1. CASE at[r].step # "failing" /\ Called(at[r].step) \subseteq at[r].heard
      <3>1. Quiet(r, at[r].cand)
        BY <2>1, HeardIsQuiet
      <3>2. /\ t[3] \in Debaters /\ verdict[r][t[2]] = "failed" /\ t[2] # at[r].cand
            /\ \A u \in Open : u[1] = t[1] /\ u[2] = t[2] => u = t
        BY <1>6, <3>1, RestIsLone
      <3> QED BY <1>5, <2>0, <3>2
    <2>2. CASE at[r].step = "failing" /\ v = "failed"
      <3>1. ~Live(t)
        BY <1>6, <2>2, CallCounts DEF Live
      <3>2. Lone(t)
        BY <3>1 DEF RunInv, Calls, Accounted, Open
      <3>3. verdict'[r][t[2]] = "failed"
        BY <1>5, <1>6, <2>0, <2>2, <3>2 DEF Lone
      <3> QED BY <3>2, <3>3 DEF Lone, Open
    <2> QED BY <2>1, <2>2
  <1>7. Calls' /\ Waiting'
    BY <1>1, <1>2, <1>4, <1>5, <1>6, GoesToCalls DEF p
  <1>8. Ordered'
    BY SettleOrdered DEF RunInv
  <1>9. Ended'
    <2> SUFFICES ASSUME NEW q \in Runs, at'[q].step = "done"
                 PROVE  verdict'[q][0] = "failed" \/ at'[q].cand = Count[q]
      BY DEF Ended
    <2>1. CASE q = r
      <3>1. at'[r].step = p.step /\ at'[r].cand = p.cand
        BY <1>1, <1>2 DEF RunInv, Ordered, Shape, p
      <3>2. over
        BY <1>2, <2>1, <3>1
      <3>3. CASE at[r].cand = Count[r]
        BY <1>2, <2>1, <3>1, <3>2, <3>3
      <3>4. CASE at[r].cand = 0 /\ v = "failed"
        BY <1>3, <1>5, <2>1, <3>4
      <3> QED BY <1>1, <3>2, <3>3, <3>4
    <2>2. CASE q # r
      <3>1. at'[q] = at[q] /\ verdict'[q] = verdict[q]
        BY <1>1, <1>5, <2>2 DEF RunInv, Ordered, Shape
      <3> QED BY <3>1 DEF RunInv, Ended
    <2> QED BY <2>1, <2>2
  <1> QED BY <1>7, <1>8, <1>9 DEF RunInv

----------------------------------------------------------------------------
(* The calls end. *)

\* A call that has ended took away what its run waited for, and said so.
LEMMA EndKeeps ==
  ASSUME RunInv, NEW t \in Open, Gets(t) \/ Misses(t), Open' = Open \ {t},
         GatewayTypeOK', asked' \cap flight' = {}
  PROVE  RunInv'
  <1> DEFINE r == t[1]
  <1>0. /\ t \in Tasks /\ r \in Runs /\ t[2] \in Places(r)
        /\ \A u \in Open : u[1] \in Runs /\ u = <<u[1], u[2], u[3]>>
    BY TaskIs DEF RunInv, Calls, GatewayTypeOK, Open
  <1>1. Ordered'
    BY <1>0, CallOrdered DEF RunInv
  <1>2. verdict' = verdict
    BY DEF Gets, Misses
  <1>3. CASE ~Awaited(t)
    <2>1. at' = at
      BY <1>3 DEF Gets, Misses
    <2>2. Waiting'
      <3> SUFFICES ASSUME NEW q \in Runs, NEW a \in Called(at[q].step) \ at[q].heard
                   PROVE  <<q, at[q].cand, a>> \in Open'
        BY <2>1 DEF Waiting
      <3>1. <<q, at[q].cand, a>> \in Open
        BY DEF RunInv, Waiting
      <3>2. <<q, at[q].cand, a>> # t
        BY <1>3 DEF Awaited
      <3> QED BY <3>1, <3>2
    <2>3. Accounted'
      <3> SUFFICES ASSUME NEW u \in Open' PROVE Live(u)' \/ Lone(u)'
        BY DEF Accounted, Open
      <3>1. Live(u) \/ Lone(u)
        BY DEF RunInv, Calls, Accounted, Open
      <3> QED BY <1>2, <2>1, <3>1 DEF Live, Lone, Open
    <2>4. Ended'
      BY <1>2, <2>1 DEF RunInv, Ended
    <2> QED BY <1>1, <2>2, <2>3, <2>4 DEF RunInv, Calls
  <1>4. CASE Awaited(t)
    <2>1. t[2] = at[r].cand /\ t[3] \in Called(at[r].step)
      BY <1>4 DEF Awaited
    <2>2. at[r].step \notin {"failing", "done", "idle", "candles"}
      BY <2>1, CallCounts
    <2>3. /\ \A q \in Runs \ {r} : at'[q] = at[q]
          /\ at'[r].cand = at[r].cand
          /\ \/ at'[r].step = at[r].step /\ at'[r].heard = at[r].heard \cup {t[3]}
             \/ at'[r].step = "failing"
      BY <1>0, <1>4 DEF Gets, Misses, RunInv, Ordered, Shape, Place
    <2>4. verdict[r][at[r].cand] = "none"
      BY <1>0, <2>1, <2>2 DEF RunInv, Ordered, InOrder
    <2>5. \A u \in Open : u[1] = r /\ u[2] = at[r].cand => Live(u)
      BY <2>2, <2>4 DEF RunInv, Calls, Accounted, Lone, Open
    <2>6. Waiting'
      <3> SUFFICES ASSUME NEW q \in Runs, NEW a \in Called(at'[q].step) \ at'[q].heard
                   PROVE  <<q, at'[q].cand, a>> \in Open'
        BY DEF Waiting
      <3>1. CASE q # r
        <4>1. <<q, at[q].cand, a>> \in Open /\ <<q, at[q].cand, a>> # t
          BY <2>3, <3>1 DEF RunInv, Waiting
        <4> QED BY <2>3, <3>1, <4>1
      <3>2. CASE q = r
        <4>1. at'[r].step = at[r].step /\ at'[r].heard = at[r].heard \cup {t[3]}
          BY <2>3, <3>2, CallCounts
        <4>2. <<r, at[r].cand, a>> \in Open /\ a # t[3]
          BY <3>2, <4>1 DEF RunInv, Waiting
        <4>3. <<r, at[r].cand, a>> # t
          BY <4>2
        <4> QED BY <2>3, <3>2, <4>2, <4>3
      <3> QED BY <3>1, <3>2
    <2>7. Accounted'
      <3> SUFFICES ASSUME NEW u \in Open' PROVE Live(u)' \/ Lone(u)'
        BY DEF Accounted, Open
      <3>0. u \in Open /\ u # t /\ (Live(u) \/ Lone(u))
        BY DEF RunInv, Calls, Accounted, Open
      <3>1. CASE u[1] # r
        <4>1. at'[u[1]] = at[u[1]]
          BY <1>0, <2>3, <3>0, <3>1
        <4> QED BY <1>2, <3>0, <4>1 DEF Live, Lone, Open
      <3>2. CASE u[1] = r /\ u[2] # at[r].cand
        <4>1. Lone(u) /\ verdict[r][u[2]] = "failed"
          BY <3>0, <3>2 DEF Live, Lone
        <4> QED BY <1>2, <3>2, <4>1 DEF Lone, Open
      <3>3. CASE u[1] = r /\ u[2] = at[r].cand
        <4>1. Live(u) /\ u[3] \in Called(at[r].step) \ at[r].heard
          BY <2>5, <3>0, <3>3 DEF Live
        <4>2. u[3] # t[3]
          BY <1>0, <2>1, <3>0, <3>3
        <4>3. CASE at'[r].step = at[r].step /\ at'[r].heard = at[r].heard \cup {t[3]}
          BY <2>3, <3>3, <4>1, <4>2, <4>3 DEF Live
        <4>4. CASE at'[r].step = "failing"
          <5>1. at[r].step = "debate" /\ Called(at[r].step) = Debaters
            <6>1. at[r].step \in Steps
              BY <1>0 DEF RunInv, Ordered, Shape, Place
            <6>2. at[r].step \notin LoneAgents
              BY <2>1, <4>1, <4>2, CallCounts
            <6> QED BY <2>2, <6>1, <6>2, CallCounts DEF Steps
          <5>2. ASSUME NEW w \in Open', w[1] = u[1], w[2] = u[2] PROVE w = u
            <6>1. w \in Open /\ w # t
              OBVIOUS
            <6>2. w[3] \in Debaters
              BY <2>5, <3>3, <5>1, <5>2, <6>1 DEF Live
            <6>3. w[3] # t[3]
              BY <1>0, <2>1, <3>3, <5>2, <6>1
            <6>4. w[3] = u[3]
              BY <2>1, <4>1, <4>2, <5>1, <6>2, <6>3 DEF Debaters
            <6> QED BY <1>0, <3>0, <5>2, <6>1, <6>4
          <5> QED BY <2>3, <3>3, <4>1, <4>4, <5>1, <5>2 DEF Lone, Open
        <4> QED BY <2>3, <4>3, <4>4
      <3> QED BY <3>1, <3>2, <3>3
    <2>8. Ended'
      <3> SUFFICES ASSUME NEW q \in Runs, at'[q].step = "done"
                   PROVE  verdict'[q][0] = "failed" \/ at'[q].cand = Count[q]
        BY DEF Ended
      <3>1. q # r
        BY <2>2, <2>3
      <3> QED BY <1>2, <2>3, <3>1 DEF RunInv, Ended
    <2> QED BY <1>1, <2>6, <2>7, <2>8 DEF RunInv, Calls
  <1> QED BY <1>3, <1>4

\* Nothing of what the runs see changes when a call passes the check.
LEMMA SameOpenKeeps ==
  ASSUME RunInv, GatewayTypeOK', asked' \cap flight' = {}, Open' = Open,
         UNCHANGED <<at, verdict>>
  PROVE  RunInv'
  <1>1. Ordered' /\ Ended'
    BY DEF RunInv, Ordered, Shape, InOrder, Ended
  <1>2. Waiting'
    BY DEF RunInv, Waiting
  <1>3. Accounted'
    BY DEF RunInv, Calls, Accounted, Live, Lone, Open
  <1> QED BY <1>1, <1>2, <1>3 DEF RunInv, Calls

\* A call goes on or ends.
LEMMA CallKeeps ==
  ASSUME RunInv, GatewayTypeOK', NEW t \in Tasks, CallEnds(t)
  PROVE  RunInv'
  <1>0. asked \cap flight = {}
    BY DEF RunInv, Calls
  <1>1. CASE CallPasses(t)
    <2>1. Open' = Open /\ asked' \cap flight' = {} /\ UNCHANGED <<at, verdict>>
      BY <1>0, <1>1 DEF CallPasses, Admits, Open
    <2> QED BY <2>1, SameOpenKeeps
  <1>2. CASE CallRefused(t)
    <2>1. t \in Open /\ Open' = Open \ {t} /\ asked' \cap flight' = {} /\ Misses(t)
      BY <1>0, <1>2 DEF CallRefused, Refuses, Open
    <2> QED BY <2>1, EndKeeps
  <1>3. CASE CallBreaks(t)
    <2>1. t \in Open /\ Open' = Open \ {t} /\ asked' \cap flight' = {} /\ Misses(t)
      BY <1>0, <1>3 DEF CallBreaks, Breaks, Open
    <2> QED BY <2>1, EndKeeps
  <1>4. ASSUME NEW cost \in 0..MaxCost, CallAnswered(t, cost) PROVE RunInv'
    <2>1. t \in Open /\ Open' = Open \ {t} /\ asked' \cap flight' = {} /\ Gets(t)
      BY <1>0, <1>4 DEF CallAnswered, Answers, Open
    <2> QED BY <2>1, EndKeeps
  <1> QED BY <1>1, <1>2, <1>3, <1>4 DEF CallEnds

\* A run that begins or goes on.
LEMMA RunKeeps ==
  ASSUME RunInv, NEW r \in Runs, Starts(r) \/ Continues(r)
  PROVE  RunInv'
  <1> USE DEF Heard
  <1>0. /\ {"macro", "sentiment", "candles", "technical", "debate", "trader", "advocate"}
             \subseteq Steps
        /\ {"skipped", "failed", "reported"} \subseteq Verdicts \ {"none"}
        /\ at[r].prompts \in 0..2 /\ at[r].rounds \in 0..2
        /\ 1 \in 1..MaxAttempts /\ 1 \in 1..ResolveAttempts
    BY DEF Steps, LoneAgents, Verdicts, MaxAttempts, ResolveAttempts,
           RunInv, Ordered, Shape, Place
  <1>1. CASE Starts(r)
    BY <1>0, <1>1, MoveKeeps, CallCounts DEF Starts
  <1>2. CASE MacroKnown(r)
    BY <1>0, <1>2, SettleKeeps DEF MacroKnown
  <1>3. CASE Derivatives(r)
    BY <1>0, <1>3, MoveKeeps DEF Derivatives
  <1>4. CASE Sentiment(r)
    BY <1>0, <1>4, MoveKeeps DEF Sentiment
  <1>5. CASE Candles(r)
    <2>1. at[r].step = "candles" /\ Called(at[r].step) \subseteq at[r].heard
      BY <1>5, CallCounts DEF Candles
    <2>2. CASE MovesTo(r, "technical")
      BY <1>0, <2>1, <2>2, MoveKeeps
    <2>3. CASE Settles(r, "skipped") \/ Settles(r, "failed")
      BY <1>0, <2>1, <2>3, SettleKeeps
    <2> QED BY <1>5, <2>2, <2>3 DEF Candles
  <1>6. CASE Technical(r)
    <2>1. CASE MovesTo(r, "debate")
      BY <1>0, <1>6, <2>1, MoveKeeps DEF Technical
    <2>2. CASE Settles(r, "reported")
      BY <1>0, <1>6, <2>2, SettleKeeps DEF Technical
    <2> QED BY <1>6, <2>1, <2>2 DEF Technical
  <1>7. CASE Debate(r)
    BY <1>0, <1>7, MoveKeeps DEF Debate
  <1>8. CASE Trader(r)
    <2>1. CASE AsksSetup(r, 1, 1)
      BY <1>0, <1>8, <2>1, SetupKeeps DEF Trader
    <2>2. CASE Settles(r, "reported")
      BY <1>0, <1>8, <2>2, SettleKeeps DEF Trader
    <2> QED BY <1>8, <2>1, <2>2 DEF Trader
  <1>9. CASE Setup(r)
    <2>0. /\ at[r].step = "setup" /\ Called(at[r].step) \subseteq at[r].heard
          /\ at[r].prompts >= 1 /\ at[r].rounds >= 1
      BY <1>9 DEF Setup, RunInv, Ordered, Shape, Within
    <2>1. CASE Reprompts(r)
      <3>1. at[r].prompts + 1 \in 1..MaxAttempts /\ at[r].rounds \in 1..ResolveAttempts
        BY <1>0, <2>0, <2>1 DEF Reprompts, MaxAttempts, ResolveAttempts
      <3> QED BY <2>0, <2>1, <3>1, SetupKeeps DEF Reprompts
    <2>2. CASE Reresolves(r)
      <3>1. at[r].rounds + 1 \in 1..ResolveAttempts
        BY <1>0, <2>0, <2>2 DEF Reresolves, ResolveAttempts
      <3> QED BY <1>0, <2>0, <2>2, <3>1, SetupKeeps DEF Reresolves
    <2>3. CASE MovesTo(r, "advocate")
      BY <1>0, <2>0, <2>3, MoveKeeps
    <2>4. CASE Settles(r, "reported")
      BY <1>0, <2>0, <2>4, SettleKeeps
    <2> QED BY <1>9, <2>1, <2>2, <2>3, <2>4 DEF Setup
  <1>10. CASE Advocate(r)
    BY <1>0, <1>10, SettleKeeps DEF Advocate
  <1>11. CASE Fails(r)
    <2>1. CASE at[r].step = "failing"
      BY <1>0, <1>11, <2>1, SettleKeeps DEF Fails
    <2>2. ASSUME NEW s \in LoneAgents \cup {"debate"}, Heard(r, s) PROVE RunInv'
      <3>1. at[r].step \notin {"failing", "done"}
        BY <2>2 DEF LoneAgents
      <3> QED BY <1>0, <1>11, <2>2, <3>1, SettleKeeps DEF Fails
    <2> QED BY <1>11, <2>1, <2>2 DEF Fails
  <1> QED BY <1>1, <1>2, <1>3, <1>4, <1>5, <1>6, <1>7, <1>8, <1>9, <1>10, <1>11 DEF Continues

\* The invariant holds before the runs begin.
LEMMA RunInitInv == Init => RunInv
  <1> SUFFICES ASSUME Init PROVE RunInv
    OBVIOUS
  <1> DEFINE p == [cand |-> 0, step |-> "idle", heard |-> {},
                   prompts |-> 0, rounds |-> 0, calls |-> 0]
  <1>1. /\ p \in Place /\ Within(p) /\ p.cand = 0 /\ p.heard = {} /\ p.step = "idle"
        /\ Called(p.step) = {}
    BY CallCounts DEF Place, Steps, MaxAttempts, ResolveAttempts, Within
  <1>2. \A r \in Runs : at[r] = p
    BY DEF Init
  <1>3. \A r \in Runs : verdict[r] = [c \in Places(r) |-> "none"]
    BY DEF Init
  <1>4. at \in [Runs -> Place] /\ DOMAIN verdict = Runs
    BY <1>1 DEF Init
  <1> HIDE DEF p
  <1>5. Shape
    BY <1>1, <1>2, <1>3, <1>4, CountsAreNumbers DEF Shape, Verdicts
  <1>6. InOrder
    <2> SUFFICES ASSUME NEW r \in Runs, NEW c \in Places(r)
                 PROVE  /\ c < at[r].cand => verdict[r][c] # "none"
                        /\ c > at[r].cand => verdict[r][c] = "none"
                        /\ c = at[r].cand => (verdict[r][c] = "none" <=> at[r].step # "done")
      BY DEF InOrder
    <2>1. c \in Nat /\ verdict[r][c] = "none"
      <3>1. c \in Nat
        BY CountsAreNumbers DEF Places
      <3>2. verdict[r][c] = "none"
        BY <1>3
      <3> QED BY <3>1, <3>2
    <2>2. at[r].cand = 0 /\ at[r].step = "idle"
      BY <1>1, <1>2
    <2> QED BY <2>1, <2>2
  <1>7. Calls
    BY GatewayInitInv DEF Init, GatewayInit, Calls, Accounted, GatewayInv
  <1>8. Waiting /\ Ended
    BY <1>1, <1>2 DEF Waiting, Ended
  <1> QED BY <1>5, <1>6, <1>7, <1>8 DEF RunInv, Ordered

\* Every step keeps it.
LEMMA RunNextInv == RunInv /\ GatewayTypeOK' /\ [Next]_vars => RunInv'
  <1> SUFFICES ASSUME RunInv, GatewayTypeOK', [Next]_vars PROVE RunInv'
    OBVIOUS
  <1>1. ASSUME NEW r \in Runs, Starts(r) \/ Continues(r) PROVE RunInv'
    BY <1>1, RunKeeps
  <1>2. ASSUME NEW t \in Tasks, CallEnds(t) PROVE RunInv'
    BY <1>2, CallKeeps
  <1>3. CASE NewDay /\ UNCHANGED <<at, verdict>>
    BY <1>3, SameOpenKeeps DEF NewDay, Open, RunInv, Calls
  <1>4. CASE UNCHANGED vars
    BY <1>4, SameOpenKeeps DEF vars, gateVars, Open, RunInv, Calls
  <1> QED BY <1>1, <1>2, <1>3, <1>4 DEF Next

\* It holds of every behaviour of the analysis.
LEMMA RunInvariant == Spec => []RunInv
  <1>1. Spec => []GatewayTypeOK
    BY AnalysisUsesGateway, GatewayTyped, PTL
  <1>2. Init => RunInv
    BY RunInitInv
  <1>3. RunInv /\ GatewayTypeOK' /\ [Next]_vars => RunInv'
    BY RunNextInv
  <1> QED BY <1>1, <1>2, <1>3, PTL DEF Spec

----------------------------------------------------------------------------
(* What follows. *)

\* A pair has two elements at most.
LEMMA PairCounts ==
  ASSUME NEW x, NEW y
  PROVE  /\ IsFiniteSet({x}) /\ Cardinality({x}) = 1
         /\ IsFiniteSet({x} \cup {y}) /\ Cardinality({x} \cup {y}) <= 2
  <1>1. IsFiniteSet({x}) /\ Cardinality({x}) = 1
    BY FS_Singleton
  <1>2. /\ IsFiniteSet({x} \cup {y})
        /\ Cardinality({x} \cup {y}) = Cardinality({x}) \/ Cardinality({x} \cup {y}) = Cardinality({x}) + 1
    BY <1>1, FS_AddElement
  <1> QED BY <1>1, <1>2

\* The analysis is well-typed (analysis.py, debate.py, setup/graph.py).
THEOREM AnalysisTyped == Spec => []TypeOK
  <1>1. RunInv => TypeOK
    BY CountsAreNumbers DEF RunInv, Ordered, Shape, Calls, TypeOK, Place, Places
  <1> QED BY <1>1, RunInvariant, PTL

\* The loop over the levels (analysis.py, _run_setup_chain) and the retry of the
\* setup graph in it (nodes.py, route_after_validate) are bounded together.
THEOREM AnalysisCallsBounded == Spec => []CallsBounded
  <1>1. RunInv => CallsBounded
    BY DEF RunInv, Ordered, Shape, Within, Place, CallsBounded, MaxAttempts, ResolveAttempts
  <1> QED BY <1>1, RunInvariant, PTL

\* A failed candidate does not stop the run (analysis.py, run_analysis), which
\* never waits for an answer that no call will give.
THEOREM AnalysisGoesOn == Spec => []RunGoesOn
  <1>1. RunInv => RunGoesOn
    <2> SUFFICES ASSUME RunInv, NEW r \in Runs
                 PROVE  /\ \A a \in Called(at[r].step) \ at[r].heard :
                             <<r, at[r].cand, a>> \in asked \cup flight
                        /\ \A c \in Places(r) : c < at[r].cand => verdict[r][c] # "none"
                        /\ at[r].step = "done" =>
                             verdict[r][0] = "failed" \/ verdict[r][Count[r]] # "none"
      BY DEF RunGoesOn
    <2>1. Count[r] \in Places(r)
      BY CountsAreNumbers DEF Places
    <2>2. at[r].step = "done" => verdict[r][0] = "failed" \/ verdict[r][Count[r]] # "none"
      BY <2>1 DEF RunInv, Ended, Ordered, InOrder
    <2> QED BY <2>2 DEF RunInv, Waiting, Ordered, InOrder, Open
  <1> QED BY <1>1, RunInvariant, PTL

\* Nothing outlives its candidate but half of a debate that failed (debate.py,
\* run_debate: gather without return_exceptions).
THEOREM AnalysisStragglers == Spec => []LoneStragglers
  <1>1. RunInv => LoneStragglers
    <2> SUFFICES ASSUME RunInv, NEW r \in Runs, NEW c \in Places(r)
                 PROVE  /\ Cardinality(CallsOf(r, c)) <= 2
                        /\ verdict[r][c] # "none" /\ CallsOf(r, c) # {} =>
                             /\ verdict[r][c] = "failed"
                             /\ \E a \in Debaters : CallsOf(r, c) = {<<r, c, a>>}
      BY DEF LoneStragglers
    <2>0. \A u \in CallsOf(r, c) : /\ u \in Open /\ u[1] = r /\ u[2] = c
                                 /\ u = <<r, c, u[3]>> /\ (Live(u) \/ Lone(u))
      BY TaskIs DEF CallsOf, RunInv, Calls, Accounted, GatewayTypeOK, Open
    <2>1. ASSUME NEW t \in CallsOf(r, c), Lone(t)
          PROVE  t[3] \in Debaters /\ CallsOf(r, c) = {<<r, c, t[3]>>}
      <3>1. \A u \in CallsOf(r, c) : u = t
        BY <2>0, <2>1 DEF Lone, Open
      <3> QED BY <2>0, <2>1, <3>1 DEF Lone
    <2>2. Cardinality(CallsOf(r, c)) <= 2
      <3>1. CASE \E t \in CallsOf(r, c) : Lone(t)
        <4>1. PICK t \in CallsOf(r, c) : Lone(t)
          BY <3>1
        <4>2. CallsOf(r, c) = {<<r, c, t[3]>>}
          BY <2>1, <4>1
        <4>3. Cardinality({<<r, c, t[3]>>}) = 1
          BY FS_Singleton
        <4> QED BY <4>2, <4>3
      <3>2. CASE \A t \in CallsOf(r, c) : Live(t)
        <4>1. \A t \in CallsOf(r, c) : t[3] \in Called(at[r].step)
          BY <2>0, <3>2 DEF Live
        <4>2. at[r].step \in Steps
          BY DEF RunInv, Ordered, Shape, Place
        <4>3. PICK a, b : Called(at[r].step) \subseteq {a, b}
          BY <4>2, CallCounts DEF Steps, Debaters
        <4>4. CallsOf(r, c) \subseteq {<<r, c, a>>} \cup {<<r, c, b>>}
          BY <2>0, <4>1, <4>3
        <4>5. /\ IsFiniteSet({<<r, c, a>>}) /\ Cardinality({<<r, c, a>>}) = 1
              /\ IsFiniteSet({<<r, c, a>>} \cup {<<r, c, b>>})
              /\ Cardinality({<<r, c, a>>} \cup {<<r, c, b>>}) <= 2
          BY PairCounts
        <4>6. Cardinality(CallsOf(r, c)) <= Cardinality({<<r, c, a>>} \cup {<<r, c, b>>})
          BY <4>4, <4>5, FS_Subset
        <4>7. /\ Cardinality(CallsOf(r, c)) \in Nat
              /\ Cardinality({<<r, c, a>>} \cup {<<r, c, b>>}) \in Nat
          BY <4>4, <4>5, FS_Subset, FS_CardinalityType
        <4> QED BY <4>5, <4>6, <4>7
      <3> QED BY <2>0, <3>1, <3>2
    <2>3. ASSUME verdict[r][c] # "none", NEW t \in CallsOf(r, c)
          PROVE  Lone(t) /\ verdict[r][c] = "failed"
      <3>1. c = at[r].cand => at[r].step = "done"
        BY <2>3 DEF RunInv, Ordered, InOrder
      <3>2. ~Live(t)
        BY <2>0, <3>1, CallCounts DEF Live
      <3>3. Lone(t)
        BY <2>0, <3>2
      <3> QED BY <2>0, <3>1, <3>3 DEF Lone
    <2> QED BY <2>1, <2>2, <2>3
  <1> QED BY <1>1, RunInvariant, PTL
=============================================================================
