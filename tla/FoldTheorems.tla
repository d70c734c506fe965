---------------------------- MODULE FoldTheorems ----------------------------
(***************************************************************************)
(* Facts about the folds and sums of the community modules, which define   *)
(* them by a recursive function on the subsets of the folded set: that     *)
(* there is one, that all such functions agree, and the laws by which a    *)
(* sum, or a fold from the left, is computed.  Every induction here is     *)
(* over the subsets of a finite set: a smallest counterexample is shown to *)
(* be impossible.                                                          *)
(***************************************************************************)
EXTENDS FiniteSetsExt, FiniteSetTheorems, WellFoundedInduction, TLAPS

\* A nonempty set of subsets of a finite set has a smallest one.
LEMMA SmallestSubset ==
  ASSUME NEW S, IsFiniteSet(S), NEW T \in SUBSET SUBSET S, T # {}
  PROVE  \E s \in T : \A t \in T : t \subseteq s => t = s
<1>1. IsWellFoundedOn(StrictSubsetOrdering(S), SUBSET S)
  BY FS_StrictSubsetOrderingWellFounded, FS_FiniteSubsetsOfFinite, Zenon
<1>2. PICK s \in T : \A t \in T : ~ (<<t, s>> \in StrictSubsetOrdering(S))
  BY <1>1, WFMin, Zenon
<1>3. ASSUME NEW t \in T, t \subseteq s PROVE t = s
  BY <1>2, <1>3 DEF StrictSubsetOrdering
<1> QED
  BY <1>3

\* g folds the subsets of S with the step H, taking out pick[s] first.
IsFold(g, S, base, H, pick) ==
  g = [s \in SUBSET S |->
         IF s = {} THEN base ELSE H[<<pick[s], g[s \ {pick[s]}]>>]]

Picks(pick, S) == \A s \in SUBSET S : s # {} => pick[s] \in s

Keeps(H, S, V) == \A x \in S, v \in V : H[<<x, v>>] \in V

\* Two folds agree where they both are.
LEMMA FoldAgrees ==
  ASSUME NEW S, IsFiniteSet(S), NEW T, NEW base, NEW H, NEW pick, Picks(pick, S),
         NEW g, NEW h, IsFold(g, S, base, H, pick), IsFold(h, T, base, H, pick),
         NEW c, c \subseteq S, c \subseteq T
  PROVE  g[c] = h[c]
<1> DEFINE bad == {s \in (SUBSET S) \cap (SUBSET T) : g[s] # h[s]}
<1> SUFFICES ASSUME bad # {} PROVE FALSE
  OBVIOUS
<1>1. PICK s \in bad : \A t \in bad : t \subseteq s => t = s
  <2>1. bad \in SUBSET SUBSET S
    OBVIOUS
  <2> HIDE DEF bad
  <2> QED
    BY <2>1, SmallestSubset
<1>2. s \in SUBSET S /\ s \in SUBSET T /\ g[s] # h[s]
  BY <1>1
<1>3. /\ g[s] = IF s = {} THEN base ELSE H[<<pick[s], g[s \ {pick[s]}]>>]
      /\ h[s] = IF s = {} THEN base ELSE H[<<pick[s], h[s \ {pick[s]}]>>]
  BY <1>2 DEF IsFold
<1>4. s # {} /\ pick[s] \in s
  BY <1>2, <1>3 DEF Picks
<1>5. s \ {pick[s]} \notin bad
  BY <1>1, <1>4
<1> QED
  BY <1>2, <1>3, <1>4, <1>5

\* Folds of the proper subsets of T make a fold of T.
LEMMA FoldBuilds ==
  ASSUME NEW T, IsFiniteSet(T), NEW base, NEW H, NEW pick, Picks(pick, T),
         \A s \in SUBSET T : s # T => \E g : IsFold(g, s, base, H, pick)
  PROVE  \E g : IsFold(g, T, base, H, pick)
<1> DEFINE Of(s) == CHOOSE g : IsFold(g, s, base, H, pick)
           Below(s) == s \ {pick[s]}
           F(s) == IF s = {} THEN base ELSE H[<<pick[s], Of(Below(s))[Below(s)]>>]
           G == [s \in SUBSET T |-> F(s)]
<1>1. \A s \in SUBSET T : s # T => IsFold(Of(s), s, base, H, pick)
  OBVIOUS
<1> HIDE DEF Of
<1>2. ASSUME NEW s \in SUBSET T, s # {}
      PROVE  Below(s) \in SUBSET T /\ Below(s) # T /\ Below(s) \subseteq s
  BY <1>2 DEF Picks
<1>3. ASSUME NEW s \in SUBSET T, s # T PROVE Of(s)[s] = F(s)
  <2>1. IsFold(Of(s), s, base, H, pick)
    BY <1>1, <1>3
  <2>2. Of(s)[s] = IF s = {} THEN base ELSE H[<<pick[s], Of(s)[Below(s)]>>]
    BY <2>1 DEF IsFold
  <2>3. ASSUME s # {} PROVE Of(s)[Below(s)] = Of(Below(s))[Below(s)]
    <3> DEFINE r == Below(s)  gs == Of(s)  gr == Of(r)
    <3>1. /\ IsFold(gs, s, base, H, pick) /\ IsFold(gr, r, base, H, pick)
          /\ r \subseteq s /\ r \subseteq r
      BY <1>1, <1>2, <2>1, <2>3
    <3>2. IsFiniteSet(s) /\ Picks(pick, s)
      BY FS_Subset DEF Picks
    <3> HIDE DEF r, gs, gr
    <3>3. gs[r] = gr[r]
      BY <3>1, <3>2, FoldAgrees
    <3> QED
      BY <3>3 DEF r, gs, gr
  <2> QED
    BY <2>2, <2>3
<1>4. ASSUME NEW s \in SUBSET T, s # {} PROVE F(s) = H[<<pick[s], G[Below(s)]>>]
  <2>1. G[Below(s)] = F(Below(s)) /\ Of(Below(s))[Below(s)] = F(Below(s))
    BY <1>2, <1>3, <1>4
  <2> QED
    BY <1>4, <2>1
<1>5. \A s \in SUBSET T : F(s) = IF s = {} THEN base ELSE H[<<pick[s], G[s \ {pick[s]}]>>]
  <2> HIDE DEF G
  <2> QED
    BY <1>4
<1>6. G = [s \in SUBSET T |-> F(s)]
  OBVIOUS
<1> HIDE DEF F, G
<1>7. IsFold(G, T, base, H, pick)
  BY <1>5, <1>6 DEF IsFold
<1> QED
  BY <1>7

\* There is a fold of every finite set.
LEMMA FoldExists ==
  ASSUME NEW S, IsFiniteSet(S), NEW base, NEW H, NEW pick, Picks(pick, S)
  PROVE  \E g : IsFold(g, S, base, H, pick)
<1> DEFINE Has(T) == \E g : IsFold(g, T, base, H, pick)
           bad == {T \in SUBSET S : ~ Has(T)}
<1> SUFFICES ASSUME bad # {} PROVE FALSE
  OBVIOUS
<1>1. PICK T \in bad : \A t \in bad : t \subseteq T => t = T
  <2>1. bad \in SUBSET SUBSET S
    OBVIOUS
  <2> HIDE DEF bad
  <2> QED
    BY <2>1, SmallestSubset
<1>2. IsFiniteSet(T) /\ Picks(pick, T)
  BY FS_Subset DEF Picks
<1>3. \A s \in SUBSET T : s # T => Has(s)
  BY <1>1
<1>4. Has(T)
  BY <1>2, <1>3, FoldBuilds
<1> QED
  BY <1>4

\* The folded values have their type.
LEMMA FoldType ==
  ASSUME NEW S, IsFiniteSet(S), NEW V, NEW base \in V, NEW H, Keeps(H, S, V),
         NEW pick, Picks(pick, S), NEW g, IsFold(g, S, base, H, pick)
  PROVE  \A s \in SUBSET S : g[s] \in V
<1> DEFINE bad == {s \in SUBSET S : g[s] \notin V}
<1> SUFFICES ASSUME bad # {} PROVE FALSE
  OBVIOUS
<1>1. PICK s \in bad : \A t \in bad : t \subseteq s => t = s
  <2>1. bad \in SUBSET SUBSET S
    OBVIOUS
  <2> HIDE DEF bad
  <2> QED
    BY <2>1, SmallestSubset
<1>2. s \in SUBSET S /\ g[s] \notin V
  BY <1>1
<1>3. g[s] = IF s = {} THEN base ELSE H[<<pick[s], g[s \ {pick[s]}]>>]
  BY <1>2 DEF IsFold
<1>4. s # {} /\ pick[s] \in s
  BY <1>2, <1>3 DEF Picks
<1>5. s \ {pick[s]} \notin bad
  BY <1>1, <1>4
<1> QED
  BY <1>2, <1>3, <1>4, <1>5 DEF Keeps

----------------------------------------------------------------------------
(* Sums. *)

\* The sum of f over S.
SumOver(f, S) == MapThenSumSet(LAMBDA x : f[x], S)

IntOn(f, S) == \A x \in S : f[x] \in Int

Member(s) == CHOOSE x \in s : TRUE

SumStep(f, U) == [p \in U \X Int |-> f[p[1]] + p[2]]
Members(U) == [s \in SUBSET U |-> Member(s)]

\* A sum over a part T of U is a fold, with a step that depends on U alone.
LEMMA SumFolds ==
  ASSUME NEW U, IsFiniteSet(U), NEW f, IntOn(f, U), NEW T, T \subseteq U
  PROVE  \E g : /\ IsFold(g, T, 0, SumStep(f, U), Members(U))
                /\ SumOver(f, T) = g[T] /\ \A s \in SUBSET T : g[s] \in Int
<1> DEFINE H == SumStep(f, U)
           pick == Members(U)
           Sums(g) == g = [s \in SUBSET T |->
                         IF s = {} THEN 0 ELSE f[Member(s)] + g[s \ {Member(s)}]]
           it == CHOOSE g : Sums(g)
           V == Int
<1>0. /\ Picks(pick, T) /\ IsFiniteSet(T)
      /\ 0 \in V /\ Keeps(H, T, V)
  BY FS_Subset DEF Picks, SumStep, IntOn, Keeps, Members, Member
<1>1. \A s \in SUBSET T : s # {} => Member(s) \in s /\ pick[s] = Member(s)
  BY DEF Member, Members
<1>2. SumOver(f, T) = it[T]
  BY DEF SumOver, MapThenSumSet, MapThenFoldSet, Member
<1>3. ASSUME NEW g, \A s \in SUBSET T : g[s] \in Int
      PROVE  \A s \in SUBSET T :
               (IF s = {} THEN 0 ELSE f[Member(s)] + g[s \ {Member(s)}])
               = (IF s = {} THEN 0 ELSE H[<<pick[s], g[s \ {pick[s]}]>>])
  BY <1>1, <1>3 DEF SumStep
<1>4. \E g : Sums(g)
  <2>1. \E g : IsFold(g, T, 0, H, pick) /\ \A s \in SUBSET T : g[s] \in V
    <3> HIDE DEF H, pick, V, Sums, it
    <3>1. PICK g : IsFold(g, T, 0, H, pick)
      BY <1>0, FoldExists
    <3> QED
      BY <1>0, <3>1, FoldType
  <2>2. PICK g : IsFold(g, T, 0, H, pick) /\ \A s \in SUBSET T : g[s] \in Int
    BY <2>1
  <2>3. Sums(g)
    BY <1>3, <2>2 DEF IsFold
  <2> QED
    BY <2>3
<1>5. Sums(it)
  BY <1>4
<1> HIDE DEF it
<1>6. \A s \in SUBSET T : it[s] \in Int
  <2> DEFINE bad == {s \in SUBSET T : it[s] \notin Int}
  <2> SUFFICES ASSUME bad # {} PROVE FALSE
    OBVIOUS
  <2>1. PICK s \in bad : \A t \in bad : t \subseteq s => t = s
    <3>1. bad \in SUBSET SUBSET T
      OBVIOUS
    <3> HIDE DEF bad
    <3> QED
      BY <1>0, <3>1, SmallestSubset
  <2>2. it[s] = IF s = {} THEN 0 ELSE f[Member(s)] + it[s \ {Member(s)}]
    BY <1>5, <2>1
  <2>3. s # {} /\ Member(s) \in s /\ s \in SUBSET T
    BY <1>1, <2>1, <2>2
  <2>4. it[s \ {Member(s)}] \in Int
    BY <2>1, <2>3
  <2> QED
    BY <2>1, <2>2, <2>3, <2>4 DEF IntOn
<1>7. IsFold(it, T, 0, H, pick)
  BY <1>3, <1>5, <1>6 DEF IsFold
<1> QED
  BY <1>2, <1>6, <1>7

\* A sum takes out its members one by one.
LEMMA SumUnfold ==
  ASSUME NEW S, IsFiniteSet(S), NEW f, IntOn(f, S)
  PROVE  /\ SumOver(f, S) \in Int
         /\ S = {} => SumOver(f, S) = 0
         /\ S # {} => /\ Member(S) \in S
                      /\ SumOver(f, S) = f[Member(S)] + SumOver(f, S \ {Member(S)})
<1> DEFINE H == SumStep(f, S)
           pick == Members(S)
           r == S \ {Member(S)}
<1>0. Picks(pick, S) /\ r \subseteq S /\ S \subseteq S /\ r \subseteq r
  BY DEF Picks, Members, Member
<1>1. PICK g : /\ IsFold(g, S, 0, H, pick)
               /\ SumOver(f, S) = g[S] /\ \A s \in SUBSET S : g[s] \in Int
  BY <1>0, SumFolds
<1>2. PICK h : IsFold(h, r, 0, H, pick) /\ SumOver(f, r) = h[r]
  BY <1>0, SumFolds
<1>3. S # {} => Member(S) \in S /\ pick[S] = Member(S)
  BY DEF Member, Members
<1>4. g[S] = IF S = {} THEN 0 ELSE H[<<pick[S], g[S \ {pick[S]}]>>]
  BY <1>1 DEF IsFold
<1>5. g[r] = h[r]
  <2> HIDE DEF H, pick, r
  <2> QED
    BY <1>0, <1>1, <1>2, FoldAgrees
<1>6. g[r] \in Int /\ g[S] \in Int
  BY <1>1
<1>7. ASSUME S # {} PROVE g[S] = f[Member(S)] + g[r]
  <2>1. g[S] = H[<<Member(S), g[r]>>] /\ Member(S) \in S
    BY <1>3, <1>4, <1>7
  <2> QED
    BY <1>6, <2>1 DEF SumStep
<1> QED
  BY <1>1, <1>2, <1>3, <1>4, <1>5, <1>6, <1>7

\* The sum over nothing is 0.
LEMMA SumEmpty == ASSUME NEW f PROVE SumOver(f, {}) = 0
<1>1. IsFiniteSet({}) /\ IntOn(f, {})
  BY FS_EmptySet DEF IntOn
<1> QED
  BY <1>1, SumUnfold

\* It does not matter which element is taken out first.
LEMMA SumRemove ==
  ASSUME NEW S, IsFiniteSet(S), NEW f, IntOn(f, S), NEW x \in S
  PROVE  SumOver(f, S) = f[x] + SumOver(f, S \ {x})
<1>0. ASSUME NEW t \in SUBSET S
      PROVE  /\ SumOver(f, t) \in Int
             /\ t # {} => /\ Member(t) \in t
                          /\ SumOver(f, t) = f[Member(t)] + SumOver(f, t \ {Member(t)})
  <2>1. IsFiniteSet(t) /\ IntOn(f, t)
    BY FS_Subset DEF IntOn
  <2> QED
    BY <2>1, SumUnfold
<1> DEFINE Fine(T) == \A y \in T : SumOver(f, T) = f[y] + SumOver(f, T \ {y})
           bad == {T \in SUBSET S : ~ Fine(T)}
<1> SUFFICES ASSUME bad # {} PROVE FALSE
  OBVIOUS
<1>1. PICK T \in bad : \A t \in bad : t \subseteq T => t = T
  <2>1. bad \in SUBSET SUBSET S
    OBVIOUS
  <2> HIDE DEF bad
  <2> QED
    BY <2>1, SmallestSubset
<1>2. T \in SUBSET S /\ \A t \in SUBSET T : t # T => Fine(t)
  BY <1>1
<1>3. PICK y \in T : SumOver(f, T) # f[y] + SumOver(f, T \ {y})
  BY <1>1
<1> DEFINE p == Member(T)
           r == (T \ {p}) \ {y}
<1> HIDE DEF bad
<1>4. p \in T /\ SumOver(f, T) = f[p] + SumOver(f, T \ {p})
  BY <1>0, <1>2
<1> HIDE DEF p
<1>5. y # p
  BY <1>3, <1>4
<1>6. SumOver(f, T \ {p}) = f[y] + SumOver(f, r)
  <2>1. T \ {p} \in SUBSET T /\ T \ {p} # T /\ y \in T \ {p}
    BY <1>4, <1>5
  <2> QED
    BY <1>2, <2>1
<1>7. SumOver(f, T \ {y}) = f[p] + SumOver(f, r)
  <2>1. T \ {y} \in SUBSET T /\ T \ {y} # T /\ p \in T \ {y} /\ (T \ {y}) \ {p} = r
    BY <1>4, <1>5
  <2> QED
    BY <1>2, <2>1
<1>8. f[y] \in Int /\ f[p] \in Int /\ SumOver(f, r) \in Int
  BY <1>0, <1>2, <1>4 DEF IntOn
<1> QED
  BY <1>3, <1>4, <1>6, <1>7, <1>8

\* The sum with one more element.
LEMMA SumAdd ==
  ASSUME NEW S, IsFiniteSet(S), NEW x, x \notin S, NEW f, IntOn(f, S \cup {x})
  PROVE  SumOver(f, S \cup {x}) = SumOver(f, S) + f[x]
<1> DEFINE T == S \cup {x}
<1>1. IsFiniteSet(T) /\ T \ {x} = S /\ x \in T
  BY FS_AddElement
<1>2. IntOn(f, S) /\ f[x] \in Int /\ IntOn(f, T)
  BY DEF IntOn
<1>3. SumOver(f, S) \in Int
  BY <1>2, SumUnfold
<1> HIDE DEF T
<1>4. SumOver(f, T) = f[x] + SumOver(f, T \ {x})
  BY <1>1, <1>2, SumRemove
<1>5. SumOver(f, T) = f[x] + SumOver(f, S)
  BY <1>1, <1>4
<1>6. SumOver(f, T) = SumOver(f, S) + f[x]
  BY <1>2, <1>3, <1>5
<1> QED
  BY <1>6 DEF T

\* Functions that agree have one sum.
LEMMA SumSame ==
  ASSUME NEW S, IsFiniteSet(S), NEW f, IntOn(f, S), NEW g, \A x \in S : g[x] = f[x]
  PROVE  SumOver(g, S) = SumOver(f, S)
<1> DEFINE Opens(h, t) ==
             /\ t = {} => SumOver(h, t) = 0
             /\ t # {} => /\ Member(t) \in t
                          /\ SumOver(h, t) = h[Member(t)] + SumOver(h, t \ {Member(t)})
<1>0. ASSUME NEW t \in SUBSET S PROVE Opens(f, t) /\ Opens(g, t)
  <2>1. IsFiniteSet(t) /\ IntOn(f, t) /\ IntOn(g, t)
    BY FS_Subset DEF IntOn
  <2>2. Opens(f, t)
    BY <2>1, SumUnfold
  <2>3. Opens(g, t)
    BY <2>1, SumUnfold
  <2> QED
    BY <2>2, <2>3
<1> DEFINE bad == {T \in SUBSET S : SumOver(g, T) # SumOver(f, T)}
<1> SUFFICES ASSUME bad # {} PROVE FALSE
  OBVIOUS
<1>1. PICK T \in bad : \A t \in bad : t \subseteq T => t = T
  <2>1. bad \in SUBSET SUBSET S
    OBVIOUS
  <2> HIDE DEF bad
  <2> QED
    BY <2>1, SmallestSubset
<1>2. T \in SUBSET S /\ SumOver(g, T) # SumOver(f, T)
  BY <1>1
<1>3. Opens(f, T) /\ Opens(g, T)
  BY <1>0, <1>2
<1>4. T # {} /\ Member(T) \in T
  BY <1>2, <1>3
<1>5. T \ {Member(T)} \notin bad
  BY <1>1, <1>4
<1>6. SumOver(g, T \ {Member(T)}) = SumOver(f, T \ {Member(T)})
  BY <1>2, <1>5
<1> QED
  BY <1>2, <1>3, <1>4, <1>6

\* What a sum gains when one of its terms changes.
LEMMA SumChange ==
  ASSUME NEW S, IsFiniteSet(S), NEW f, IntOn(f, S), NEW g, IntOn(g, S), NEW x \in S,
         \A y \in S : y # x => g[y] = f[y]
  PROVE  SumOver(g, S) = SumOver(f, S) + (g[x] - f[x])
<1> DEFINE r == S \ {x}
<1>1. IsFiniteSet(r) /\ IntOn(f, r) /\ \A y \in r : g[y] = f[y]
  BY FS_Subset DEF IntOn
<1>2. f[x] \in Int /\ g[x] \in Int
  BY DEF IntOn
<1>3. SumOver(f, S) = f[x] + SumOver(f, r)
  BY SumRemove
<1>4. SumOver(g, S) = g[x] + SumOver(g, r)
  BY SumRemove
<1> HIDE DEF r
<1>5. SumOver(g, r) = SumOver(f, r) /\ SumOver(f, r) \in Int
  BY <1>1, SumSame, SumUnfold
<1> QED
  BY <1>2, <1>3, <1>4, <1>5

\* A nonempty set of numbers has a smallest one.
LEMMA SmallestNumber ==
  ASSUME NEW N \in SUBSET Nat, N # {}
  PROVE  \E n \in N : \A m \in N : n <= m
<1>1. PICK k \in N : TRUE
  OBVIOUS
<1> DEFINE U == 0 .. k
           M == {m \in N : m <= k}
           T == {0 .. m : m \in M}
<1>2. IsFiniteSet(U) /\ T \in SUBSET SUBSET U /\ T # {}
  <2>1. k \in Nat /\ k \in M
    BY <1>1
  <2>2. IsFiniteSet(U)
    BY <2>1, FS_Interval
  <2>3. 0 .. k \in T
    BY <2>1
  <2>4. \A m \in M : 0 .. m \subseteq U
    BY <2>1
  <2> QED
    BY <2>2, <2>3, <2>4
<1>3. PICK s \in T : \A t \in T : t \subseteq s => t = s
  <2> HIDE DEF U, T
  <2> QED
    BY <1>2, SmallestSubset
<1>4. PICK n \in M : s = 0 .. n
  BY <1>3
<1>5. ASSUME NEW m \in N, m < n PROVE FALSE
  <2>1. m \in M /\ 0 .. m \in T /\ 0 .. m \subseteq s
    BY <1>4, <1>5
  <2>2. 0 .. m = 0 .. n
    BY <1>3, <1>4, <2>1
  <2>3. n \in 0 .. n /\ n \notin 0 .. m
    BY <1>4, <1>5
  <2> QED
    BY <2>2, <2>3
<1> QED
  BY <1>4, <1>5

\* The first k terms of a sequence of numbers, the first at 0.
FirstSum(f, k) == SumOver(f, 0 .. k - 1)

\* A sum of one term more.
LEMMA FirstSumGrows ==
  ASSUME NEW k \in Nat, NEW f, IntOn(f, 0 .. k)
  PROVE  /\ FirstSum(f, 0) = 0 /\ FirstSum(f, k) \in Int
         /\ FirstSum(f, k + 1) = FirstSum(f, k) + f[k]
<1>1. /\ 0 .. k = (0 .. k - 1) \cup {k} /\ k \notin 0 .. k - 1
      /\ IntOn(f, 0 .. k - 1)
      /\ 0 .. (0 - 1) = {} /\ 0 .. (k + 1 - 1) = 0 .. k
  BY DEF IntOn
<1>2. IsFiniteSet(0 .. k - 1)
  BY FS_Interval
<1> DEFINE S == 0 .. k - 1
<1>3. SumOver(f, S) \in Int
  <2> HIDE DEF S
  <2>1. IsFiniteSet(S) /\ IntOn(f, S)
    BY <1>1, <1>2 DEF S
  <2> QED
    BY <2>1, SumUnfold
<1>4. SumOver(f, S \cup {k}) = SumOver(f, S) + f[k]
  <2>1. IsFiniteSet(S) /\ k \notin S /\ IntOn(f, S \cup {k})
    BY <1>1, <1>2
  <2> HIDE DEF S
  <2> QED
    BY <2>1, SumAdd
<1>5. SumOver(f, 0 .. (0 - 1)) = 0
  BY <1>1, SumEmpty
<1>6. FirstSum(f, k + 1) = SumOver(f, 0 .. k)
  BY <1>1 DEF FirstSum
<1> QED
  BY <1>1, <1>3, <1>4, <1>5, <1>6 DEF FirstSum

\* A sequence moved on by one place, with a 0 in front, has the same sums.
LEMMA SumShift ==
  ASSUME NEW n \in Nat, NEW f, IntOn(f, 0 .. n), NEW g, g[0] = 0,
         \A a \in 1 .. n : g[a] = f[a - 1]
  PROVE  FirstSum(g, n + 1) = FirstSum(f, n)
<1>0. ASSUME NEW k \in 0 .. n
      PROVE  /\ FirstSum(f, 0) = 0 /\ FirstSum(g, 0) = 0
             /\ FirstSum(f, k) \in Int /\ FirstSum(g, k) \in Int
             /\ FirstSum(f, k + 1) = FirstSum(f, k) + f[k]
             /\ FirstSum(g, k + 1) = FirstSum(g, k) + g[k]
             /\ f[k] \in Int /\ g[k] \in Int
  <2>1. ASSUME NEW a \in 0 .. n PROVE g[a] \in Int
    <3>1. CASE a = 0
      BY <3>1
    <3>2. CASE a # 0
      <4>1. a \in 1 .. n /\ a - 1 \in 0 .. n
        BY <3>2
      <4> QED
        BY <4>1 DEF IntOn
    <3> QED
      BY <3>1, <3>2
  <2>2. k \in Nat /\ IntOn(f, 0 .. k) /\ IntOn(g, 0 .. k)
    BY <2>1 DEF IntOn
  <2> QED
    BY <2>1, <2>2, FirstSumGrows DEF IntOn
<1> DEFINE bad == {k \in 0 .. n : FirstSum(g, k + 1) # FirstSum(f, k)}
<1> SUFFICES ASSUME bad # {} PROVE FALSE
  OBVIOUS
<1>1. PICK k \in bad : \A m \in bad : k <= m
  <2>1. bad \in SUBSET Nat
    OBVIOUS
  <2> HIDE DEF bad
  <2> QED
    BY <2>1, SmallestNumber
<1>2. k \in 0 .. n /\ FirstSum(g, k + 1) # FirstSum(f, k)
  BY <1>1
<1>3. CASE k = 0
  BY <1>0, <1>2, <1>3
<1>4. CASE k # 0
  <2>1. k - 1 \in 0 .. n /\ k \in 1 .. n /\ k - 1 \notin bad
    BY <1>1, <1>2, <1>4
  <2>2. FirstSum(g, k - 1 + 1) = FirstSum(f, k - 1)
    BY <2>1
  <2>3. /\ k - 1 + 1 = k /\ g[k] = f[k - 1]
        /\ FirstSum(f, k - 1 + 1) = FirstSum(f, k - 1) + f[k - 1]
        /\ FirstSum(g, k + 1) = FirstSum(g, k) + g[k]
    <3>1. g[k] = f[k - 1] /\ k - 1 + 1 = k
      BY <2>1
    <3>2. FirstSum(f, k - 1 + 1) = FirstSum(f, k - 1) + f[k - 1]
      BY <1>0, <2>1
    <3>3. FirstSum(g, k + 1) = FirstSum(g, k) + g[k]
      BY <1>0, <1>2
    <3> QED
      BY <3>1, <3>2, <3>3
  <2> QED
    BY <1>2, <2>2, <2>3
<1> QED
  BY <1>2, <1>3, <1>4

----------------------------------------------------------------------------
(* Folds from the left. *)

\* FoldLeft takes out the last index first.
Latest(n) == [s \in SUBSET (1 .. n) |-> Max(s)]

\* A nonempty set of numbers up to n has a largest one, and of 1 .. k it is k.
LEMMA LatestPicks ==
  ASSUME NEW n \in Nat
  PROVE  /\ Picks(Latest(n), 1 .. n)
         /\ \A k \in 1 .. n : Latest(n)[1 .. k] = k
<1>1. ASSUME NEW s \in SUBSET (1 .. n), NEW m \in s, \A x \in s : m >= x PROVE Max(s) = m
  <2>1. \A x \in s : x \in Int
    OBVIOUS
  <2>2. \A y \in s : (\A x \in s : y >= x) => y = m
    BY <1>1, <2>1
  <2> QED
    BY <1>1, <2>2 DEF Max
<1>2. ASSUME NEW s \in SUBSET (1 .. n), s # {} PROVE Latest(n)[s] \in s
  <2> DEFINE N == {n - x : x \in s}
  <2>1. N \in SUBSET Nat /\ N # {}
    <3>1. PICK x \in s : TRUE
      BY <1>2
    <3>2. n - x \in N
      OBVIOUS
    <3>3. \A y \in s : n - y \in Nat
      OBVIOUS
    <3> QED
      BY <3>2, <3>3
  <2>2. PICK d \in N : \A c \in N : d <= c
    <3> HIDE DEF N
    <3> QED
      BY <2>1, SmallestNumber
  <2>3. PICK m \in s : d = n - m
    BY <2>2
  <2>4. ASSUME NEW x \in s PROVE m >= x
    <3>1. n - x \in N /\ n - m <= n - x
      BY <2>2, <2>3
    <3> QED
      BY <2>3, <3>1
  <2>5. Max(s) = m
    BY <1>1, <2>4
  <2> QED
    BY <2>5 DEF Latest
<1>3. ASSUME NEW k \in 1 .. n PROVE Latest(n)[1 .. k] = k
  <2>1. 1 .. k \in SUBSET (1 .. n) /\ k \in 1 .. k /\ \A x \in 1 .. k : k >= x
    BY <1>3
  <2> QED
    BY <1>1, <2>1 DEF Latest
<1> QED
  BY <1>2, <1>3 DEF Picks

\* The values of g are in V; g takes a step of H wherever the value before is in V.
Values(g, n, V) == \A s \in SUBSET (1 .. n) : g[s] \in V

TakesSteps(g, n, H, V) ==
  /\ g = [s \in SUBSET (1 .. n) |-> g[s]]
  /\ \A s \in SUBSET (1 .. n) : s # {} /\ g[s \ {Max(s)}] \in V =>
       g[s] = H[<<Max(s), g[s \ {Max(s)}]>>]

\* Two steps do the same up to k.
SameSteps(G, H, k, V) == \A i \in 1 .. k, v \in V : G[<<i, v>>] = H[<<i, v>>]

\* There is a fold from the left.
LEMMA LeftFoldExists ==
  ASSUME NEW n \in Nat, NEW V, NEW base \in V, NEW H, Keeps(H, 1 .. n, V)
  PROVE  \E g : IsFold(g, 1 .. n, base, H, Latest(n)) /\ Values(g, n, V)
<1> DEFINE S == 1 .. n
           pick == Latest(n)
<1>1. IsFiniteSet(S) /\ Picks(pick, S)
  BY FS_Interval, LatestPicks
<1> HIDE DEF S, pick
<1>2. PICK g : IsFold(g, S, base, H, pick)
  BY <1>1, FoldExists
<1>3. Keeps(H, S, V)
  BY DEF S
<1>4. \A s \in SUBSET S : g[s] \in V
  BY <1>1, <1>2, <1>3, FoldType
<1> QED
  BY <1>2, <1>4 DEF S, pick, Values

\* Whatever satisfies its equation, on values of the type, is the fold.
LEMMA LeftFoldOnly ==
  ASSUME NEW n \in Nat, NEW V, NEW base \in V, NEW H, Keeps(H, 1 .. n, V),
         NEW g, g[{}] = base, TakesSteps(g, n, H, V)
  PROVE  IsFold(g, 1 .. n, base, H, Latest(n)) /\ Values(g, n, V)
<1> USE DEF Values, TakesSteps
<1> DEFINE S == 1 .. n
           bad == {s \in SUBSET S : g[s] \notin V}
<1>1. \A s \in SUBSET S : s # {} => Max(s) \in s
  BY LatestPicks DEF Picks, Latest
<1>2. \A s \in SUBSET S : g[s] \in V
  <2> SUFFICES ASSUME bad # {} PROVE FALSE
    OBVIOUS
  <2>1. PICK s \in bad : \A t \in bad : t \subseteq s => t = s
    <3>1. bad \in SUBSET SUBSET S /\ IsFiniteSet(S)
      BY FS_Interval
    <3> HIDE DEF bad, S
    <3> QED
      BY <3>1, SmallestSubset
  <2>2. s \in SUBSET S /\ g[s] \notin V /\ s # {}
    BY <2>1
  <2>3. s \ {Max(s)} \notin bad /\ s \ {Max(s)} \in SUBSET S /\ Max(s) \in S
    BY <1>1, <2>1, <2>2
  <2>4. g[s] = H[<<Max(s), g[s \ {Max(s)}]>>] /\ g[s \ {Max(s)}] \in V
    BY <2>2, <2>3
  <2> QED
    BY <2>2, <2>3, <2>4 DEF Keeps
<1>3. \A s \in SUBSET S : s # {} => s \ {Max(s)} \in SUBSET S
  OBVIOUS
<1>4. \A s \in SUBSET S :
        g[s] = IF s = {} THEN base ELSE H[<<Latest(n)[s], g[s \ {Latest(n)[s]}]>>]
  BY <1>2, <1>3 DEF Latest
<1> QED
  BY <1>2, <1>4 DEF IsFold

\* The fold of the first k is one step from that of the first k - 1.
LEMMA LeftFoldStep ==
  ASSUME NEW n \in Nat, NEW base, NEW H, NEW g, IsFold(g, 1 .. n, base, H, Latest(n))
  PROVE  /\ g[1 .. 0] = base
         /\ \A k \in 1 .. n : g[1 .. k] = H[<<k, g[1 .. k - 1]>>]
<1> DEFINE pick == Latest(n)
           S == 1 .. n
<1>1. \A k \in S : pick[1 .. k] = k
  BY LatestPicks
<1>2. \A k \in S : 1 .. k \in SUBSET S /\ 1 .. k # {} /\ (1 .. k) \ {k} = 1 .. k - 1
  OBVIOUS
<1>3. 1 .. 0 = {} /\ {} \in SUBSET S
  OBVIOUS
<1> HIDE DEF pick, S
<1>4. ASSUME NEW s \in SUBSET S
      PROVE  g[s] = IF s = {} THEN base ELSE H[<<pick[s], g[s \ {pick[s]}]>>]
  <2>1. IsFold(g, S, base, H, pick)
    BY DEF S, pick
  <2> QED
    BY <2>1 DEF IsFold
<1>5. ASSUME NEW k \in S PROVE g[1 .. k] = H[<<k, g[1 .. k - 1]>>]
  BY <1>1, <1>2, <1>4
<1> QED
  BY <1>3, <1>4, <1>5 DEF S

\* Two folds whose steps agree up to k agree on the first k.
LEMMA LeftFoldsAgree ==
  ASSUME NEW n \in Nat, NEW m \in Nat, NEW k \in Nat, k <= n, k <= m,
         NEW V, NEW base, NEW G, NEW H, NEW g, NEW h,
         IsFold(g, 1 .. n, base, G, Latest(n)), Values(g, n, V),
         IsFold(h, 1 .. m, base, H, Latest(m)), SameSteps(G, H, k, V)
  PROVE  g[1 .. k] = h[1 .. k]
<1> USE DEF Values, SameSteps
<1> DEFINE bad == {j \in 0 .. k : g[1 .. j] # h[1 .. j]}
<1> SUFFICES ASSUME bad # {} PROVE FALSE
  OBVIOUS
<1>1. PICK j \in bad : \A i \in bad : j <= i
  <2>1. bad \in SUBSET Nat
    OBVIOUS
  <2> HIDE DEF bad
  <2> QED
    BY <2>1, SmallestNumber
<1>2. j \in 0 .. k /\ g[1 .. j] # h[1 .. j]
  BY <1>1
<1>3. /\ g[1 .. 0] = h[1 .. 0]
      /\ \A i \in 1 .. n : g[1 .. i] = G[<<i, g[1 .. i - 1]>>]
      /\ \A i \in 1 .. m : h[1 .. i] = H[<<i, h[1 .. i - 1]>>]
  BY LeftFoldStep
<1>4. j \in 1 .. k /\ j \in 1 .. n /\ j \in 1 .. m
  BY <1>2, <1>3
<1>5. g[1 .. j - 1] = h[1 .. j - 1]
  BY <1>1, <1>4
<1>6. g[1 .. j - 1] \in V
  <2>1. 1 .. j - 1 \in SUBSET (1 .. n)
    BY <1>4
  <2> QED
    BY <2>1
<1>7. G[<<j, g[1 .. j - 1]>>] = H[<<j, g[1 .. j - 1]>>]
  BY <1>4, <1>6
<1> QED
  BY <1>2, <1>3, <1>4, <1>5, <1>7

\* Functions of which one negates the other have opposite sums.
LEMMA SumNegated ==
  ASSUME NEW S, IsFiniteSet(S), NEW f, IntOn(f, S), NEW g, \A x \in S : g[x] = -f[x]
  PROVE  SumOver(g, S) = -SumOver(f, S)
<1> DEFINE Opens(h, t) ==
             /\ SumOver(h, t) \in Int
             /\ t = {} => SumOver(h, t) = 0
             /\ t # {} => /\ Member(t) \in t
                          /\ SumOver(h, t) = h[Member(t)] + SumOver(h, t \ {Member(t)})
<1>0. ASSUME NEW t \in SUBSET S PROVE Opens(f, t) /\ Opens(g, t)
  <2>1. IsFiniteSet(t) /\ IntOn(f, t) /\ IntOn(g, t)
    BY FS_Subset DEF IntOn
  <2>2. Opens(f, t)
    BY <2>1, SumUnfold
  <2>3. Opens(g, t)
    BY <2>1, SumUnfold
  <2> QED
    BY <2>2, <2>3
<1> DEFINE bad == {T \in SUBSET S : SumOver(g, T) # -SumOver(f, T)}
<1> SUFFICES ASSUME bad # {} PROVE FALSE
  OBVIOUS
<1>1. PICK T \in bad : \A t \in bad : t \subseteq T => t = T
  <2>1. bad \in SUBSET SUBSET S
    OBVIOUS
  <2> HIDE DEF bad
  <2> QED
    BY <2>1, SmallestSubset
<1>2. T \in SUBSET S /\ SumOver(g, T) # -SumOver(f, T)
  BY <1>1
<1>3. Opens(f, T) /\ Opens(g, T)
  BY <1>0, <1>2
<1>4. T # {} /\ Member(T) \in T
  BY <1>2, <1>3
<1> DEFINE r == T \ {Member(T)}
<1>5. r \notin bad /\ r \in SUBSET S
  BY <1>1, <1>4
<1>6. SumOver(g, r) = -SumOver(f, r) /\ SumOver(f, r) \in Int
  BY <1>0, <1>5
<1>7. f[Member(T)] \in Int /\ g[Member(T)] = -f[Member(T)]
  BY <1>2, <1>4 DEF IntOn
<1> QED
  BY <1>2, <1>3, <1>4, <1>6, <1>7

----------------------------------------------------------------------------
(* Numbers. *)

\* A nonempty finite set of numbers has a largest one.
LEMMA LargestNumber ==
  ASSUME NEW S, IsFiniteSet(S), NEW N, N \in SUBSET S, N # {}, \A x \in S : x \in Int
  PROVE  \E b \in N : \A x \in N : b >= x
<1> DEFINE bad == {T \in SUBSET S : T # {} /\ ~ \E b \in T : \A x \in T : b >= x}
<1> SUFFICES ASSUME bad # {} PROVE FALSE
  OBVIOUS
<1>1. PICK T \in bad : \A t \in bad : t \subseteq T => t = T
  <2>1. bad \in SUBSET SUBSET S
    OBVIOUS
  <2> HIDE DEF bad
  <2> QED
    BY <2>1, SmallestSubset
<1>2. PICK y \in T : TRUE
  BY <1>1
<1> DEFINE r == T \ {y}
<1>3. r \notin bad /\ r \in SUBSET S
  BY <1>1, <1>2
<1>4. r = {} => y \in T /\ \A x \in T : y >= x
  BY <1>1, <1>2
<1>5. r # {} => \E b \in r : \A x \in r : b >= x
  BY <1>3
<1>6. r # {} => \E b \in T : \A x \in T : b >= x
  <2>1. SUFFICES ASSUME NEW b \in r, \A x \in r : b >= x
                 PROVE  \E z \in T : \A x \in T : z >= x
    BY <1>5
  <2>2. \A x \in T : x = y \/ x \in r
    OBVIOUS
  <2>3. b \in T /\ b \in Int /\ y \in Int
    BY <1>1, <1>2
  <2>4. CASE b >= y
    BY <2>1, <2>2, <2>3, <2>4
  <2>5. CASE ~ (b >= y)
    <3>1. \A x \in T : y >= x
      BY <1>1, <2>1, <2>2, <2>3, <2>5
    <3>. QED BY <1>2, <3>1
  <2>. QED BY <2>4, <2>5
<1>. QED BY <1>1, <1>4, <1>6

\* A greatest element is what Max chooses.
LEMMA MaxIs ==
  ASSUME NEW S, S \in SUBSET Int, NEW b \in S, \A x \in S : b >= x
  PROVE  Max(S) = b
<1>1. \A y \in S : (\A x \in S : y >= x) => y = b
  OBVIOUS
<1>. QED BY <1>1 DEF Max

\* A least element is what Min chooses.
LEMMA MinIs ==
  ASSUME NEW S, S \in SUBSET Int, NEW b \in S, \A x \in S : b <= x
  PROVE  Min(S) = b
<1>1. \A y \in S : (\A x \in S : y =< x) => y = b
  OBVIOUS
<1>2. \A x \in S : b =< x
  OBVIOUS
<1>. QED BY <1>1, <1>2 DEF Min

\* A finite set of numbers has its largest member in it.
LEMMA MaxIn ==
  ASSUME NEW S, IsFiniteSet(S), S \in SUBSET Int, S # {}
  PROVE  Max(S) \in S /\ \A x \in S : Max(S) >= x
<1>1. PICK b \in S : \A x \in S : b >= x
  <2>1. S \in SUBSET S /\ \A x \in S : x \in Int
    OBVIOUS
  <2>. QED BY <2>1, LargestNumber
<1>2. Max(S) = b
  BY <1>1, MaxIs
<1>. QED BY <1>1, <1>2

\* The values of a function on a finite set are finitely many.
LEMMA ImageFinite ==
  ASSUME NEW D, IsFiniteSet(D), NEW f
  PROVE  IsFiniteSet({f[i] : i \in D})
<1> DEFINE F == {f[i] : i \in D}
           h == [i \in D |-> f[i]]
<1>1. h \in Surjection(D, F)
  BY DEF Surjection
<1> HIDE DEF F, h
<1>2. IsFiniteSet(F)
  BY <1>1, FS_Surjection
<1>. QED BY <1>2 DEF F

\* A quotient is no larger than what is divided.
LEMMA QuotientBound ==
  ASSUME NEW n \in Nat, NEW d \in Nat \ {0}
  PROVE  n \div d \in 0 .. n
OBVIOUS

\* A number of whole days lies in what is divided into days, and is that number of days.
LEMMA MultipleIn ==
  ASSUME NEW n \in Nat, NEW d \in Nat \ {0}, NEW k \in Nat, k <= n \div d
  PROVE  k * d \in 0 .. n /\ (k * d) \div d = k
<1> DEFINE q == n \div d
<1>1. q \in Nat /\ q * d <= n
  OBVIOUS
<1>2. k * d \in Nat /\ k * d <= q * d
  <2> HIDE DEF q
  <2>1. q \in Nat /\ k <= q
    BY <1>1 DEF q
  <2>2. PICK j \in Nat : q = k + j
    <3>1. q - k \in Nat /\ q = k + (q - k)
      BY <2>1
    <3>. QED BY <3>1
  <2>3. q * d = k * d + j * d /\ k * d \in Nat /\ j * d \in Nat
    BY <2>2
  <2>. QED BY <2>3
<1>3. (k * d) \div d = k
  OBVIOUS
<1>4. q * d \in Nat
  BY <1>1
<1> HIDE DEF q
<1>. QED BY <1>1, <1>2, <1>3, <1>4
=============================================================================
