---------------------------- MODULE RoutingProofs ----------------------------
(***************************************************************************)
(* What an agent's policy, its choice of a route, the reading of paths and *)
(* the offers of the route planner promise, for every market, portfolio    *)
(* and set of paths.                                                       *)
(***************************************************************************)
EXTENDS Routing, Foundations, SequenceTheorems

\* A sensitivity only widens the tolerance, never turns it round.
LEMMA MultiplierAboveOne ==
    ASSUME NEW sensitivity \in Sensitivities
    PROVE  /\ ComplaintMultiplier[sensitivity] \in Nat
           /\ ComplaintMultiplier[sensitivity] > 100
  BY DEF Sensitivities, ComplaintMultiplier

LEMMA Monotone == \A x, m, n \in Nat : m <= n => x * m <= x * n
<1>. SUFFICES ASSUME NEW x \in Nat, NEW m \in Nat, NEW n \in Nat, m <= n PROVE x * m <= x * n
  OBVIOUS
<1>1. x * n = x * m + x * (n - m) /\ x * (n - m) >= 0
  OBVIOUS
<1>. QED
  BY <1>1

\* Whatever an agent complains of violates the bound: it passes the test of a
\* sample (sample_violates), which is the scorer's (_is_violation) as well.
THEOREM ComplaintsAreViolations ==
    \A sensitivity \in Sensitivities, m \in Metrics, bound, measured \in Nat :
        ShouldFileComplaint(sensitivity, m, bound, measured) => SampleViolates(m, bound, measured)
<1>. SUFFICES ASSUME NEW sensitivity \in Sensitivities, NEW m \in Metrics,
                     NEW bound \in Nat, NEW measured \in Nat,
                     ShouldFileComplaint(sensitivity, m, bound, measured)
              PROVE  SampleViolates(m, bound, measured)
  OBVIOUS
<1>. DEFINE k == ComplaintMultiplier[sensitivity]
<1>1. k \in Nat /\ k >= 100
  BY MultiplierAboveOne
<1>. HIDE DEF k
<1>2. CASE m = Bandwidth
  <2>1. measured * k < 100 * bound
    BY <1>2 DEF ShouldFileComplaint, k
  <2>2. 100 * measured <= measured * k
    BY <1>1, Monotone
  <2>. QED
    BY <1>1, <1>2, <2>1, <2>2 DEF SampleViolates, Within
<1>3. CASE m # Bandwidth
  <2>1. 100 * measured > bound * k
    BY <1>3 DEF ShouldFileComplaint, k
  <2>2. 100 * bound <= bound * k
    BY <1>1, Monotone
  <2>. QED
    BY <1>1, <1>3, <2>1, <2>2 DEF SampleViolates, Within
<1>. QED
  BY <1>2, <1>3

\* A more tolerant agent complains of nothing that a stricter one accepts.
THEOREM StricterComplainsMore ==
    \A s, t \in Sensitivities, m \in Metrics, bound, measured \in Nat :
        /\ ComplaintMultiplier[s] <= ComplaintMultiplier[t]
        /\ ShouldFileComplaint(t, m, bound, measured)
        => ShouldFileComplaint(s, m, bound, measured)
<1>. SUFFICES ASSUME NEW s \in Sensitivities, NEW t \in Sensitivities, NEW m \in Metrics,
                     NEW bound \in Nat, NEW measured \in Nat,
                     ComplaintMultiplier[s] <= ComplaintMultiplier[t],
                     ShouldFileComplaint(t, m, bound, measured)
              PROVE  ShouldFileComplaint(s, m, bound, measured)
  OBVIOUS
<1>. DEFINE j == ComplaintMultiplier[s]  k == ComplaintMultiplier[t]
<1>1. j \in Nat /\ k \in Nat /\ j <= k
  BY MultiplierAboveOne
<1>2. m = Bandwidth => measured * k < 100 * bound
  BY DEF ShouldFileComplaint
<1>3. m # Bandwidth => 100 * measured > bound * k
  BY DEF ShouldFileComplaint
<1>. HIDE DEF j, k
<1>4. measured * j <= measured * k /\ bound * j <= bound * k
  BY <1>1, Monotone
<1>5. /\ m = Bandwidth => measured * j < 100 * bound
      /\ m # Bandwidth => 100 * measured > bound * j
  BY <1>1, <1>2, <1>3, <1>4
<1>. QED
  BY <1>5 DEF ShouldFileComplaint, j

-----------------------------------------------------------------------------
(* Sorted sequences, and what is folded over them.                         *)

\* A set of numbers, sorted.
LEMMA SortedNumbers ==
    ASSUME NEW S, S \subseteq Int, IsFiniteSet(S)
    PROVE  /\ Cardinality(S) \in Nat
           /\ SortedBy(S, <) \in [1..Cardinality(S) -> S]
           /\ \A m, n \in 1..Cardinality(S) : m < n => SortedBy(S, <)[m] < SortedBy(S, <)[n]
           /\ \A x \in S : \E n \in 1..Cardinality(S) : SortedBy(S, <)[n] = x
<1>. DEFINE R == {p \in S \X S : p[1] < p[2]}
            place(x) == Cardinality({y \in S : y = x \/ y < x})
<1>1. \A x, y \in S : <<x, y>> \in R <=> x < y
  BY Zenon
<1>. HIDE DEF R
<1>2. Orders(R, S)
  BY <1>1 DEF Orders
<1>3. \A x \in S : PlaceOf(R, S, x) = place(x)
  <2>1. \A x \in S : {y \in S : y = x \/ <<y, x>> \in R} = {y \in S : y = x \/ y < x}
    BY <1>1
  <2>. QED
    BY <2>1 DEF PlaceOf
<1>4. SortedBy(S, <) = InOrder(R, S)
  <2>1. ASSUME NEW n \in 1..Cardinality(S)
        PROVE  (CHOOSE x \in S : PlaceOf(R, S, x) = n) = (CHOOSE x \in S : place(x) = n)
    <3>1. \A x : (x \in S /\ PlaceOf(R, S, x) = n) <=> (x \in S /\ place(x) = n)
      BY <1>3
    <3>. HIDE DEF place
    <3>. QED
      BY <3>1
  <2>. QED
    BY <2>1 DEF SortedBy, InOrder
<1>5. Lists(InOrder(R, S), R, S)
  BY <1>2, InOrderLists, Zenon
<1>6. Cardinality(S) \in Nat
  BY FS_CardinalityType
<1>. DEFINE at == SortedBy(S, <)
<1>7. Lists(at, R, S)
  BY <1>4, <1>5
<1>. HIDE DEF at
<1>8. \A m, n \in 1..Cardinality(S) : m < n => at[m] < at[n]
  BY <1>1, <1>7 DEF Lists
<1>. QED
  BY <1>6, <1>7, <1>8 DEF Lists, at

LEMMA LesserOf ==
    ASSUME NEW a \in Int, NEW b \in Int
    PROVE  Min({a, b}) = IF a <= b THEN a ELSE b
<1>. DEFINE T == {a, b}
            least == IF a <= b THEN a ELSE b
<1>1. least \in T /\ \A y \in T : least <= y
  OBVIOUS
<1>2. \A x \in T : (\A y \in T : x <= y) => x = least
  OBVIOUS
<1>3. Min(T) = CHOOSE x \in T : \A y \in T : x <= y
  BY DEF Min
<1>4. Min(T) \in T /\ \A y \in T : Min(T) <= y
  <2>. HIDE DEF T, least
  <2>. QED
    BY <1>1, <1>3
<1>. QED
  BY <1>2, <1>4

LEMMA MaxOf ==
    ASSUME NEW n \in Nat, NEW S \in SUBSET (1..n), S # {}
    PROVE  Max(S) \in S /\ \A x \in S : Max(S) >= x
<1>. DEFINE T == {k \in Nat : n - k \in S}
<1>1. T \subseteq Nat /\ T # {}
  <2>1. PICK x \in S : TRUE
    OBVIOUS
  <2>2. x \in Int /\ n - x \in Nat /\ n - (n - x) = x
    OBVIOUS
  <2>3. n - x \in T
    BY <2>2
  <2>. QED
    BY <2>3
<1>2. PICK k \in T : \A j \in T : k <= j
  BY <1>1, LeastOf
<1>3. n - k \in S /\ \A x \in S : n - k >= x
  <2>1. \A x \in S : n - x \in T
    <3>1. \A x \in S : x \in Int /\ n - x \in Nat /\ n - (n - x) = x
      OBVIOUS
    <3>. QED
      BY <3>1
  <2>2. ASSUME NEW x \in S PROVE x \in Int /\ k <= n - x
    <3>1. n - x \in T
      BY <2>1
    <3>. QED
      BY <1>2, <3>1
  <2>3. k \in Nat /\ n - k \in S
    BY <1>2
  <2>4. \A x \in S : n - k >= x
    BY <2>2, <2>3
  <2>. QED
    BY <2>3, <2>4
<1>4. \E m \in S : \A x \in S : m >= x
  BY <1>3
<1>. QED
  BY <1>4, Zenon DEF Max

\* The values of a fold over a sequence, from the left: one for each set of
\* positions.  f[<<v, n>>] is what the fold makes of v at position n.
Folding(g, base, f, L) ==
    g = [s \in SUBSET (1..L) |->
            IF s = {} THEN base ELSE f[<<g[s \ {Max(s)}], Max(s)>>]]

LEMMA FoldingExists ==
    ASSUME NEW L \in Nat, NEW V, NEW base \in V, NEW f,
           \A n \in 1..L, v \in V : f[<<v, n>>] \in V
    PROVE  \E g \in [SUBSET (1..L) -> V] : Folding(g, base, f, L)
<1>. DEFINE U == 1..L
            pick == [s \in SUBSET U |-> Max(s)]
            step == [p \in U \X V |-> f[<<p[2], p[1]>>]]
<1>1. \A s \in SUBSET U : s # {} => pick[s] \in s
  BY MaxOf
<1>2. \A x \in U, v \in V : step[<<x, v>>] = f[<<v, x>>]
  OBVIOUS
<1>3. IsFiniteSet(U)
  BY FS_Interval
<1>4. \A s \in SUBSET U : pick[s] = Max(s)
  OBVIOUS
<1>. HIDE DEF step, pick
<1>5. PICK g \in [SUBSET U -> V] : Folds(g, base, step, pick, U)
  <2>1. \A x \in U, v \in V : step[<<x, v>>] \in V
    BY <1>2
  <2>. HIDE DEF U
  <2>. QED
    BY <1>1, <1>3, <2>1, FoldsExist, Zenon
<1>6. ASSUME NEW s \in SUBSET U
      PROVE  g[s] = IF s = {} THEN base ELSE f[<<g[s \ {Max(s)}], Max(s)>>]
  <2>1. CASE s = {}
    BY <1>5, <2>1 DEF Folds
  <2>2. CASE s # {}
    <3>1. Max(s) \in U /\ g[s \ {Max(s)}] \in V
      BY <1>1, <1>4, <2>2
    <3>2. g[s] = step[<<Max(s), g[s \ {Max(s)}]>>]
      BY <1>4, <1>5, <2>2 DEF Folds
    <3>. QED
      BY <1>2, <2>2, <3>1, <3>2
  <2>. QED
    BY <2>1, <2>2
<1>7. Folding(g, base, f, L)
  <2>1. g = [s \in SUBSET U |-> g[s]]
    OBVIOUS
  <2>. QED
    BY <1>6, <2>1 DEF Folding
<1>. QED
  BY <1>7

\* The last position of the first n ones.
LEMMA LastOf ==
    ASSUME NEW n \in Nat \ {0}
    PROVE  Max(1..n) = n /\ (1..n) \ {n} = 1..(n - 1)
<1>1. Max(1..n) \in 1..n /\ Max(1..n) >= n
  <2>1. 1..n \in SUBSET (1..n) /\ 1..n # {} /\ n \in 1..n
    OBVIOUS
  <2>. QED
    BY <2>1, MaxOf
<1>. QED
  BY <1>1

-----------------------------------------------------------------------------
(* What an SLA is worth is a number.                                       *)

LEMMA CosignersAre ==
    ASSUME NEW s \in SLAs
    PROVE  /\ Len(PathOf[s]) \in Nat \ {0}
           /\ DOMAIN PathOf[s] = 1..Len(PathOf[s])
           /\ DOMAIN Cosigners[s] = 1..Len(PathOf[s])
           /\ Len(Cosigners[s]) = Len(PathOf[s])
           /\ \A n \in 1..Len(PathOf[s]) : Cosigners[s][n] = PathOf[s][n].isd_as
<1>. DEFINE S == PathHop
            T == {PathOf[s][n].isd_as : n \in DOMAIN PathOf[s]}
<1>1. /\ PathOf[s] \in Seq(S) \ {<<>>}
      /\ Cosigners[s] = [n \in DOMAIN PathOf[s] |-> PathOf[s][n].isd_as]
  BY RoutingAssumption
<1>2. /\ Len(PathOf[s]) \in Nat /\ DOMAIN PathOf[s] = 1..Len(PathOf[s])
      /\ Len(PathOf[s]) # 0
  <2>. HIDE DEF S
  <2>. QED
    BY <1>1
<1>3. Cosigners[s] \in [1..Len(PathOf[s]) -> T]
  BY <1>1, <1>2
<1>4. Len(Cosigners[s]) = Len(PathOf[s])
  <2>. HIDE DEF T
  <2>. QED
    BY <1>2, <1>3, LenProperties
<1>. QED
  BY <1>1, <1>2, <1>4

\* Scores as the aggregator gives them.
AreScores(scores) == \A a \in DOMAIN scores : scores[a] \in Int

LEMMA ScoresType ==
    ASSUME NEW scores, AreScores(scores), NEW s \in SLAs
    PROVE  /\ \A a : ScoreOf(a, scores) \in Int
           /\ CosignerScores(s, scores) \in [1..Len(PathOf[s]) -> Int]
<1>1. \A a : ScoreOf(a, scores) \in Int
  BY DEF AreScores, ScoreOf
<1>. QED
  BY <1>1, CosignersAre DEF CosignerScores

\* The total of the first n values of a sequence.
LEMMA TotalType ==
    ASSUME NEW L \in Nat, NEW seq \in [1..L -> Int]
    PROVE  FoldLeft(+, 0, seq) \in Int
<1>. DEFINE f == [p \in Int \X (1..L) |-> p[1] + seq[p[2]]]
            Eq(g) == g = [s \in SUBSET (1..L) |->
                             IF s = {} THEN 0 ELSE g[s \ {Max(s)}] + seq[Max(s)]]
            h == CHOOSE g : Eq(g)
<1>1. FoldLeft(+, 0, seq) = h[1..L]
  BY DEF FoldLeft, MapThenFoldSet
<1>2. \E g : Eq(g)
  <2>1. \A v \in Int, n \in 1..L : f[<<v, n>>] = v + seq[n]
    OBVIOUS
  <2>. HIDE DEF f
  <2>2. ASSUME NEW n \in 1..L, NEW v \in Int PROVE f[<<v, n>>] \in Int
    <3>1. seq[n] \in Int /\ f[<<v, n>>] = v + seq[n]
      BY <2>1
    <3>. QED
      BY <3>1
  <2>3. PICK g \in [SUBSET (1..L) -> Int] : Folding(g, 0, f, L)
    <3>1. 0 \in Int /\ \A n \in 1..L, v \in Int : f[<<v, n>>] \in Int
      BY <2>2
    <3>. QED
      BY <3>1, FoldingExists, Zenon
  <2>4. ASSUME NEW s \in SUBSET (1..L), s # {}
        PROVE  f[<<g[s \ {Max(s)}], Max(s)>>] = g[s \ {Max(s)}] + seq[Max(s)]
    <3>1. Max(s) \in 1..L
      BY <2>4, MaxOf
    <3>2. g[s \ {Max(s)}] \in Int
      OBVIOUS
    <3>. QED
      BY <2>1, <3>1, <3>2
  <2>5. Eq(g)
    BY <2>3, <2>4 DEF Folding
  <2>. QED
    BY <2>5
<1>3. Eq(h)
  <2>. HIDE DEF Eq
  <2>. QED
    BY <1>2
<1>. HIDE DEF h
<1>. DEFINE S == {n \in Nat : n <= L => h[1..n] \in Int}
<1>4. 0 \in S
  <2>1. 1..0 = {} /\ 1..0 \in SUBSET (1..L)
    OBVIOUS
  <2>2. h[1..0] = 0
    BY <1>3, <2>1
  <2>. QED
    BY <2>2
<1>5. ASSUME NEW n \in Nat, n \in S PROVE n + 1 \in S
  <2>. SUFFICES ASSUME n + 1 <= L PROVE h[1..(n + 1)] \in Int
    OBVIOUS
  <2>1. Max(1..(n + 1)) = n + 1 /\ (1..(n + 1)) \ {n + 1} = 1..n
    <3>1. n + 1 \in Nat \ {0} /\ (n + 1) - 1 = n
      OBVIOUS
    <3>. QED
      BY <3>1, LastOf
  <2>2. 1..(n + 1) \in SUBSET (1..L) /\ n + 1 \in 1..(n + 1) /\ n + 1 \in 1..L
    OBVIOUS
  <2>3. h[1..(n + 1)] = h[1..n] + seq[n + 1]
    BY <1>3, <2>1, <2>2
  <2>. QED
    BY <1>5, <2>2, <2>3
<1>6. L \in S
  <2>. HIDE DEF S
  <2>. QED
    BY <1>4, <1>5, Induction
<1>7. h[1..L] \in Int
  BY <1>6
<1>. QED
  BY <1>1, <1>7, Zenon

LEMMA UtilityType ==
    ASSUME NEW policy \in Policies, NEW scores, AreScores(scores), NEW s \in SLAs
    PROVE  Utility(policy, s, scores) \in Int
<1>. DEFINE total == FoldLeft(+, 0, CosignerScores(s, scores))
<1>1. total \in Int /\ Len(Cosigners[s]) \in Nat \ {0}
  BY ScoresType, TotalType, CosignersAre
<1>2. MeanCosignerScore(s, scores) \in Int
  <2>1. MeanCosignerScore(s, scores) = (12 * total) \div Len(Cosigners[s])
    BY DEF MeanCosignerScore
  <2>. HIDE DEF total
  <2>2. (12 * total) \div Len(Cosigners[s]) \in Int
    BY <1>1
  <2>. QED
    BY <2>1, <2>2
<1>3. policy.alpha \in Int /\ policy.beta \in Int /\ PricePerGB[s] \in Int
  BY PolicyAssumption, RoutingAssumption
<1>4. policy.alpha * MeanCosignerScore(s, scores) \in Int
  BY <1>2, <1>3
<1>5. 12 * policy.beta * PricePerGB[s] \in Int
  BY <1>3
<1>. HIDE DEF MeanCosignerScore
<1>. QED
  BY <1>4, <1>5 DEF Utility

-----------------------------------------------------------------------------
(* choose_best_sla picks the first of the best.                            *)

Acceptable(policy, pool, scores) == {s \in pool : PolicyAccepts(policy, s, scores)}

\* s comes before t in the choice, or is t.
Beats(policy, scores, s, t) ==
    \/ Utility(policy, s, scores) > Utility(policy, t, scores)
    \/ Utility(policy, s, scores) = Utility(policy, t, scores) /\ s <= t

LEMMA ChooseBestIs ==
    ASSUME NEW policy \in Policies, NEW scores, AreScores(scores), NEW pool \in SUBSET SLAs
    PROVE  LET acceptable == Acceptable(policy, pool, scores)
               best == ChooseBest(policy, pool, scores)
           IN  IF acceptable = {} THEN best = NoSLA
               ELSE best \in acceptable /\ \A t \in acceptable : Beats(policy, scores, best, t)
<1>. DEFINE A == Acceptable(policy, pool, scores)
            C == Cardinality(A)
            a == SortedBy(A, <)
            L == C - 1
            t == Tail(a)
            U(s) == Utility(policy, s, scores)
            Better(best, s) == IF U(s) > U(best) THEN s ELSE best
            Eq(g) == g = [s \in SUBSET (DOMAIN t) |->
                             IF s = {} THEN Head(a) ELSE Better(g[s \ {Max(s)}], t[Max(s)])]
            h == CHOOSE g : Eq(g)
<1>1. ChooseBest(policy, pool, scores) =
          IF a = <<>> THEN NoSLA ELSE FoldLeft(Better, Head(a), t)
  BY DEF ChooseBest, Acceptable
<1>2. FoldLeft(Better, Head(a), t) = h[DOMAIN t]
  BY DEF FoldLeft, MapThenFoldSet
<1>3. A \subseteq SLAs /\ A \subseteq Int /\ IsFiniteSet(A)
  <2>1. A \subseteq SLAs
    BY DEF Acceptable
  <2>. HIDE DEF A
  <2>2. SLAs \subseteq Int /\ IsFiniteSet(SLAs)
    BY PolicyAssumption
  <2>3. IsFiniteSet(A)
    BY <2>1, <2>2, FS_Subset
  <2>. QED
    BY <2>1, <2>2, <2>3
<1>4. \A s \in A : U(s) \in Int
  BY <1>3, UtilityType
<1>. HIDE DEF A
<1>5. /\ C \in Nat /\ a \in [1..C -> A]
      /\ \A m, n \in 1..C : m < n => a[m] < a[n]
      /\ \A x \in A : \E n \in 1..C : a[n] = x
  BY <1>3, SortedNumbers
<1>6. A = {} <=> C = 0
  BY <1>3, FS_EmptySet
<1>. HIDE DEF U, C, a
<1>7. a \in Seq(A) /\ Len(a) = C
  BY <1>5, LenProperties
<1>8. ASSUME A = {} PROVE ChooseBest(policy, pool, scores) = NoSLA
  <2>1. a = <<>>
    BY <1>6, <1>7, <1>8
  <2>. QED
    BY <1>1, <2>1
<1>9. ASSUME A # {}
      PROVE  /\ ChooseBest(policy, pool, scores) \in A
             /\ \A s \in A : Beats(policy, scores, ChooseBest(policy, pool, scores), s)
  <2>1. /\ C \in Nat \ {0} /\ a # <<>> /\ Head(a) = a[1] /\ a[1] \in A
        /\ DOMAIN t = 1..L /\ L \in Nat
        /\ \A n \in 1..L : n + 1 \in 1..C /\ t[n] = a[n + 1] /\ t[n] \in A
    BY <1>5, <1>6, <1>7, <1>9
  <2>. DEFINE f == [p \in A \X (1..L) |-> Better(p[1], t[p[2]])]
  <2>2. \A v \in A, n \in 1..L : f[<<v, n>>] = Better(v, t[n])
    OBVIOUS
  <2>. HIDE DEF f, t
  <2>3. ASSUME NEW n \in 1..L, NEW v \in A PROVE f[<<v, n>>] \in A
    BY <2>1, <2>2
  <2>4. PICK g \in [SUBSET (1..L) -> A] : Folding(g, a[1], f, L)
    <3>1. \A n \in 1..L, v \in A : f[<<v, n>>] \in A
      BY <2>3
    <3>. HIDE DEF L
    <3>. QED
      BY <2>1, <3>1, FoldingExists, Zenon
  <2>5. ASSUME NEW s \in SUBSET (1..L), s # {}
        PROVE  f[<<g[s \ {Max(s)}], Max(s)>>] = Better(g[s \ {Max(s)}], t[Max(s)])
    <3>1. Max(s) \in 1..L
      BY <2>1, <2>5, MaxOf
    <3>2. g[s \ {Max(s)}] \in A
      OBVIOUS
    <3>. QED
      BY <2>2, <3>1, <3>2
  <2>6. Eq(g)
    <3>. HIDE DEF Better
    <3>. QED
      BY <2>1, <2>4, <2>5 DEF Folding
  <2>7. Eq(h)
    <3>. HIDE DEF Eq
    <3>. QED
      BY <2>6
  <2>. HIDE DEF h
  <2>14. \A s \in SUBSET (1..L) :
             h[s] = IF s = {} THEN a[1] ELSE Better(h[s \ {Max(s)}], t[Max(s)])
    <3>. HIDE DEF Better
    <3>. QED
      BY <2>1, <2>7
  \* What is best of the first n + 1.
  <2>. DEFINE First(n, j) ==
                 /\ h[1..n] = a[j]
                 /\ \A i \in 1..(n + 1) : U(a[j]) > U(a[i]) \/ (U(a[j]) = U(a[i]) /\ j <= i)
              S == {n \in Nat : n <= L => \E j \in 1..(n + 1) : First(n, j)}
  <2>8. 0 \in S
    <3>1. 1..0 = {} /\ {} \in SUBSET (1..L) /\ 1..(0 + 1) = {1}
      OBVIOUS
    <3>2. h[{}] = a[1]
      BY <2>1, <2>7
    <3>. HIDE DEF h
    <3>3. First(0, 1)
      BY <3>1, <3>2
    <3>. HIDE DEF First
    <3>. QED
      BY <3>1, <3>3
  <2>9. ASSUME NEW n \in Nat, n \in S PROVE n + 1 \in S
    <3>. SUFFICES ASSUME n + 1 <= L PROVE \E j \in 1..((n + 1) + 1) : First(n + 1, j)
      OBVIOUS
    <3>0. n + 1 \in 1..L /\ n + 1 \in Nat \ {0} /\ (n + 1) - 1 = n
      BY <2>1
    <3>1. Max(1..(n + 1)) = n + 1 /\ (1..(n + 1)) \ {n + 1} = 1..n
      BY <3>0, LastOf
    <3>2. 1..(n + 1) \in SUBSET (1..L) /\ 1..(n + 1) # {} /\ n <= L
      <4>1. L \in Nat /\ n + 1 <= L
        BY <2>1
      <4>. HIDE DEF L
      <4>2. 1..(n + 1) \subseteq 1..L /\ n + 1 \in 1..(n + 1) /\ n <= L
        BY <4>1
      <4>. QED
        BY <4>2
    <3>3. h[1..(n + 1)] = Better(h[1..n], a[n + 2])
      <4>1. h[1..(n + 1)] = Better(h[1..n], t[n + 1])
        <5>. HIDE DEF Better
        <5>. QED
          BY <2>14, <3>1, <3>2
      <4>2. t[n + 1] = a[n + 2]
        BY <2>1, <3>0
      <4>. QED
        BY <4>1, <4>2
    <3>4. PICK j \in 1..(n + 1) : First(n, j)
      <4>. HIDE DEF First
      <4>. QED
        BY <2>9, <3>2
    <3>5. \A i \in 1..(n + 2) : a[i] \in A /\ U(a[i]) \in Int
      BY <1>4, <1>5, <2>1, <3>0
    <3>6. n + 2 \in 1..(n + 2) /\ (n + 1) + 1 = n + 2 /\ j \in 1..(n + 2) /\ j < n + 2
      OBVIOUS
    <3>7. ASSUME NEW i \in 1..(n + 2) PROVE i \in 1..(n + 1) \/ i = n + 2
      OBVIOUS
    <3>8. CASE U(a[n + 2]) > U(a[j])
      <4>1. h[1..(n + 1)] = a[n + 2]
        BY <3>3, <3>4, <3>8
      <4>2. ASSUME NEW i \in 1..(n + 2)
            PROVE  U(a[n + 2]) > U(a[i]) \/ (U(a[n + 2]) = U(a[i]) /\ n + 2 <= i)
        <5>1. CASE i = n + 2
          BY <3>5, <5>1
        <5>2. CASE i \in 1..(n + 1)
          <6>1. U(a[j]) >= U(a[i])
            BY <3>4, <3>5, <3>6, <5>2
          <6>. QED
            BY <3>5, <3>6, <3>8, <6>1
        <5>. QED
          BY <3>7, <5>1, <5>2
      <4>3. First(n + 1, n + 2)
        BY <3>6, <4>1, <4>2
      <4>. HIDE DEF First
      <4>. QED
        BY <3>6, <4>3
    <3>9. CASE ~(U(a[n + 2]) > U(a[j]))
      <4>1. h[1..(n + 1)] = a[j]
        BY <3>3, <3>4, <3>9
      <4>2. ASSUME NEW i \in 1..(n + 2)
            PROVE  U(a[j]) > U(a[i]) \/ (U(a[j]) = U(a[i]) /\ j <= i)
        <5>1. CASE i = n + 2
          BY <3>5, <3>6, <3>9, <5>1
        <5>2. CASE i \in 1..(n + 1)
          BY <3>4, <5>2
        <5>. QED
          BY <3>7, <5>1, <5>2
      <4>3. First(n + 1, j)
        BY <3>6, <4>1, <4>2
      <4>. HIDE DEF First
      <4>. QED
        BY <3>6, <4>3
    <3>. QED
      BY <3>8, <3>9
  <2>. HIDE DEF S
  <2>10. L \in S
    BY <2>1, <2>8, <2>9, Induction
  <2>11. PICK j \in 1..C : First(L, j)
    <3>1. L <= L /\ L + 1 = C
      BY <2>1
    <3>. HIDE DEF First, L
    <3>. QED
      BY <2>10, <3>1 DEF S
  <2>12. ChooseBest(policy, pool, scores) = a[j]
    <3>1. FoldLeft(Better, Head(a), t) = h[1..L]
      BY <1>2, <2>1 DEF h
    <3>. HIDE DEF Better, L
    <3>. QED
      BY <1>1, <2>1, <2>11, <3>1
  <2>13. ASSUME NEW s \in A PROVE Beats(policy, scores, a[j], s)
    <3>1. PICK i \in 1..C : a[i] = s
      BY <1>5
    <3>2. U(a[j]) > U(a[i]) \/ (U(a[j]) = U(a[i]) /\ j <= i)
      <4>1. i \in 1..(L + 1)
        BY <2>1
      <4>. QED
        BY <2>11, <4>1
    <3>3. j <= i => a[j] <= a[i]
      <4>1. a[j] \in Int /\ a[i] \in Int /\ (j < i => a[j] < a[i])
        BY <1>3, <1>5
      <4>2. i \in Int /\ j \in Int
        BY <1>5
      <4>. QED
        BY <4>1, <4>2
    <3>. QED
      BY <3>1, <3>2, <3>3 DEF Beats, U
  <2>. QED
    BY <1>5, <2>12, <2>13
<1>. QED
  BY <1>8, <1>9 DEF A

-----------------------------------------------------------------------------
(* What is printed of a path is read as the path.                          *)

\* f[i] is what is read from the entry i on: d[i], and what is read from next[i] on.
Reads(f, d, next, M) ==
    f = [i \in 1..(M + 2) |-> IF i > M THEN <<>> ELSE <<d[i]>> \o f[next[i]]]

LEMMA ReadingExists ==
    ASSUME NEW M \in Nat, NEW d, NEW next, \A i \in 1..M : next[i] \in (i + 1)..(M + 2)
    PROVE  \E f : Reads(f, d, next, M)
<1>. DEFINE Body(f, i) == IF i > M THEN <<>> ELSE <<d[i]>> \o f[next[i]]
            From(n) == {i \in 1..(M + 2) : i >= M + 2 - n}
            S == {n \in Nat : \E f : \A i \in From(n) : f[i] = Body(f, i)}
<1>1. 0 \in S
  <2>. DEFINE f == [i \in 1..(M + 2) |-> <<>>]
  <2>1. \A i \in From(0) : f[i] = Body(f, i)
    OBVIOUS
  <2>. HIDE DEF f, From, Body
  <2>. QED
    BY <2>1
<1>2. ASSUME NEW n \in Nat, n \in S PROVE n + 1 \in S
  <2>1. PICK f : \A i \in From(n) : f[i] = Body(f, i)
    BY <1>2
  <2>. DEFINE g == [i \in 1..(M + 2) |-> IF i \in From(n) THEN f[i] ELSE Body(f, i)]
  <2>2. ASSUME NEW i \in From(n + 1) PROVE g[i] = Body(g, i)
    <3>1. g[i] = Body(f, i)
      <4>. HIDE DEF Body
      <4>. QED
        BY <2>1
    <3>2. i <= M => next[i] \in From(n)
      OBVIOUS
    <3>3. i <= M => g[next[i]] = f[next[i]]
      BY <3>2
    <3>4. i <= M \/ i > M
      OBVIOUS
    <3>. HIDE DEF g, From
    <3>. QED
      BY <3>1, <3>3, <3>4
  <2>. HIDE DEF g, From, Body
  <2>. QED
    BY <2>2
<1>3. M + 2 \in S
  <2>1. \A n \in Nat : n \in S
    <3>. HIDE DEF S
    <3>. QED
      BY <1>1, <1>2, Induction
  <2>. HIDE DEF S
  <2>. QED
    BY <2>1
<1>4. PICK f : \A i \in From(M + 2) : f[i] = Body(f, i)
  BY <1>3
<1>. DEFINE g == [i \in 1..(M + 2) |-> f[i]]
<1>5. ASSUME NEW i \in 1..(M + 2) PROVE g[i] = Body(g, i)
  <2>1. i \in From(M + 2) /\ (i <= M => next[i] \in 1..(M + 2)) /\ (i <= M \/ i > M)
    OBVIOUS
  <2>2. g[i] = Body(f, i) /\ (i <= M => g[next[i]] = f[next[i]])
    BY <1>4, <2>1
  <2>. HIDE DEF g
  <2>. QED
    BY <2>1, <2>2
<1>6. g = [i \in 1..(M + 2) |-> Body(g, i)]
  <2>1. g = [i \in 1..(M + 2) |-> g[i]]
    OBVIOUS
  <2>. HIDE DEF g, Body
  <2>. QED
    BY <1>5, <2>1
<1>. HIDE DEF g
<1>7. Reads(g, d, next, M)
  BY <1>6 DEF Reads
<1>. QED
  BY <1>7

\* Paths as the assumption has them.
IsPath(path) ==
    /\ path \in Seq(PathHop) /\ Len(path) >= 2
    /\ path[1].ingress = 0 /\ path[Len(path)].egress = 0
    /\ \A n \in 1..(Len(path) - 1) : path[n].isd_as # path[n + 1].isd_as

LEMMA RestOf ==
    ASSUME NEW S, NEW s \in Seq(S), NEW j \in 1..Len(s)
    PROVE  SubSeq(s, j, Len(s)) = <<s[j]>> \o SubSeq(s, j + 1, Len(s))
  OBVIOUS

LEMMA WholeOf ==
    ASSUME NEW S, NEW s \in Seq(S)
    PROVE  SubSeq(s, 1, Len(s)) = s
  OBVIOUS

LEMMA NothingAfter ==
    ASSUME NEW S, NEW s \in Seq(S)
    PROVE  SubSeq(s, Len(s) + 1, Len(s)) = <<>>
  OBVIOUS

LEMMA HopIs ==
    ASSUME NEW hop \in PathHop
    PROVE  hop = [isd_as |-> hop.isd_as, ingress |-> hop.ingress, egress |-> hop.egress]
  BY DEF PathHop

LEMMA SequenceParsed ==
    ASSUME NEW path, IsPath(path)
    PROVE  ParseSequence(PrintedSequence(path)) = path
<1>. DEFINE L == Len(path)
            tokens == PrintedSequence(path)
            read == ParseSequence(tokens)
<1>1. /\ path = [n \in 1..L |-> path[n]] /\ L \in Nat /\ DOMAIN path = 1..L
      /\ \A n \in 1..L : path[n] \in PathHop
      /\ path[L].egress = 0
  BY DEF IsPath
<1>2. DOMAIN tokens = 1..L
  BY <1>1 DEF PrintedSequence
<1>3. ASSUME NEW n \in 1..L
      PROVE  /\ tokens[n].isd_as = path[n].isd_as /\ tokens[n].ifaces[1] = path[n].ingress
             /\ (IF Len(tokens[n].ifaces) > 1 THEN tokens[n].ifaces[2] ELSE 0) = path[n].egress
  <2>1. tokens[n] = [isd_as |-> path[n].isd_as,
                     ifaces |-> IF n = L THEN <<path[n].ingress>>
                                ELSE <<path[n].ingress, path[n].egress>>]
    BY <1>1 DEF PrintedSequence
  <2>2. CASE n = L
    BY <1>1, <2>1, <2>2
  <2>3. CASE n # L
    BY <2>1, <2>3
  <2>. QED
    BY <2>2, <2>3
<1>4. read = [n \in 1..L |->
                 [isd_as |-> tokens[n].isd_as, ingress |-> tokens[n].ifaces[1],
                  egress |-> IF Len(tokens[n].ifaces) > 1 THEN tokens[n].ifaces[2] ELSE 0]]
  BY <1>2 DEF ParseSequence
<1>. HIDE DEF tokens, read
<1>5. \A n \in 1..L :
          [isd_as |-> tokens[n].isd_as, ingress |-> tokens[n].ifaces[1],
           egress |-> IF Len(tokens[n].ifaces) > 1 THEN tokens[n].ifaces[2] ELSE 0] = path[n]
  BY <1>1, <1>3, HopIs
<1>. HIDE DEF L
<1>6. read = [n \in 1..L |-> path[n]]
  BY <1>4, <1>5
<1>. QED
  BY <1>1, <1>6 DEF read, tokens

LEMMA HopsParsed ==
    ASSUME NEW path, IsPath(path)
    PROVE  ParseHops(PrintedHops(path)) = path
<1>. DEFINE L == Len(path)
            hops == PrintedHops(path)
            M == Len(hops)
            Paired(i) == i < Len(hops) /\ hops[i + 1].isd_as = hops[i].isd_as
            Described(i) ==
                [isd_as |-> hops[i].isd_as,
                 ingress |-> IF ~Paired(i) /\ i = 1 THEN 0 ELSE hops[i].interface,
                 egress |-> IF Paired(i) THEN hops[i + 1].interface
                            ELSE IF i = 1 THEN hops[i].interface ELSE 0]
            d == [i \in 1..M |-> Described(i)]
            next == [i \in 1..M |-> IF Paired(i) THEN i + 2 ELSE i + 1]
            Eq(f) == f = [i \in 1..(Len(hops) + 2) |->
                             IF i > Len(hops) THEN <<>>
                             ELSE <<Described(i)>> \o f[IF Paired(i) THEN i + 2 ELSE i + 1]]
            h == CHOOSE f : Eq(f)
<1>1. /\ path \in Seq(PathHop) /\ L \in Nat /\ L >= 2 /\ \A n \in 1..L : path[n] \in PathHop
      /\ path[1].ingress = 0 /\ path[L].egress = 0
      /\ \A n \in 1..(L - 1) : path[n].isd_as # path[n + 1].isd_as
  BY DEF IsPath
<1>2. L \in Nat /\ L >= 2
  BY <1>1
<1>3. M \in Nat /\ M = 2 * L - 2
  <2>. DEFINE N == 2 * L - 2
              T == {hops[i] : i \in 1..N}
  <2>1. hops \in [1..N -> T] /\ N \in Nat
    BY <1>2 DEF PrintedHops
  <2>. HIDE DEF hops, T, N
  <2>2. Len(hops) = N
    BY <2>1, LenProperties
  <2>. QED
    BY <2>1, <2>2 DEF N
<1>4. ASSUME NEW k \in 1..M
      PROVE  /\ hops[k].isd_as = path[(k \div 2) + 1].isd_as
             /\ hops[k].interface = IF k % 2 = 0 THEN path[(k \div 2) + 1].ingress
                                                 ELSE path[(k \div 2) + 1].egress
  <2>1. k \in 1..(2 * L - 2)
    BY <1>3
  <2>. HIDE DEF M
  <2>. QED
    BY <2>1 DEF PrintedHops
<1>5. ParseHops(hops) = h[1]
  BY DEF ParseHops
<1>. HIDE DEF hops, M
<1>6. Reads(h, d, next, M)
  <2>1. \A f : Eq(f) <=> Reads(f, d, next, M)
    <3>1. \A f : [i \in 1..(M + 2) |-> IF i > M THEN <<>>
                          ELSE <<Described(i)>> \o f[IF Paired(i) THEN i + 2 ELSE i + 1]]
                 = [i \in 1..(M + 2) |-> IF i > M THEN <<>> ELSE <<d[i]>> \o f[next[i]]]
      <4>1. \A i \in 1..(M + 2) : i > M \/ i \in 1..M
        BY <1>3
      <4>2. \A i \in 1..M : d[i] = Described(i) /\ next[i] = IF Paired(i) THEN i + 2 ELSE i + 1
        OBVIOUS
      <4>. HIDE DEF d, next, Described, Paired, M
      <4>. QED
        BY <4>1, <4>2
    <3>. HIDE DEF d, next, Described, Paired
    <3>. QED
      BY <3>1 DEF Reads, M
  <2>2. \E f : Reads(f, d, next, M)
    <3>1. \A i \in 1..M : next[i] \in (i + 1)..(M + 2)
      <4>. HIDE DEF Paired
      <4>. QED
        BY <1>3
    <3>. HIDE DEF d, next, M
    <3>. QED
      BY <1>3, <3>1, ReadingExists
  <2>. HIDE DEF Eq, d, next, M
  <2>. QED
    BY <2>1, <2>2
<1>. HIDE DEF h, Eq
<1>7. /\ \A i \in 1..M : h[i] = <<d[i]>> \o h[next[i]]
      /\ h[M + 1] = <<>>
  <2>1. \A i \in 1..(M + 2) : h[i] = IF i > M THEN <<>> ELSE <<d[i]>> \o h[next[i]]
    <3>. HIDE DEF d, next, M
    <3>. QED
      BY <1>6, Zenon DEF Reads
  <2>. HIDE DEF d, next
  <2>2. M + 1 > M /\ M + 1 \in 1..(M + 2) /\ \A i \in 1..M : i \in 1..(M + 2) /\ ~(i > M)
    BY <1>3
  <2>. HIDE DEF M
  <2>. QED
    BY <2>1, <2>2
\* The source, the transit ASes and the destination.
<1>8. ~Paired(1) /\ d[1] = path[1] /\ next[1] = 2
  <2>1. 1 \in 1..M /\ 2 \in 1..M /\ 1 \div 2 = 0 /\ 2 \div 2 = 1 /\ 1 % 2 = 1
    BY <1>2, <1>3
  <2>2. /\ hops[1].isd_as = path[1].isd_as /\ hops[1].interface = path[1].egress
        /\ hops[2].isd_as = path[2].isd_as
    BY <1>4, <2>1
  <2>3. path[1].isd_as # path[2].isd_as
    BY <1>1
  <2>4. ~Paired(1)
    BY <2>2, <2>3
  <2>. HIDE DEF Paired
  <2>5. d[1] = [isd_as |-> path[1].isd_as, ingress |-> 0, egress |-> path[1].egress]
    BY <2>1, <2>2, <2>4
  <2>6. path[1] = [isd_as |-> path[1].isd_as, ingress |-> path[1].ingress,
                   egress |-> path[1].egress]
    BY <1>1, HopIs
  <2>. QED
    BY <1>1, <2>1, <2>4, <2>5, <2>6
<1>9. ASSUME NEW j \in 1..(L - 2)
      PROVE  d[2 * j] = path[j + 1] /\ next[2 * j] = 2 * j + 2 /\ 2 * j \in 1..M
  <2>1. /\ 2 * j \in 1..M /\ 2 * j + 1 \in 1..M /\ 2 * j < M /\ 2 * j # 1
        /\ (2 * j) \div 2 = j /\ (2 * j) % 2 = 0
        /\ (2 * j + 1) \div 2 = j /\ (2 * j + 1) % 2 = 1
    BY <1>2, <1>3
  <2>2. /\ hops[2 * j].isd_as = path[j + 1].isd_as /\ hops[2 * j].interface = path[j + 1].ingress
        /\ hops[2 * j + 1].isd_as = path[j + 1].isd_as
        /\ hops[2 * j + 1].interface = path[j + 1].egress
    <3>. DEFINE p == 2 * j
                q == 2 * j + 1
    <3>1. p \in 1..M /\ p \div 2 = j /\ p % 2 = 0
      BY <2>1
    <3>2. q \in 1..M /\ q \div 2 = j /\ q % 2 = 1
      BY <2>1
    <3>. HIDE DEF p, q
    <3>3. /\ hops[p].isd_as = path[j + 1].isd_as /\ hops[p].interface = path[j + 1].ingress
          /\ hops[q].isd_as = path[j + 1].isd_as /\ hops[q].interface = path[j + 1].egress
      BY <1>4, <3>1, <3>2
    <3>. QED
      BY <3>3 DEF p, q
  <2>3. Paired(2 * j)
    BY <2>1, <2>2 DEF M
  <2>. HIDE DEF Paired
  <2>4. d[2 * j] = [isd_as |-> path[j + 1].isd_as, ingress |-> path[j + 1].ingress,
                    egress |-> path[j + 1].egress]
    BY <2>1, <2>2, <2>3
  <2>5. path[j + 1] \in PathHop
    BY <1>1
  <2>. QED
    BY <2>1, <2>3, <2>4, <2>5, HopIs
<1>10. d[M] = path[L] /\ next[M] = M + 1 /\ M \in 1..M
  <2>1. M \in 1..M /\ M # 1 /\ M \div 2 = L - 1 /\ M % 2 = 0 /\ ~(M < M) /\ (L - 1) + 1 = L
    BY <1>2, <1>3
  <2>2. hops[M].isd_as = path[L].isd_as /\ hops[M].interface = path[L].ingress
    <3>. HIDE DEF M
    <3>. QED
      BY <1>4, <2>1
  <2>3. ~Paired(M)
    <3>1. \A m : m = M => (Paired(m) => m < M)
      BY DEF M
    <3>. HIDE DEF Paired
    <3>. QED
      BY <2>1, <3>1
  <2>. HIDE DEF Paired
  <2>4. d[M] = [isd_as |-> path[L].isd_as, ingress |-> path[L].ingress, egress |-> 0]
    <3>. HIDE DEF M
    <3>. QED
      BY <2>1, <2>2, <2>3
  <2>5. path[L] \in PathHop
    BY <1>1
  <2>6. next[M] = M + 1
    <3>. HIDE DEF M
    <3>. QED
      BY <2>1, <2>3
  <2>. HIDE DEF M, L, d
  <2>. QED
    BY <1>1, <2>1, <2>4, <2>5, <2>6, HopIs
<1>. HIDE DEF d, next, Paired, Described
<1>. DEFINE Right(j) == h[2 * j] = SubSeq(path, j + 1, L)
            S == {n \in Nat : n <= L - 2 => Right(L - 1 - n)}
<1>11. 0 \in S
  <2>1. h[M] = <<path[L]>> \o <<>>
    <3>. HIDE DEF M, L
    <3>. QED
      BY <1>7, <1>10
  <2>2. 2 * (L - 1 - 0) = M /\ (L - 1 - 0) + 1 = L
    BY <1>2, <1>3
  <2>3. SubSeq(path, L, L) = <<path[L]>> \o <<>>
    <3>1. L \in 1..L
      BY <1>2
    <3>2. SubSeq(path, L, L) = <<path[L]>> \o SubSeq(path, L + 1, L)
      BY <1>1, <3>1, RestOf
    <3>. QED
      BY <1>1, <3>2, NothingAfter
  <2>. QED
    BY <2>1, <2>2, <2>3
<1>12. ASSUME NEW n \in Nat, n \in S PROVE n + 1 \in S
  <2>. SUFFICES ASSUME n + 1 <= L - 2 PROVE Right(L - 1 - (n + 1))
    OBVIOUS
  <2>. DEFINE j == L - 1 - (n + 1)
  <2>1. j \in 1..(L - 2) /\ L - 1 - n = j + 1 /\ j + 1 \in 1..L /\ 2 * (j + 1) = 2 * j + 2
        /\ n <= L - 2
    BY <1>2
  <2>2. h[2 * (j + 1)] = SubSeq(path, (j + 1) + 1, L)
    BY <1>12, <2>1
  <2>. HIDE DEF j, M
  <2>3. h[2 * j] = <<path[j + 1]>> \o h[2 * j + 2]
    BY <1>7, <1>9, <2>1
  <2>4. SubSeq(path, j + 1, L) = <<path[j + 1]>> \o SubSeq(path, (j + 1) + 1, L)
    BY <1>1, <2>1, RestOf
  <2>5. Right(j)
    BY <2>1, <2>2, <2>3, <2>4
  <2>. QED
    BY <2>5 DEF j
<1>13. L - 2 \in S
  <2>1. \A n \in Nat : n \in S
    <3>. HIDE DEF S
    <3>. QED
      BY <1>11, <1>12, Induction
  <2>2. L - 2 \in Nat
    BY <1>2
  <2>. HIDE DEF S
  <2>. QED
    BY <2>1, <2>2
<1>14. h[2] = SubSeq(path, 2, L)
  <2>1. L - 2 <= L - 2 /\ L - 1 - (L - 2) = 1 /\ 2 * 1 = 2 /\ 1 + 1 = 2
    BY <1>2
  <2>. QED
    BY <1>13, <2>1
<1>15. h[1] = <<path[1]>> \o SubSeq(path, 2, L)
  <2>1. 1 \in 1..M
    BY <1>2, <1>3
  <2>. HIDE DEF M, L
  <2>. QED
    BY <1>7, <1>8, <1>14, <2>1
<1>16. h[1] = path
  <2>1. 1 \in 1..L /\ 1 + 1 = 2
    BY <1>2
  <2>2. SubSeq(path, 1, L) = <<path[1]>> \o SubSeq(path, 2, L) /\ SubSeq(path, 1, L) = path
    BY <1>1, <2>1, RestOf, WholeOf
  <2>. QED
    BY <1>15, <2>2
<1>. QED
  BY <1>5, <1>16 DEF hops

LEMMA PathsRead ==
    ASSUME NEW src, NEW paths \in PathsFrom(src)
    PROVE  paths \in {<<>>, RealPaths}
<1>1. \A n \in DOMAIN RealPaths : IsPath(RealPaths[n])
  <2>1. /\ RealPaths \in Seq(Seq(PathHop))
        /\ \A n \in DOMAIN RealPaths : RealPaths[n] \in ToSet(RealPaths)
    BY PathDiscoveryAssumption DEF ToSet
  <2>2. \A n \in DOMAIN RealPaths : RealPaths[n] \in Seq(PathHop)
    BY <2>1
  <2>. QED
    BY <2>1, <2>2, PathDiscoveryAssumption DEF IsPath
<1>2. ASSUME NEW format \in [DOMAIN RealPaths -> BOOLEAN]
      PROVE  [n \in DOMAIN RealPaths |-> ParsePath(RealPaths[n], format[n])] = RealPaths
  <2>1. \A n \in DOMAIN RealPaths : ParsePath(RealPaths[n], format[n]) = RealPaths[n]
    BY <1>1, SequenceParsed, HopsParsed DEF ParsePath
  <2>2. RealPaths = [n \in DOMAIN RealPaths |-> RealPaths[n]]
    BY PathDiscoveryAssumption
  <2>. QED
    BY <2>1, <2>2
<1>. QED
  BY <1>2 DEF PathsFrom

-----------------------------------------------------------------------------
(* choose_route: the best so far, over the paths that have been compared.  *)

\* The first of the paths that s covers.
Index(paths, s) == Min({n \in DOMAIN paths : paths[n] = PathOf[s]})

Ahead(c, s, t) ==
    LET U(x) == Utility(c.policy, x, c.scores)
    IN  \/ U(s) > U(t)
        \/ U(s) = U(t) /\ Index(c.paths, s) < Index(c.paths, t)
        \/ U(s) = U(t) /\ Index(c.paths, s) = Index(c.paths, t) /\ s <= t

\* The acceptable SLAs on the first n paths.
Compared(c, n) ==
    {s \in Acceptable(c.policy, c.pool, c.scores) : \E i \in 1..n : c.paths[i] = PathOf[s]}

BestOf(c, n) ==
    IF Compared(c, n) = {} THEN c.best = NoSLA
    ELSE c.best \in Compared(c, n) /\ \A t \in Compared(c, n) : Ahead(c, c.best, t)

AList(s) == Len(s) \in Nat /\ DOMAIN s = 1..Len(s)

ChoiceInv ==
    /\ call.at = "market" => AList(call.paths) /\ call.policy \in Policies
    /\ call.at = "choose" =>
          /\ AList(call.paths) /\ call.policy \in Policies
          /\ call.pool \in SUBSET SLAs /\ AreScores(call.scores)
          /\ call.next \in 1..(Len(call.paths) + 1)
          /\ BestOf(call, call.next - 1)

LEMMA PathsAreLists ==
    ASSUME NEW src, NEW paths \in PathsFrom(src)
    PROVE  AList(paths)
<1>. DEFINE S == Seq(PathHop)
<1>1. RealPaths \in Seq(S)
  BY PathDiscoveryAssumption
<1>. HIDE DEF S
<1>2. AList(RealPaths) /\ AList(<<>>)
  BY <1>1 DEF AList
<1>. QED
  BY <1>2, PathsRead

LEMMA IndexIs ==
    ASSUME NEW paths, AList(paths), NEW s, NEW n \in 1..Len(paths), paths[n] = PathOf[s]
    PROVE  /\ Index(paths, s) \in 1..Len(paths)
           /\ paths[Index(paths, s)] = PathOf[s]
           /\ Index(paths, s) <= n
<1>. DEFINE T == {m \in DOMAIN paths : paths[m] = PathOf[s]}
<1>1. T \subseteq Nat /\ n \in T /\ \A m \in T : m \in 1..Len(paths)
  BY DEF AList
<1>2. \E m \in T : \A k \in T : m <= k
  <2>. HIDE DEF T
  <2>. QED
    BY <1>1, LeastOf
<1>3. Min(T) \in T /\ \A k \in T : Min(T) <= k
  <2>. HIDE DEF T
  <2>. QED
    BY <1>2, Zenon DEF Min
<1>. QED
  BY <1>1, <1>3 DEF Index

\* One more path is compared.
LEMMA OneMorePath ==
    ASSUME NEW c, NEW d, NEW n,
           AList(c.paths), c.policy \in Policies,
           c.pool \in SUBSET SLAs, AreScores(c.scores),
           n \in 1..Len(c.paths), BestOf(c, n - 1),
           d.paths = c.paths, d.policy = c.policy, d.pool = c.pool, d.scores = c.scores,
           LET onPath == {s \in c.pool : PathOf[s] = c.paths[n]}
               choice == ChooseBest(c.policy, onPath, c.scores)
               U(s) == Utility(c.policy, s, c.scores)
           IN  d.best = IF choice # NoSLA /\ (c.best = NoSLA \/ U(choice) > U(c.best))
                        THEN choice ELSE c.best
    PROVE  BestOf(d, n)
<1>. DEFINE onPath == {s \in c.pool : PathOf[s] = c.paths[n]}
            choice == ChooseBest(c.policy, onPath, c.scores)
            U(s) == Utility(c.policy, s, c.scores)
            here == Acceptable(c.policy, onPath, c.scores)
            before == Compared(c, n - 1)
            ind(s) == Index(c.paths, s)
<1>1. d.best = IF choice # NoSLA /\ (c.best = NoSLA \/ U(choice) > U(c.best))
               THEN choice ELSE c.best
  OBVIOUS
<1>2. /\ here = {} => choice = NoSLA
      /\ here # {} => choice \in here /\ \A t \in here : Beats(c.policy, c.scores, choice, t)
  <2>1. onPath \in SUBSET SLAs
    OBVIOUS
  <2>. HIDE DEF onPath
  <2>2. LET acceptable == Acceptable(c.policy, onPath, c.scores)
            best == ChooseBest(c.policy, onPath, c.scores)
        IN  IF acceptable = {} THEN best = NoSLA
            ELSE best \in acceptable /\ \A t \in acceptable : Beats(c.policy, c.scores, best, t)
    BY <2>1, ChooseBestIs, Zenon
  <2>. QED
    BY <2>2
<1>3. /\ Compared(d, n) = before \cup here
      /\ before \subseteq SLAs /\ here \subseteq SLAs
      /\ \A s \in SLAs : U(s) \in Int /\ s \in Nat /\ s # NoSLA
      /\ \A s \in here : c.paths[n] = PathOf[s]
      /\ \A s \in before : \E i \in 1..(n - 1) : c.paths[i] = PathOf[s]
      /\ \A s \in here \ before : \A i \in 1..(n - 1) : c.paths[i] # PathOf[s]
  <2>1. 1..n = (1..(n - 1)) \cup {n}
    BY DEF AList
  <2>2. Compared(d, n) = before \cup here
    <3>1. Acceptable(d.policy, d.pool, d.scores) = Acceptable(c.policy, c.pool, c.scores)
      OBVIOUS
    <3>. QED
      BY <2>1, <3>1 DEF Compared, Acceptable
  <2>3. \A s \in SLAs : U(s) \in Int /\ s \in Nat /\ s # NoSLA
    BY UtilityType, PolicyAssumption DEF NoSLA
  <2>4. before \subseteq SLAs /\ here \subseteq SLAs
    BY DEF Compared, Acceptable
  <2>5. \A s \in here : c.paths[n] = PathOf[s]
    BY DEF Acceptable
  <2>6. /\ \A s \in before : \E i \in 1..(n - 1) : c.paths[i] = PathOf[s]
        /\ \A s \in here \ before : \A i \in 1..(n - 1) : c.paths[i] # PathOf[s]
    BY DEF Compared, Acceptable
  <2>. QED
    BY <2>2, <2>3, <2>4, <2>5, <2>6
<1>4. /\ before = {} => c.best = NoSLA
      /\ before # {} => c.best \in before /\ \A t \in before : Ahead(c, c.best, t)
  BY DEF BestOf
<1>5. \A s, t : Ahead(d, s, t) <=>
                    \/ U(s) > U(t)
                    \/ U(s) = U(t) /\ ind(s) < ind(t)
                    \/ U(s) = U(t) /\ ind(s) = ind(t) /\ s <= t
  BY DEF Ahead
<1>6. \A s, t : Ahead(c, s, t) <=> Ahead(d, s, t)
  BY DEF Ahead
<1>7. \A s, t \in here : ind(s) = ind(t) /\ (Beats(c.policy, c.scores, s, t) => Ahead(d, s, t))
  <2>1. \A s, t \in here : PathOf[s] = PathOf[t]
    BY <1>3
  <2>2. \A s, t \in here : ind(s) = ind(t)
    BY <2>1 DEF Index
  <2>. QED
    BY <1>5, <2>2 DEF Beats
<1>8. \A s \in before, t \in here \ before : ind(s) < ind(t)
  <2>. SUFFICES ASSUME NEW s \in before, NEW t \in here \ before PROVE ind(s) < ind(t)
    OBVIOUS
  <2>1. PICK i \in 1..(n - 1) : c.paths[i] = PathOf[s]
    BY <1>3
  <2>2. i \in 1..Len(c.paths) /\ n \in 1..Len(c.paths) /\ i < n /\ n \in Nat /\ i \in Nat
    BY DEF AList
  <2>3. ind(s) \in 1..Len(c.paths) /\ ind(s) <= i
    BY <2>1, <2>2, IndexIs
  <2>4. ind(t) \in 1..Len(c.paths) /\ c.paths[ind(t)] = PathOf[t]
    BY <1>3, <2>2, IndexIs
  <2>5. ind(t) \notin 1..(n - 1)
    BY <1>3, <2>4
  <2>. HIDE DEF ind
  <2>. QED
    BY <2>2, <2>3, <2>4, <2>5
<1>. HIDE DEF here, before, choice, U, ind
<1>9. CASE here = {}
  <2>1. Compared(d, n) = before /\ d.best = c.best
    BY <1>1, <1>2, <1>3, <1>9
  <2>. QED
    BY <1>4, <1>6, <2>1 DEF BestOf
<1>10. CASE here # {} /\ d.best = choice
  <2>1. choice \in here /\ \A t \in here : Ahead(d, choice, t)
    BY <1>2, <1>7, <1>10
  <2>2. ASSUME NEW t \in before PROVE Ahead(d, choice, t)
    <3>1. c.best \in before /\ c.best # NoSLA /\ Ahead(d, c.best, t)
      BY <1>3, <1>4, <1>6
    <3>2. CASE U(choice) > U(c.best)
      <4>1. U(choice) \in Int /\ U(c.best) \in Int /\ U(t) \in Int
        BY <1>3, <2>1, <3>1
      <4>2. U(c.best) >= U(t)
        BY <1>5, <3>1, <4>1
      <4>3. U(choice) > U(t)
        BY <3>2, <4>1, <4>2
      <4>. QED
        BY <1>5, <4>3
    <3>3. CASE ~(U(choice) > U(c.best))
      BY <1>1, <1>10, <3>1, <3>3
    <3>. QED
      BY <3>2, <3>3
  <2>. QED
    BY <1>3, <1>10, <2>1, <2>2 DEF BestOf
<1>11. CASE here # {} /\ d.best # choice
  <2>1. choice \in here /\ \A t \in here : Beats(c.policy, c.scores, choice, t)
    BY <1>2, <1>11
  <2>2. d.best = c.best /\ c.best # NoSLA /\ ~(U(choice) > U(c.best))
    BY <1>1, <1>3, <1>11, <2>1
  <2>3. c.best \in before /\ \A t \in before : Ahead(d, c.best, t)
    BY <1>4, <1>6, <2>2
  <2>4. ASSUME NEW t \in here \ before PROVE Ahead(d, c.best, t)
    <3>1. U(choice) \in Int /\ U(c.best) \in Int /\ U(t) \in Int
      BY <1>3, <2>1, <2>3
    <3>2. U(choice) >= U(t)
      BY <2>1, <3>1 DEF Beats, U
    <3>3. U(c.best) > U(t) \/ U(c.best) = U(t)
      BY <2>2, <3>1, <3>2
    <3>4. ind(c.best) < ind(t)
      BY <1>8, <2>3
    <3>. QED
      BY <1>5, <3>3, <3>4
  <2>. QED
    BY <1>3, <2>2, <2>3, <2>4 DEF BestOf
<1>. QED
  BY <1>9, <1>10, <1>11

-----------------------------------------------------------------------------
(* What every call keeps, whatever it is about.                            *)

Fields(at) ==
    CASE at = "idle"                  -> {"at"}
      [] at = "resolve"               -> {"at", "paths", "next", "resolved", "lost"}
      [] at \in {"compose", "offered"} -> {"at", "paths", "resolved", "scores", "candidates",
                                          "seen", "lost"}
      [] at = "validate"              -> {"at", "lost", "path", "applied", "held", "todo"}
      [] at = "refused"               -> {"at", "applied", "lost"}
      [] at = "market"                -> {"at", "paths", "policy"}
      [] at = "choose"                -> {"at", "paths", "policy", "pool", "scores", "next",
                                          "best"}
      [] at = "decided"               -> {"at", "path", "applied", "manual"}

CallInv ==
    /\ market \subseteq SLAs
    /\ portfolio \in Seq(Claim) /\ Len(portfolio) <= MaxClaims
    /\ call.at \in {"idle", "resolve", "compose", "offered", "validate", "refused",
                    "market", "choose", "decided"}
    /\ DOMAIN call = Fields(call.at)

LEMMA CallStep ==
    ASSUME CallInv, Next
    PROVE  CallInv'
<1>. USE DEF CallInv
<1>1. ASSUME UNCHANGED <<market, portfolio>>, DOMAIN call' = Fields(call'.at),
             call'.at \in {"idle", "resolve", "compose", "offered", "validate", "refused",
                          "market", "choose", "decided"}
      PROVE  CallInv'
  BY <1>1
<1>2. CASE GetCandidates
  BY <1>2 DEF GetCandidates, Fields
<1>3. CASE GetSLA
  BY <1>3 DEF GetSLA, Fields
<1>4. CASE GetScores
  BY <1>4 DEF GetScores, Fields
<1>5. CASE ComposeNext
  <2>1. /\ call.at = "compose" /\ call'.at = call.at /\ DOMAIN call' = DOMAIN call
        /\ UNCHANGED <<market, portfolio>>
    BY <1>5 DEF ComposeNext, Fields
  <2>. QED
    BY <2>1
<1>6. CASE AnswerCandidates
  BY <1>6 DEF AnswerCandidates, Fields
<1>7. CASE PutRouting
  BY <1>7 DEF PutRouting, Idle, Fields
<1>8. CASE ValidateHop
  BY <1>8 DEF ValidateHop, Fields
<1>9. CASE SetRouting
  BY <1>9 DEF SetRouting, Fields
<1>10. CASE ChooseRoute
  BY <1>10 DEF ChooseRoute, Idle, Fields
<1>11. CASE ListActive
  BY <1>11 DEF ListActive, Fields
<1>12. CASE ComparePath
  <2>1. /\ call.at = "choose" /\ call'.at = call.at /\ DOMAIN call' = DOMAIN call
        /\ UNCHANGED <<market, portfolio>>
    BY <1>12 DEF ComparePath, Fields
  <2>. QED
    BY <2>1
<1>13. CASE Decide
  BY <1>13 DEF Decide, Idle, Fields
<1>14. CASE CallFails \/ Answer
  BY <1>14 DEF CallFails, Answer, Idle, Fields
<1>15. ASSUME NEW claim \in Claim, AppendClaim(claim) PROVE CallInv'
  <2>1. portfolio' \in Seq(Claim) /\ Len(portfolio') = Len(portfolio) + 1
    BY <1>15 DEF AppendClaim
  <2>2. Len(portfolio') <= MaxClaims /\ UNCHANGED <<market, call>>
    BY <1>15, <2>1, RoutingAssumption DEF AppendClaim
  <2>. QED
    BY <2>1, <2>2
<1>16. CASE Wipe
  <2>1. call'.at = call.at /\ DOMAIN call' = DOMAIN call
    BY <1>16 DEF Wipe, Losing, Fields
  <2>. QED
    BY <1>16, <2>1 DEF Wipe
<1>17. ASSUME NEW s \in SLAs, Post(s) PROVE CallInv'
  BY <1>17 DEF Post
<1>. QED
  BY <1>2, <1>3, <1>4, <1>5, <1>6, <1>7, <1>8, <1>9, <1>10, <1>11, <1>12, <1>13, <1>14, <1>15,
     <1>16, <1>17 DEF Next

(***************************************************************************)
(* The market, the portfolio and the stages of a call are what the         *)
(* operations of the routing endpoints make of them.                       *)
(***************************************************************************)
THEOREM CallInvariant == Spec => []CallInv
<1>1. Init => CallInv
  BY RoutingAssumption DEF Init, CallInv, Idle, Fields
<1>2. CallInv /\ [Next]_vars => CallInv'
  <2>1. CallInv /\ UNCHANGED vars => CallInv'
    BY DEF CallInv, vars
  <2>. QED
    BY <2>1, CallStep
<1>. QED
  BY <1>1, <1>2, PTL DEF Spec

-----------------------------------------------------------------------------
(* The choice of a route.                                                  *)

\* An SLA that is bought, wiped or posted again is no business of the choice.
LEMMA ChoiceStep ==
    ASSUME CallInv, ChoiceInv, Next
    PROVE  ChoiceInv'
<1>. USE DEF ChoiceInv
<1>1. ASSUME call'.at \notin {"market", "choose"} PROVE ChoiceInv'
  BY <1>1
<1>2. ASSUME call' = call PROVE ChoiceInv'
  BY <1>2 DEF BestOf, Compared, Acceptable, Ahead
<1>3. CASE GetCandidates \/ GetSLA \/ GetScores \/ ComposeNext \/ AnswerCandidates
  <2>1. call'.at \in {"resolve", "compose", "offered"}
    <3>1. call.at = "resolve" => "at" \in DOMAIN call
      BY DEF CallInv, Fields
    <3>2. call.at = "compose" => "at" \in DOMAIN call
      BY DEF CallInv, Fields
    <3>3. GetCandidates \/ GetScores => call'.at \in {"resolve", "compose"}
      BY DEF GetCandidates, GetScores
    <3>4. GetSLA => call'.at = "resolve"
      BY <3>1 DEF GetSLA
    <3>5. ComposeNext => call'.at = "compose"
      BY <3>2 DEF ComposeNext
    <3>6. AnswerCandidates => call'.at = "offered"
      BY <3>2 DEF AnswerCandidates
    <3>. QED
      BY <1>3, <3>3, <3>4, <3>5, <3>6
  <2>. QED
    BY <1>1, <2>1
<1>4. CASE PutRouting \/ ValidateHop \/ SetRouting
  <2>1. call'.at \in {"idle", "validate", "refused", "decided"}
    BY <1>4 DEF CallInv, Fields, PutRouting, ValidateHop, SetRouting, Idle
  <2>. QED
    BY <1>1, <2>1
<1>5. CASE ChooseRoute
  <2>1. PICK paths \in PathsFrom(LocalAS), policy \in Policies :
            call' = IF paths = <<>> THEN Idle
                    ELSE [at |-> "market", paths |-> paths, policy |-> policy]
    BY <1>5 DEF ChooseRoute
  <2>2. AList(paths)
    BY PathsAreLists
  <2>. QED
    BY <1>1, <2>1, <2>2 DEF Idle
<1>6. CASE ListActive
  <2>1. PICK expired \in SUBSET Expirable, scores \in ScoreTables :
            call' = [at |-> "choose", paths |-> call.paths, policy |-> call.policy,
                     pool |-> market \ expired, scores |-> scores, next |-> 1, best |-> NoSLA]
    BY <1>6 DEF ListActive
  <2>2. AList(call.paths) /\ call.policy \in Policies /\ market \in SUBSET SLAs
    BY <1>6 DEF ListActive, CallInv
  <2>3. AreScores(scores)
    BY RoutingAssumption DEF AreScores
  <2>4. 1 \in 1..(Len(call.paths) + 1)
    BY <2>2 DEF AList
  <2>5. BestOf(call', 0)
    <3>1. Compared(call', 0) = {}
      BY DEF Compared
    <3>. QED
      BY <2>1, <3>1 DEF BestOf
  <2>. HIDE DEF BestOf
  <2>6. BestOf(call', call'.next - 1)
    <3>1. call'.next - 1 = 0
      BY <2>1
    <3>. QED
      BY <2>5, <3>1
  <2>. QED
    BY <2>1, <2>2, <2>3, <2>4, <2>6
<1>7. CASE ComparePath
  <2>. DEFINE c == call
              d == call'
              n == call.next
              onPath == {s \in c.pool : PathOf[s] = c.paths[n]}
              choice == ChooseBest(c.policy, onPath, c.scores)
              U(s) == Utility(c.policy, s, c.scores)
  <2>1. /\ c.at = "choose" /\ AList(c.paths) /\ c.policy \in Policies
        /\ c.pool \in SUBSET SLAs /\ AreScores(c.scores)
        /\ n \in 1..Len(c.paths) /\ BestOf(c, n - 1)
    BY <1>7 DEF ComparePath, AList
  <2>2. DOMAIN c = {"at", "paths", "policy", "pool", "scores", "next", "best"}
    BY <2>1 DEF CallInv, Fields
  <2>3. /\ d.paths = c.paths /\ d.policy = c.policy /\ d.pool = c.pool /\ d.scores = c.scores
        /\ d.at = "choose" /\ d.next = n + 1
    BY <1>7, <2>1, <2>2 DEF ComparePath
  <2>4. d.best = IF choice # NoSLA /\ (c.best = NoSLA \/ U(choice) > U(c.best))
                 THEN choice ELSE c.best
    <3>1. d = [c EXCEPT !.next = @ + 1,
                        !.best = IF choice # NoSLA /\ (@ = NoSLA \/ U(choice) > U(@))
                                 THEN choice ELSE @]
      BY <1>7 DEF ComparePath
    <3>. HIDE DEF c, d, choice, U
    <3>. QED
      BY <2>2, <3>1
  <2>5. BestOf(d, n)
    <3>. HIDE DEF c, d, n
    <3>. QED
      BY <2>1, <2>3, <2>4, OneMorePath
  <2>. HIDE DEF choice
  <2>6. d.next \in 1..(Len(d.paths) + 1) /\ d.next - 1 = n
    BY <2>1, <2>3 DEF AList
  <2>. QED
    BY <2>1, <2>3, <2>5, <2>6
<1>8. CASE Decide \/ CallFails \/ Answer
  <2>1. call'.at \in {"idle", "decided"}
    BY <1>8 DEF Decide, CallFails, Answer, Idle
  <2>. QED
    BY <1>1, <2>1
<1>9. ASSUME NEW claim \in Claim, AppendClaim(claim) PROVE ChoiceInv'
  BY <1>2, <1>9 DEF AppendClaim
<1>10. CASE Wipe
  <2>1. CASE call.at \in {"market", "choose"}
    <3>1. "lost" \notin DOMAIN call
      BY <2>1 DEF CallInv, Fields
    <3>. QED
      BY <1>2, <1>10, <3>1 DEF Wipe, Losing
  <2>2. CASE call.at \notin {"market", "choose"}
    <3>1. call'.at = call.at
      BY <1>10 DEF Wipe, Losing, CallInv, Fields
    <3>. QED
      BY <1>1, <2>2, <3>1
  <2>. QED
    BY <2>1, <2>2
<1>11. ASSUME NEW s \in SLAs, Post(s) PROVE ChoiceInv'
  BY <1>2, <1>11 DEF Post
<1>. QED
  BY <1>3, <1>4, <1>5, <1>6, <1>7, <1>8, <1>9, <1>10, <1>11 DEF Next

\* Once every path has been compared, the best so far is the best.
LEMMA ChoiceIsMade ==
    ASSUME ChoiceInv
    PROVE  ChoiceIsBest
<1>. SUFFICES ASSUME call.at = "choose", call.next > Len(call.paths) PROVE ChoiceIsBest
  BY DEF ChoiceIsBest
<1>. DEFINE L == Len(call.paths)
            acceptable == {s \in call.pool : /\ PathOf[s] \in ToSet(call.paths)
                                             /\ PolicyAccepts(call.policy, s, call.scores)}
<1>1. AList(call.paths) /\ call.next \in 1..(L + 1) /\ BestOf(call, call.next - 1)
  BY DEF ChoiceInv
<1>2. call.next - 1 = L
  BY <1>1 DEF AList
<1>3. Compared(call, L) = acceptable
  BY <1>1 DEF Compared, Acceptable, ToSet, AList
<1>4. BestOf(call, L)
  BY <1>1, <1>2
<1>5. IF acceptable = {} THEN call.best = NoSLA
      ELSE call.best \in acceptable /\ \A t \in acceptable : Ahead(call, call.best, t)
  BY <1>3, <1>4 DEF BestOf
<1>. QED
  BY <1>5 DEF ChoiceIsBest, Ahead, Index

(***************************************************************************)
(* choose_route looks at one path after the other and keeps the best SLA   *)
(* so far: what it decides for is the best over all of them, whatever the  *)
(* market, the scores and the paths, and nothing just when no SLA is       *)
(* acceptable.                                                             *)
(***************************************************************************)
THEOREM ChoiceHolds == Spec => []ChoiceIsBest
<1>1. Init => ChoiceInv
  BY DEF Init, ChoiceInv, Idle
<1>2. CallInv /\ ChoiceInv /\ [Next]_vars => ChoiceInv'
  <2>1. ChoiceInv /\ UNCHANGED vars => ChoiceInv'
    BY DEF ChoiceInv, vars, BestOf, Compared, Acceptable, Ahead
  <2>. QED
    BY <2>1, ChoiceStep
<1>3. ChoiceInv => ChoiceIsBest
  BY ChoiceIsMade
<1>. QED
  BY <1>1, <1>2, <1>3, CallInvariant, PTL DEF Spec
-----------------------------------------------------------------------------
(* _claim_placements: where the claims of a portfolio apply on a path.     *)

\* Claims with one identifier are one claim: it is a hash of what was signed.
IsPortfolio(claims) ==
    /\ claims \in Seq(Claim)
    /\ \A m, n \in DOMAIN claims : claims[m].id = claims[n].id => claims[m] = claims[n]

\* The placement p of a claim is within the path, over the ASes of its SLA.
PlacedAt(path, claim, p) ==
    LET cosigners == Cosigners[claim.sla]
    IN  /\ p = [start |-> p.start, end |-> p.start + Len(cosigners),
                id |-> claim.id, sla |-> claim.sla]
        /\ p.start \in 1..Len(path) /\ p.end - 1 \in p.start..Len(path)
        /\ \A h \in Hops(p) : path[h].isd_as = cosigners[h - p.start + 1]

LEMMA ListIs ==
    ASSUME NEW L \in Nat, NEW S, NEW s \in [1..L -> S]
    PROVE  s \in Seq(S) /\ Len(s) = L
  BY LenProperties

LEMMA SubSeqAt ==
    ASSUME NEW S, NEW s \in Seq(S), NEW m \in 1..Len(s), NEW n \in m..Len(s),
           NEW k \in 1..(n - m + 1)
    PROVE  SubSeq(s, m, n)[k] = s[m + k - 1]
  OBVIOUS

LEMMA PlacedIs ==
    ASSUME NEW path \in Seq(PathHop), NEW claim \in Claim, NEW p \in Placed(path, claim)
    PROVE  PlacedAt(path, claim, p)
<1>. DEFINE c == Cosigners[claim.sla]
            L == Len(path)
            N == Len(c)
            as == ASesOf(path)
<1>1. claim.sla \in SLAs
  BY DEF Claim
<1>2. N \in Nat \ {0} /\ DOMAIN c = 1..N /\ L \in Nat
  BY <1>1, CosignersAre
<1>3. PICK n \in 1..(L - N + 1) :
          /\ SubSeq(as, n, n + N - 1) = c
          /\ p = [start |-> n, end |-> n + N, id |-> claim.id, sla |-> claim.sla]
  BY DEF Placed
<1>4. as \in Seq(ASes) /\ Len(as) = L /\ \A k \in 1..L : as[k] = path[k].isd_as
  <2>1. DOMAIN path = 1..L /\ \A k \in 1..L : path[k] \in PathHop /\ path[k].isd_as \in ASes
    <3>1. DOMAIN path = 1..L /\ \A k \in 1..L : path[k] \in PathHop
      OBVIOUS
    <3>2. \A hop \in PathHop : hop.isd_as \in ASes
      BY DEF PathHop
    <3>. QED
      BY <3>1, <3>2
  <2>2. as = [k \in 1..L |-> path[k].isd_as]
    BY <2>1 DEF ASesOf
  <2>. HIDE DEF as
  <2>3. as \in [1..L -> ASes] /\ \A k \in 1..L : as[k] = path[k].isd_as
    BY <2>1, <2>2
  <2>. HIDE DEF L
  <2>4. L \in Nat
    BY <1>2
  <2>. QED
    BY <2>3, <2>4, ListIs
<1>. HIDE DEF N, L, as, c
<1>5. n \in 1..L /\ n + N - 1 \in n..L
  BY <1>2
<1>6. ASSUME NEW h \in n..(n + N - 1) PROVE as[h] = c[h - n + 1]
  <2>1. h - n + 1 \in 1..N /\ n + (h - n + 1) - 1 = h /\ n + N - 1 \in 1..L
    BY <1>2, <1>5
  <2>2. (n + N - 1) - n + 1 = N
    BY <1>2, <1>5
  <2>3. SubSeq(as, n, n + N - 1)[h - n + 1] = as[n + (h - n + 1) - 1]
    <3>1. n \in 1..Len(as) /\ n + N - 1 \in n..Len(as)
      BY <1>4, <1>5
    <3>2. h - n + 1 \in 1..((n + N - 1) - n + 1)
      BY <2>1, <2>2
    <3>. QED
      BY <1>4, <3>1, <3>2, SubSeqAt
  <2>. QED
    BY <1>3, <2>1, <2>3
<1>7. \A h \in Hops(p) : path[h].isd_as = c[h - n + 1]
  <2>1. Hops(p) = n..(n + N - 1)
    BY <1>3, <1>2 DEF Hops
  <2>2. \A h \in n..(n + N - 1) : h \in 1..L
    BY <1>2, <1>5
  <2>. QED
    BY <1>4, <1>6, <2>1, <2>2
<1>8. p.start = n /\ p.end = n + N /\ p.end - 1 = n + N - 1
  BY <1>2, <1>3
<1>. QED
  BY <1>3, <1>5, <1>7, <1>8 DEF PlacedAt, N, c, L

LEMMA PlacementsAre ==
    ASSUME NEW path \in Seq(PathHop), NEW claims, IsPortfolio(claims), NEW resolved
    PROVE  LET places == Placements(path, claims, resolved)
           IN  /\ Len(places) \in Nat /\ DOMAIN places = 1..Len(places)
               /\ \A i \in 1..Len(places) : \E n \in DOMAIN claims :
                      /\ claims[n].sla \in resolved
                      /\ PlacedAt(path, claims[n], places[i])
<1>. DEFINE usable == {n \in DOMAIN claims : claims[n].sla \in resolved}
            marks == UNION {Placed(path, claims[n]) \X {n} : n \in usable}
            Before2(x, y) == Before(x[1], y[1]) \/ (x[1] = y[1] /\ x[2] < y[2])
            R == {p \in marks \X marks : Before2(p[1], p[2])}
            order == SortedBy(marks, Before2)
            places == [i \in DOMAIN order |-> order[i][1]]
            C == Cardinality(marks)
            place(x) == Cardinality({y \in marks : y = x \/ Before2(y, x)})
<1>1. Placements(path, claims, resolved) = places
  BY DEF Placements
<1>2. /\ claims \in Seq(Claim) /\ Len(claims) \in Nat /\ DOMAIN claims = 1..Len(claims)
      /\ \A n \in DOMAIN claims : claims[n] \in Claim
      /\ Len(path) \in Nat
  BY DEF IsPortfolio
\* Marks name their claims and their places.
<1>3. ASSUME NEW x \in marks
      PROVE  /\ x = <<x[1], x[2]>> /\ x[2] \in usable /\ x[2] \in Int
             /\ PlacedAt(path, claims[x[2]], x[1])
  <2>1. PICK n \in usable : x \in Placed(path, claims[n]) \X {n}
    OBVIOUS
  <2>2. x = <<x[1], x[2]>> /\ x[2] = n /\ x[1] \in Placed(path, claims[n])
    BY <2>1
  <2>3. n \in DOMAIN claims /\ n \in Int
    BY <1>2
  <2>4. PlacedAt(path, claims[n], x[1])
    BY <1>2, <2>2, <2>3, PlacedIs
  <2>. QED
    BY <2>2, <2>3, <2>4
<1>4. ASSUME NEW x \in marks
      PROVE  x[1].start \in Int /\ x[1].end \in Int /\ x[1].id \in Int
  <2>1. PlacedAt(path, claims[x[2]], x[1]) /\ claims[x[2]] \in Claim
    <3>1. PlacedAt(path, claims[x[2]], x[1]) /\ x[2] \in DOMAIN claims
      BY <1>3
    <3>. HIDE DEF marks
    <3>. QED
      BY <1>2, <3>1
  <2>2. x[1].id = claims[x[2]].id /\ claims[x[2]].id \in Int
    <3>1. x[1].id = claims[x[2]].id
      BY <2>1 DEF PlacedAt
    <3>2. \A claim \in Claim : claim.id \in ClaimIds
      BY DEF Claim
    <3>3. \A k \in ClaimIds : k \in Int
      BY RoutingAssumption
    <3>. QED
      BY <2>1, <3>1, <3>2, <3>3, Zenon
  <2>3. claims[x[2]].sla \in SLAs
    BY <2>1 DEF Claim
  <2>4. Len(Cosigners[claims[x[2]].sla]) \in Int
    BY <2>3, CosignersAre
  <2>5. x[1].start \in Int /\ x[1].end = x[1].start + Len(Cosigners[claims[x[2]].sla])
    BY <1>2, <2>1 DEF PlacedAt
  <2>. QED
    BY <2>2, <2>4, <2>5
<1>5. ASSUME NEW x \in marks, NEW y \in marks,
             x[1].start = y[1].start, x[1].end = y[1].end, x[1].id = y[1].id
      PROVE  x[1] = y[1]
  <2>1. /\ PlacedAt(path, claims[x[2]], x[1]) /\ PlacedAt(path, claims[y[2]], y[1])
        /\ x[2] \in DOMAIN claims /\ y[2] \in DOMAIN claims
    BY <1>3
  <2>2. claims[x[2]].id = x[1].id /\ claims[y[2]].id = y[1].id
    BY <2>1 DEF PlacedAt
  <2>3. claims[x[2]] = claims[y[2]]
    BY <1>5, <2>1, <2>2 DEF IsPortfolio
  <2>. QED
    BY <1>5, <2>1, <2>3 DEF PlacedAt
<1>6. IsFiniteSet(marks)
  <2>. DEFINE U == (1..Len(path)) \X (1..Len(claims))
              at == [u \in U |-> <<[start |-> u[1],
                                    end |-> u[1] + Len(Cosigners[claims[u[2]].sla]),
                                    id |-> claims[u[2]].id, sla |-> claims[u[2]].sla], u[2]>>]
              I == {at[u] : u \in U}
  <2>1. IsFiniteSet(U)
    <3>1. IsFiniteSet(1..Len(path)) /\ IsFiniteSet(1..Len(claims))
      BY <1>2, FS_Interval
    <3>. QED
      BY <3>1, FS_Product
  <2>2. IsFiniteSet(I)
    <3>. HIDE DEF U
    <3>1. DOMAIN at = U
      OBVIOUS
    <3>. HIDE DEF at
    <3>2. at \in Surjection(U, I)
      <4>1. at \in [U -> I]
        BY <3>1 DEF at
      <4>2. \A y \in I : \E u \in U : at[u] = y
        OBVIOUS
      <4>. QED
        BY <4>1, <4>2 DEF Surjection
    <3>. HIDE DEF I
    <3>. QED
      BY <2>1, <3>2, FS_Surjection
  <2>3. ASSUME NEW x \in marks PROVE x \in I
    <3>1. x = <<x[1], x[2]>> /\ x[2] \in 1..Len(claims) /\ PlacedAt(path, claims[x[2]], x[1])
      BY <1>2, <1>3
    <3>2. x[1].start \in 1..Len(path)
      BY <3>1 DEF PlacedAt
    <3>3. x[1] = [start |-> x[1].start,
                  end |-> x[1].start + Len(Cosigners[claims[x[2]].sla]),
                  id |-> claims[x[2]].id, sla |-> claims[x[2]].sla]
      BY <3>1 DEF PlacedAt
    <3>. DEFINE u == <<x[1].start, x[2]>>
    <3>4. u \in U /\ u[1] = x[1].start /\ u[2] = x[2]
      BY <3>1, <3>2
    <3>5. at[u] = x
      <4>. HIDE DEF u, U, marks
      <4>1. at[u] = <<[start |-> u[1],
                       end |-> u[1] + Len(Cosigners[claims[u[2]].sla]),
                       id |-> claims[u[2]].id, sla |-> claims[u[2]].sla], u[2]>>
        BY <3>4
      <4>. HIDE DEF at
      <4>. QED
        BY <3>1, <3>3, <3>4, <4>1, Zenon
    <3>. QED
      BY <3>4, <3>5
  <2>4. marks \subseteq I
    <3>. HIDE DEF marks, I
    <3>. QED
      BY <2>3
  <2>. HIDE DEF marks, I
  <2>. QED
    BY <2>2, <2>4, FS_Subset
<1>7. \A x, y \in marks : <<x, y>> \in R <=> Before2(x, y)
  <2>. HIDE DEF marks, Before2
  <2>. QED
    BY Zenon
<1>. HIDE DEF marks, R
<1>8. Orders(R, marks)
  <2>1. \A x \in marks : ~Before2(x, x)
    BY <1>3, <1>4 DEF Before
  <2>2. ASSUME NEW x \in marks, NEW y \in marks, x # y PROVE Before2(x, y) \/ Before2(y, x)
    <3>1. CASE x[1] = y[1]
      <4>1. x[2] # y[2] /\ x[2] \in Int /\ y[2] \in Int
        BY <1>3, <2>2, <3>1
      <4>. QED
        BY <3>1, <4>1
    <3>2. CASE x[1] # y[1]
      <4>1. ~(x[1].start = y[1].start /\ x[1].end = y[1].end /\ x[1].id = y[1].id)
        BY <1>5, <3>2
      <4>. QED
        BY <1>4, <4>1 DEF Before
    <3>. QED
      BY <3>1, <3>2
  <2>3. ASSUME NEW x \in marks, NEW y \in marks, NEW z \in marks, Before2(x, y), Before2(y, z)
        PROVE  Before2(x, z)
    <3>1. /\ x[1].start \in Int /\ x[1].end \in Int /\ x[1].id \in Int /\ x[2] \in Int
          /\ y[1].start \in Int /\ y[1].end \in Int /\ y[1].id \in Int /\ y[2] \in Int
          /\ z[1].start \in Int /\ z[1].end \in Int /\ z[1].id \in Int /\ z[2] \in Int
      BY <1>3, <1>4
    <3>2. CASE Before(x[1], y[1]) /\ Before(y[1], z[1])
      <4>1. Before(x[1], z[1])
        BY <3>1, <3>2 DEF Before
      <4>. QED
        BY <4>1
    <3>3. CASE x[1] = y[1] /\ x[2] < y[2]
      BY <2>3, <3>1, <3>3
    <3>4. CASE y[1] = z[1] /\ y[2] < z[2]
      BY <2>3, <3>1, <3>4
    <3>. QED
      BY <2>3, <3>2, <3>3, <3>4
  <2>. HIDE DEF Before2
  <2>. QED
    BY <1>7, <2>1, <2>2, <2>3 DEF Orders
<1>. HIDE DEF Before2
<1>9. order = InOrder(R, marks)
  <2>1. \A x \in marks : PlaceOf(R, marks, x) = place(x)
    <3>1. \A x \in marks : {y \in marks : y = x \/ <<y, x>> \in R}
                             = {y \in marks : y = x \/ Before2(y, x)}
      BY <1>7
    <3>. QED
      BY <3>1 DEF PlaceOf
  <2>2. \A n \in 1..C : (CHOOSE x \in marks : PlaceOf(R, marks, x) = n)
                          = (CHOOSE x \in marks : place(x) = n)
    <3>. SUFFICES ASSUME NEW n \in 1..C
                  PROVE  (CHOOSE x \in marks : PlaceOf(R, marks, x) = n)
                           = (CHOOSE x \in marks : place(x) = n)
      OBVIOUS
    <3>1. \A x : (x \in marks /\ PlaceOf(R, marks, x) = n) <=> (x \in marks /\ place(x) = n)
      BY <2>1
    <3>. HIDE DEF place
    <3>. QED
      BY <3>1
  <2>. QED
    BY <2>2 DEF SortedBy, InOrder
<1>. HIDE DEF order
<1>10. order \in [1..C -> marks] /\ C \in Nat
  BY <1>6, <1>8, <1>9, InOrderLists, FS_CardinalityType DEF Lists
<1>11. places \in [1..C -> {x[1] : x \in marks}]
  <2>. HIDE DEF C
  <2>. QED
    BY <1>10
<1>12. Len(places) = C /\ DOMAIN places = 1..C
  <2>. HIDE DEF places, C
  <2>. QED
    BY <1>10, <1>11, LenProperties
<1>13. ASSUME NEW i \in 1..C
       PROVE  \E n \in DOMAIN claims : claims[n].sla \in resolved
                                       /\ PlacedAt(path, claims[n], places[i])
  <2>1. order[i] \in marks /\ places[i] = order[i][1]
    <3>. HIDE DEF C
    <3>. QED
      BY <1>10
  <2>. HIDE DEF places
  <2>. QED
    BY <1>3, <2>1
<1>. HIDE DEF places, C
<1>. QED
  BY <1>1, <1>10, <1>12, <1>13

-----------------------------------------------------------------------------
(* _enumerate_schemes: what the recursion makes of the placements.         *)

Slots(places) == SUBSET (1..Len(places))

Free(places, i, chosen) == \A j \in chosen : Disjoint(places[i], places[j])

\* What the recursion does at the placement i, if it does rec at later ones.
Visit(places, rec, i) ==
    [chosen \in SUBSET (1..Len(places)) |-> [out \in Seq(SUBSET (1..Len(places))) |->
        IF Len(out) >= MaxSchemes THEN out
        ELSE IF i > Len(places) THEN (IF chosen = {} THEN out ELSE Append(out, chosen))
        ELSE IF Free(places, i, chosen)
             THEN rec[i + 1][chosen \cup {i}][rec[i + 1][chosen][out]]
             ELSE rec[i + 1][chosen][out]]]

Enumerates(places, rec) == rec = [i \in 1..(Len(places) + 1) |-> Visit(places, rec, i)]

LEMMA EnumerationExists ==
    ASSUME NEW places, Len(places) \in Nat
    PROVE  \E rec : Enumerates(places, rec)
<1>. DEFINE L == Len(places)
            From(n) == {i \in 1..(L + 1) : i >= L + 1 - n}
            S == {n \in Nat : \E r : \A i \in From(n) : r[i] = Visit(places, r, i)}
<1>1. 0 \in S
  <2>. DEFINE r == [i \in 1..(L + 1) |-> Visit(places, <<>>, i)]
  <2>1. ASSUME NEW i \in From(0) PROVE r[i] = Visit(places, r, i)
    <3>1. i = L + 1 /\ i > L
      OBVIOUS
    <3>2. r[i] = Visit(places, <<>>, i)
      OBVIOUS
    <3>3. \A q : Visit(places, q, i) =
                   [chosen \in SUBSET (1..L) |-> [out \in Seq(SUBSET (1..L)) |->
                       IF Len(out) >= MaxSchemes THEN out
                       ELSE IF chosen = {} THEN out ELSE Append(out, chosen)]]
      BY <3>1 DEF Visit
    <3>. QED
      BY <3>2, <3>3
  <2>. HIDE DEF r, From
  <2>. QED
    BY <2>1
<1>2. ASSUME NEW n \in Nat, n \in S PROVE n + 1 \in S
  <2>1. PICK r : \A i \in From(n) : r[i] = Visit(places, r, i)
    BY <1>2
  <2>. DEFINE q == [i \in 1..(L + 1) |-> IF i \in From(n) THEN r[i] ELSE Visit(places, r, i)]
  <2>2. ASSUME NEW i \in From(n + 1) PROVE q[i] = Visit(places, q, i)
    <3>1. q[i] = Visit(places, r, i)
      BY <2>1
    <3>2. i <= L => i + 1 \in From(n)
      OBVIOUS
    <3>3. i <= L => q[i + 1] = r[i + 1]
      BY <3>2
    <3>. HIDE DEF q
    <3>4. Visit(places, q, i) = Visit(places, r, i)
      <4>1. CASE i <= L
        BY <3>3, <4>1 DEF Visit
      <4>2. CASE i > L
        BY <4>2 DEF Visit
      <4>. QED
        BY <4>1, <4>2
    <3>. QED
      BY <3>1, <3>4
  <2>. HIDE DEF q, From
  <2>. QED
    BY <2>2
<1>3. \A n \in Nat : n \in S
  <2>. HIDE DEF S
  <2>. QED
    BY <1>1, <1>2, Induction
<1>4. L \in S
  BY <1>3
<1>5. PICK r : \A i \in From(L) : r[i] = Visit(places, r, i)
  BY <1>4
<1>. DEFINE q == [i \in 1..(L + 1) |-> r[i]]
<1>6. ASSUME NEW i \in 1..(L + 1) PROVE q[i] = Visit(places, q, i)
  <2>1. i \in From(L) /\ (i <= L => i + 1 \in 1..(L + 1))
    OBVIOUS
  <2>2. q[i] = Visit(places, r, i) /\ (i <= L => q[i + 1] = r[i + 1])
    BY <1>5, <2>1
  <2>. HIDE DEF q
  <2>3. Visit(places, q, i) = Visit(places, r, i)
    BY <2>2 DEF Visit
  <2>. QED
    BY <2>2, <2>3
<1>7. Enumerates(places, q)
  <2>1. q = [i \in 1..(L + 1) |-> q[i]]
    OBVIOUS
  <2>. HIDE DEF q
  <2>. QED
    BY <1>6, <2>1 DEF Enumerates
<1>. QED
  BY <1>7

LEMMA EnumerationIs ==
    ASSUME NEW places, Len(places) \in Nat
    PROVE  \E rec : Enumerates(places, rec) /\ EnumerateSchemes(places) = rec[1][{}][<<>>]
<1>. DEFINE h == CHOOSE rec : Enumerates(places, rec)
<1>1. EnumerateSchemes(places) = h[1][{}][<<>>]
  BY DEF EnumerateSchemes, Enumerates, Visit, Free
<1>2. Enumerates(places, h)
  BY EnumerationExists
<1>. HIDE DEF h
<1>. QED
  BY <1>1, <1>2

\* Sets of placements that share no hop, in the order in which they are tried.
Apart(places, set) == \A i, j \in set : i # j => Disjoint(places[i], places[j])

Schemes(places) == {set \in (SUBSET (1..Len(places))) \ {{}} : Apart(places, set)}

\* Those that have chosen among the placements before i.
Chosen(places, i, chosen) == {set \in Schemes(places) : set \cap (1..(i - 1)) = chosen}

\* res is out and the schemes of the set S, in order, up to the cap.
Adds(places, S, out, res) ==
    LET new == {k \in 1..Len(res) : k > Len(out)}
    IN  /\ res \in Seq(SUBSET (1..Len(places))) /\ Len(out) <= Len(res)
        /\ \A k \in 1..Len(out) : res[k] = out[k]
        /\ Len(out) >= MaxSchemes => res = out
        /\ Len(out) < MaxSchemes => Len(res) <= MaxSchemes
        /\ \A k \in new : res[k] \in S
        /\ \A j, k \in new : j < k => Sooner(res[j], res[k])
        /\ \A set \in S : \/ \E k \in new : res[k] = set
                          \/ Len(res) >= MaxSchemes /\ \A k \in new : Sooner(res[k], set)

\* First the schemes of S, and then those of T, which are tried later.
LEMMA AddsMore ==
    ASSUME NEW places, NEW S, NEW T, NEW out, NEW mid, NEW res,
           out \in Seq(SUBSET (1..Len(places))),
           Adds(places, S, out, mid), Adds(places, T, mid, res),
           \A a \in S, b \in T : Sooner(a, b)
    PROVE  Adds(places, S \cup T, out, res)
<1>. DEFINE new(a, b) == {k \in 1..Len(b) : k > Len(a)}
            Q == Seq(SUBSET (1..Len(places)))
<1>1. /\ mid \in Q /\ res \in Q
      /\ Len(out) \in Nat /\ Len(mid) \in Nat /\ Len(res) \in Nat /\ MaxSchemes \in Nat
      /\ Len(out) <= Len(mid) /\ Len(mid) <= Len(res)
  <2>1. mid \in Q /\ res \in Q /\ out \in Q /\ Len(out) <= Len(mid) /\ Len(mid) <= Len(res)
    BY DEF Adds
  <2>. QED
    BY <2>1, RoutingAssumption
<1>2. /\ \A k \in 1..Len(out) : mid[k] = out[k]
      /\ \A k \in 1..Len(mid) : res[k] = mid[k]
  BY DEF Adds
<1>3. /\ Len(out) >= MaxSchemes => mid = out
      /\ Len(mid) >= MaxSchemes => res = mid
      /\ Len(out) < MaxSchemes => Len(mid) <= MaxSchemes
      /\ Len(mid) < MaxSchemes => Len(res) <= MaxSchemes
  BY DEF Adds
<1>4. /\ \A k \in new(out, mid) : mid[k] \in S
      /\ \A k \in new(mid, res) : res[k] \in T
      /\ \A j, k \in new(out, mid) : j < k => Sooner(mid[j], mid[k])
      /\ \A j, k \in new(mid, res) : j < k => Sooner(res[j], res[k])
  BY DEF Adds
<1>5. /\ \A set \in S : \/ \E k \in new(out, mid) : mid[k] = set
                        \/ Len(mid) >= MaxSchemes /\ \A k \in new(out, mid) : Sooner(mid[k], set)
      /\ \A set \in T : \/ \E k \in new(mid, res) : res[k] = set
                        \/ Len(res) >= MaxSchemes /\ \A k \in new(mid, res) : Sooner(res[k], set)
  BY DEF Adds
<1>6. \A k : k \in new(out, res) <=> (k \in new(out, mid) \/ k \in new(mid, res))
  BY <1>1
<1>7. \A k \in new(out, mid) : k \in 1..Len(mid) /\ res[k] = mid[k]
  BY <1>1, <1>2
<1>8. Len(out) <= Len(res) /\ \A k \in 1..Len(out) : res[k] = out[k]
  <2>1. \A k \in 1..Len(out) : k \in 1..Len(mid)
    BY <1>1
  <2>. QED
    BY <1>1, <1>2, <2>1
<1>9. /\ Len(out) >= MaxSchemes => res = out
      /\ Len(out) < MaxSchemes => Len(res) <= MaxSchemes
  BY <1>1, <1>3
<1>10. Len(mid) >= MaxSchemes => /\ Len(res) >= MaxSchemes
                                 /\ \A k : k \notin new(mid, res)
  BY <1>1, <1>3
<1>11. \A j \in new(out, mid), k \in new(mid, res) : j < k
  BY <1>1
<1>. HIDE DEF new
<1>12. \A k \in new(out, res) : res[k] \in S \cup T
  BY <1>4, <1>6, <1>7
<1>13. ASSUME NEW j \in new(out, res), NEW k \in new(out, res), j < k
       PROVE  Sooner(res[j], res[k])
  <2>1. CASE j \in new(out, mid) /\ k \in new(out, mid)
    BY <1>4, <1>7, <1>13, <2>1
  <2>2. CASE j \in new(mid, res) /\ k \in new(mid, res)
    BY <1>4, <1>13, <2>2
  <2>3. CASE j \in new(out, mid) /\ k \in new(mid, res)
    BY <1>4, <1>7, <2>3
  <2>4. CASE j \in new(mid, res) /\ k \in new(out, mid)
    <3>1. k < j
      BY <1>11, <2>4
    <3>2. j \in Nat /\ k \in Nat
      BY <1>1, <2>4 DEF new
    <3>. QED
      BY <1>13, <3>1, <3>2
  <2>. QED
    BY <1>6, <2>1, <2>2, <2>3, <2>4
<1>14. ASSUME NEW set \in S
       PROVE  \/ \E k \in new(out, res) : res[k] = set
              \/ Len(res) >= MaxSchemes /\ \A k \in new(out, res) : Sooner(res[k], set)
  BY <1>5, <1>6, <1>7, <1>10
<1>15. ASSUME NEW set \in T
       PROVE  \/ \E k \in new(out, res) : res[k] = set
              \/ Len(res) >= MaxSchemes /\ \A k \in new(out, res) : Sooner(res[k], set)
  <2>1. \A k \in new(out, mid) : Sooner(res[k], set)
    BY <1>4, <1>7
  <2>. QED
    BY <1>5, <1>6, <2>1
<1>. QED
  BY <1>1, <1>8, <1>9, <1>12, <1>13, <1>14, <1>15 DEF Adds, new

\* From the placement i on, the recursion adds the schemes with what was chosen.
LEMMA EnumerationAdds ==
    ASSUME NEW places, Len(places) \in Nat, NEW rec, Enumerates(places, rec)
    PROVE  \A i \in 1..(Len(places) + 1) :
               \A chosen \in SUBSET (1..(i - 1)), out \in Seq(SUBSET (1..Len(places))) :
                   Apart(places, chosen) =>
                       Adds(places, Chosen(places, i, chosen), out, rec[i][chosen][out])
<1>. DEFINE L == Len(places)
            Q == Seq(SUBSET (1..L))
            Right(i) == \A chosen \in SUBSET (1..(i - 1)), out \in Q :
                            Apart(places, chosen) =>
                                Adds(places, Chosen(places, i, chosen), out, rec[i][chosen][out])
            S == {n \in Nat : n <= L => Right(L + 1 - n)}
<1>1. \A i \in 1..(L + 1), chosen \in SUBSET (1..L), out \in Q :
          rec[i][chosen][out] =
              IF Len(out) >= MaxSchemes THEN out
              ELSE IF i > L THEN (IF chosen = {} THEN out ELSE Append(out, chosen))
              ELSE IF Free(places, i, chosen)
                   THEN rec[i + 1][chosen \cup {i}][rec[i + 1][chosen][out]]
                   ELSE rec[i + 1][chosen][out]
  <2>1. \A i \in 1..(L + 1) : rec[i] = Visit(places, rec, i)
    BY Zenon DEF Enumerates
  <2>. SUFFICES ASSUME NEW i \in 1..(L + 1), NEW chosen \in SUBSET (1..L), NEW out \in Q
                PROVE  rec[i][chosen][out] =
                           IF Len(out) >= MaxSchemes THEN out
                           ELSE IF i > L THEN (IF chosen = {} THEN out ELSE Append(out, chosen))
                           ELSE IF Free(places, i, chosen)
                                THEN rec[i + 1][chosen \cup {i}][rec[i + 1][chosen][out]]
                                ELSE rec[i + 1][chosen][out]
    BY Zenon
  <2>2. rec[i] = Visit(places, rec, i)
    BY <2>1, Zenon
  <2>3. Visit(places, rec, i)[chosen][out] =
            IF Len(out) >= MaxSchemes THEN out
            ELSE IF i > L THEN (IF chosen = {} THEN out ELSE Append(out, chosen))
            ELSE IF Free(places, i, chosen)
                 THEN rec[i + 1][chosen \cup {i}][rec[i + 1][chosen][out]]
                 ELSE rec[i + 1][chosen][out]
    BY DEF Visit
  <2>. QED
    BY <2>2, <2>3, Zenon
<1>2. MaxSchemes \in Nat
  BY RoutingAssumption
\* When the cap is reached nothing more is added.
<1>3. ASSUME NEW s, NEW out \in Q, Len(out) >= MaxSchemes PROVE Adds(places, s, out, out)
  <2>1. {k \in 1..Len(out) : k > Len(out)} = {} /\ Len(out) <= Len(out)
    OBVIOUS
  <2>. QED
    BY <1>2, <1>3, <2>1 DEF Adds
<1>4. ASSUME NEW chosen \in SUBSET (1..L), NEW out \in Q, Apart(places, chosen),
             Len(out) < MaxSchemes
      PROVE  Adds(places, Chosen(places, L + 1, chosen), out,
                  IF chosen = {} THEN out ELSE Append(out, chosen))
  <2>1. \A set \in Schemes(places) : set \cap (1..((L + 1) - 1)) = set
    <3>1. 1..((L + 1) - 1) = 1..L
      OBVIOUS
    <3>. QED
      BY <3>1 DEF Schemes
  <2>2. Chosen(places, L + 1, chosen) = IF chosen = {} THEN {} ELSE {chosen}
    <3>1. Chosen(places, L + 1, chosen) = {set \in Schemes(places) : set = chosen}
      BY <2>1 DEF Chosen
    <3>2. chosen \in Schemes(places) <=> chosen # {}
      BY <1>4 DEF Schemes
    <3>. QED
      BY <3>1, <3>2
  <2>3. CASE chosen = {}
    <3>1. {k \in 1..Len(out) : k > Len(out)} = {} /\ Len(out) <= Len(out)
      OBVIOUS
    <3>. QED
      BY <1>2, <1>4, <2>2, <2>3, <3>1 DEF Adds
  <2>4. CASE chosen # {}
    <3>. DEFINE res == Append(out, chosen)
    <3>1. /\ res \in Q /\ Len(res) = Len(out) + 1 /\ res[Len(out) + 1] = chosen
          /\ \A k \in 1..Len(out) : res[k] = out[k]
      OBVIOUS
    <3>. HIDE DEF res
    <3>2. {k \in 1..Len(res) : k > Len(out)} = {Len(out) + 1} /\ Len(out) \in Nat
      BY <3>1
    <3>3. Len(res) <= MaxSchemes
      BY <1>2, <1>4, <3>1, <3>2
    <3>4. Adds(places, {chosen}, out, res)
      BY <1>2, <1>4, <3>1, <3>2, <3>3 DEF Adds
    <3>. QED
      BY <2>2, <2>4, <3>4 DEF res
  <2>. QED
    BY <2>3, <2>4
<1>5. 0 \in S
  <2>. SUFFICES ASSUME NEW chosen \in SUBSET (1..((L + 1) - 1)), NEW out \in Q,
                       Apart(places, chosen)
                PROVE  Adds(places, Chosen(places, L + 1, chosen), out, rec[L + 1][chosen][out])
    OBVIOUS
  <2>1. /\ chosen \in SUBSET (1..L) /\ L + 1 \in 1..(L + 1) /\ L + 1 > L
        /\ Len(out) >= MaxSchemes \/ Len(out) < MaxSchemes
    BY <1>2
  <2>2. rec[L + 1][chosen][out] =
            IF Len(out) >= MaxSchemes THEN out
            ELSE IF chosen = {} THEN out ELSE Append(out, chosen)
    BY <1>1, <2>1
  <2>3. CASE Len(out) >= MaxSchemes
    BY <1>3, <2>2, <2>3
  <2>4. CASE Len(out) < MaxSchemes
    <3>1. ~(Len(out) >= MaxSchemes)
      BY <1>2, <2>4
    <3>2. Adds(places, Chosen(places, L + 1, chosen), out,
               IF chosen = {} THEN out ELSE Append(out, chosen))
      BY <1>4, <2>1, <2>4
    <3>. QED
      BY <2>2, <3>1, <3>2
  <2>. QED
    BY <2>1, <2>3, <2>4
<1>6. ASSUME NEW n \in Nat, n \in S PROVE n + 1 \in S
  <2>. HIDE DEF Right
  <2>. SUFFICES ASSUME n + 1 <= L PROVE Right(L + 1 - (n + 1))
    OBVIOUS
  <2>. DEFINE i == L + 1 - (n + 1)
  <2>1. i \in 1..L /\ i + 1 = L + 1 - n /\ i \in 1..(L + 1) /\ i + 1 \in 1..(L + 1) /\ ~(i > L)
    OBVIOUS
  <2>2. Right(i + 1)
    BY <1>6, <2>1
  <2>. HIDE DEF i
  <2>. USE DEF Right
  <2>. SUFFICES ASSUME NEW chosen \in SUBSET (1..(i - 1)), NEW out \in Q, Apart(places, chosen)
                PROVE  Adds(places, Chosen(places, i, chosen), out, rec[i][chosen][out])
    BY DEF i
  <2>. DEFINE without == Chosen(places, i + 1, chosen)
              with == Chosen(places, i + 1, chosen \cup {i})
              mid == rec[i + 1][chosen][out]
  <2>3. /\ chosen \in SUBSET (1..L) /\ chosen \in SUBSET (1..((i + 1) - 1))
        /\ chosen \cup {i} \in SUBSET (1..((i + 1) - 1)) /\ i \notin chosen
    BY <2>1
  <2>4. Chosen(places, i, chosen) = without \cup with
    <3>1. 1..((i + 1) - 1) = (1..(i - 1)) \cup {i}
      BY <2>1
    <3>2. \A set : set \cap (1..(i - 1)) = chosen <=>
                       \/ set \cap (1..((i + 1) - 1)) = chosen
                       \/ set \cap (1..((i + 1) - 1)) = chosen \cup {i}
      <4>1. i \notin 1..(i - 1)
        BY <2>1
      <4>. QED
        BY <2>3, <3>1, <4>1
    <3>. QED
      BY <3>2 DEF Chosen
  <2>5. ASSUME NEW a \in without, NEW b \in with PROVE Sooner(a, b)
    <3>1. a \cap (1..((i + 1) - 1)) = chosen /\ b \cap (1..((i + 1) - 1)) = chosen \cup {i}
      BY DEF Chosen
    <3>2. i \in 1..((i + 1) - 1) /\ \A j \in 1..(i - 1) : j \in 1..((i + 1) - 1) /\ j # i
      BY <2>1
    <3>3. i \in b \ a
      BY <2>3, <3>1, <3>2
    <3>4. \A j \in 1..(i - 1) : j \in a <=> j \in b
      BY <3>1, <3>2
    <3>. QED
      BY <3>3, <3>4 DEF Sooner
  <2>6. Adds(places, without, out, mid)
    BY <2>2, <2>3
  <2>7. CASE Len(out) >= MaxSchemes
    <3>1. rec[i][chosen][out] = out
      BY <1>1, <2>1, <2>3, <2>7
    <3>. QED
      BY <1>3, <2>7, <3>1
  <2>8. CASE ~(Len(out) >= MaxSchemes) /\ ~Free(places, i, chosen)
    <3>1. rec[i][chosen][out] = mid
      BY <1>1, <2>1, <2>3, <2>8
    <3>2. with = {}
      <4>1. ASSUME NEW set \in with PROVE FALSE
        <5>1. PICK j \in chosen : ~Disjoint(places[i], places[j])
          BY <2>8 DEF Free
        <5>2. i \in set /\ j \in set /\ i # j /\ Apart(places, set)
          BY <2>3 DEF Chosen, Schemes
        <5>. QED
          BY <5>1, <5>2 DEF Apart
      <4>. QED
        BY <4>1
    <3>. HIDE DEF mid, without, with
    <3>. QED
      BY <2>4, <2>6, <3>1, <3>2
  <2>9. CASE ~(Len(out) >= MaxSchemes) /\ Free(places, i, chosen)
    <3>1. rec[i][chosen][out] = rec[i + 1][chosen \cup {i}][mid]
      BY <1>1, <2>1, <2>3, <2>9
    <3>2. mid \in Q
      BY <2>6 DEF Adds
    <3>3. Apart(places, chosen \cup {i})
      BY <2>9 DEF Apart, Free, Disjoint
    <3>4. Adds(places, with, mid, rec[i + 1][chosen \cup {i}][mid])
      BY <2>2, <2>3, <3>2, <3>3
    <3>. HIDE DEF mid, without, with
    <3>5. Adds(places, without \cup with, out, rec[i + 1][chosen \cup {i}][mid])
      BY <2>5, <2>6, <3>4, AddsMore
    <3>. QED
      BY <2>4, <3>1, <3>5
  <2>. QED
    BY <2>7, <2>8, <2>9
<1>7. \A n \in Nat : n \in S
  <2>. HIDE DEF S
  <2>. QED
    BY <1>5, <1>6, Induction
<1>8. ASSUME NEW i \in 1..(L + 1) PROVE Right(i)
  <2>1. L + 1 - i \in Nat /\ L + 1 - i <= L /\ L + 1 - (L + 1 - i) = i
    OBVIOUS
  <2>2. L + 1 - i \in S
    BY <1>7, <2>1
  <2>. HIDE DEF Right
  <2>. QED
    BY <2>1, <2>2
<1>. QED
  BY <1>8

\* All schemes, in the order in which they are tried, up to the cap.
LEMMA EnumerationGives ==
    ASSUME NEW places, Len(places) \in Nat
    PROVE  Adds(places, Schemes(places), <<>>, EnumerateSchemes(places))
<1>1. PICK rec : Enumerates(places, rec) /\ EnumerateSchemes(places) = rec[1][{}][<<>>]
  BY EnumerationIs
<1>2. /\ {} \in SUBSET (1..(1 - 1)) /\ <<>> \in Seq(SUBSET (1..Len(places)))
      /\ Apart(places, {}) /\ 1 \in 1..(Len(places) + 1)
  BY DEF Apart
<1>3. Adds(places, Chosen(places, 1, {}), <<>>, rec[1][{}][<<>>])
  BY <1>1, <1>2, EnumerationAdds
<1>4. Chosen(places, 1, {}) = Schemes(places)
  BY DEF Chosen
<1>. QED
  BY <1>1, <1>3, <1>4

\* The order in which the schemes are tried.
LEMMA SoonerOrders ==
    ASSUME NEW L \in Nat, NEW S, S \subseteq SUBSET (1..L), NEW R,
           \A a, b \in S : <<a, b>> \in R <=> Sooner(a, b)
    PROVE  Orders(R, S)
<1>1. \A a \in S : ~Sooner(a, a)
  BY DEF Sooner
<1>2. ASSUME NEW a \in S, NEW b \in S, a # b PROVE Sooner(a, b) \/ Sooner(b, a)
  <2>. DEFINE D == (a \ b) \cup (b \ a)
  <2>1. D \subseteq Nat /\ D # {}
    BY <1>2
  <2>2. PICK i \in D : \A j \in D : i <= j
    <3>. HIDE DEF D
    <3>. QED
      BY <2>1, LeastOf
  <2>3. \A j \in 1..(i - 1) : j \notin D
    BY <2>1, <2>2
  <2>. QED
    BY <2>2, <2>3 DEF Sooner
<1>3. ASSUME NEW a \in S, NEW b \in S, NEW c \in S, Sooner(a, b), Sooner(b, c)
      PROVE  Sooner(a, c)
  <2>1. PICK i \in b \ a : \A j \in 1..(i - 1) : j \in a <=> j \in b
    BY <1>3 DEF Sooner
  <2>2. PICK k \in c \ b : \A j \in 1..(k - 1) : j \in b <=> j \in c
    BY <1>3 DEF Sooner
  <2>3. i \in Nat \ {0} /\ k \in Nat \ {0}
    OBVIOUS
  <2>4. CASE i < k
    <3>1. i \in 1..(k - 1) /\ \A j \in 1..(i - 1) : j \in 1..(k - 1)
      BY <2>3, <2>4
    <3>. QED
      BY <2>1, <2>2, <3>1 DEF Sooner
  <2>5. CASE k < i
    <3>1. k \in 1..(i - 1) /\ \A j \in 1..(k - 1) : j \in 1..(i - 1)
      BY <2>3, <2>5
    <3>. QED
      BY <2>1, <2>2, <3>1 DEF Sooner
  <2>6. i # k
    BY <2>1, <2>2
  <2>. QED
    BY <2>3, <2>4, <2>5, <2>6
<1>. QED
  BY <1>1, <1>2, <1>3 DEF Orders

\* The schemes that are offered are the first ones in order.
LEMMA EnumerationIsPrefix ==
    ASSUME NEW places, Len(places) \in Nat
    PROVE  LET order == SortedBy(Schemes(places), Sooner)
               count == Min({MaxSchemes, Len(order)})
           IN  /\ EnumerateSchemes(places) = [i \in 1..count |-> order[i]]
               /\ count \in Nat /\ count <= MaxSchemes
               /\ \A i \in 1..count : order[i] \in Schemes(places)
<1>. DEFINE S == Schemes(places)
            L == Len(places)
            R == {p \in S \X S : Sooner(p[1], p[2])}
            C == Cardinality(S)
            res == EnumerateSchemes(places)
            K == Len(res)
            order == SortedBy(S, Sooner)
            place(x) == Cardinality({y \in S : y = x \/ Sooner(y, x)})
<1>1. S \subseteq SUBSET (1..L) /\ IsFiniteSet(S) /\ C \in Nat
  <2>1. S \subseteq SUBSET (1..L)
    BY DEF Schemes
  <2>2. IsFiniteSet(SUBSET (1..L))
    <3>1. IsFiniteSet(1..L)
      BY FS_Interval
    <3>. HIDE DEF L
    <3>. QED
      BY <3>1, FS_SUBSET, Zenon
  <2>. HIDE DEF S
  <2>3. IsFiniteSet(S)
    BY <2>1, <2>2, FS_Subset
  <2>. QED
    BY <2>1, <2>3, FS_CardinalityType
<1>2. \A a, b \in S : <<a, b>> \in R <=> Sooner(a, b)
  BY Zenon
<1>3. Adds(places, S, <<>>, res)
  BY EnumerationGives
<1>. HIDE DEF S, R, res
<1>4. Orders(R, S)
  BY <1>1, <1>2, SoonerOrders
<1>5. order = InOrder(R, S)
  <2>1. \A x \in S : PlaceOf(R, S, x) = place(x)
    <3>1. \A x \in S : {y \in S : y = x \/ <<y, x>> \in R} = {y \in S : y = x \/ Sooner(y, x)}
      BY <1>2
    <3>. QED
      BY <3>1 DEF PlaceOf
  <2>2. \A n : {x \in S : PlaceOf(R, S, x) = n} = {x \in S : place(x) = n}
    BY <2>1
  <2>3. \A n \in 1..C : (CHOOSE x \in S : PlaceOf(R, S, x) = n) = (CHOOSE x \in S : place(x) = n)
    <3>. SUFFICES ASSUME NEW n \in 1..C
                  PROVE  (CHOOSE x \in S : PlaceOf(R, S, x) = n) = (CHOOSE x \in S : place(x) = n)
      OBVIOUS
    <3>1. \A x : (x \in S /\ PlaceOf(R, S, x) = n) <=> (x \in S /\ place(x) = n)
      BY <2>1
    <3>. HIDE DEF place
    <3>. QED
      BY <3>1
  <2>. QED
    BY <2>3 DEF SortedBy, InOrder
<1>. HIDE DEF order, C, place
<1>6. order \in [1..C -> S] /\ \A m, n \in 1..C : order[m] = order[n] => m = n
  BY <1>1, <1>4, <1>5, InOrderLists DEF Lists, C
<1>7. Len(order) = C
  BY <1>1, <1>6, LenProperties
<1>8. /\ res \in Seq(SUBSET (1..L)) /\ K \in Nat /\ MaxSchemes \in Nat
      /\ K <= MaxSchemes
      /\ \A k \in 1..K : res[k] \in S
      /\ \A j, k \in 1..K : j < k => Sooner(res[j], res[k])
      /\ \A set \in S : \/ \E k \in 1..K : res[k] = set
                        \/ K >= MaxSchemes /\ \A k \in 1..K : Sooner(res[k], set)
  <2>1. res \in Seq(SUBSET (1..L)) /\ K \in Nat
    BY <1>3 DEF Adds
  <2>2. {k \in 1..K : k > Len(<<>>)} = 1..K /\ Len(<<>>) = 0
    BY <2>1
  <2>3. MaxSchemes \in Nat
    BY RoutingAssumption
  <2>4. 0 >= MaxSchemes => res = <<>>
    BY <1>3, <2>2 DEF Adds
  <2>5. 0 < MaxSchemes => K <= MaxSchemes
    BY <1>3, <2>2 DEF Adds
  <2>6. K <= MaxSchemes
    BY <2>3, <2>4, <2>5
  <2>. HIDE DEF K
  <2>7. /\ \A k \in 1..K : res[k] \in S
        /\ \A j, k \in 1..K : j < k => Sooner(res[j], res[k])
        /\ \A set \in S : \/ \E k \in 1..K : res[k] = set
                          \/ K >= MaxSchemes /\ \A k \in 1..K : Sooner(res[k], set)
    BY <1>3, <2>2 DEF Adds, K
  <2>. QED
    BY <2>1, <2>3, <2>6, <2>7
<1>. HIDE DEF K
<1>9. ListsFirst(res, R, S, K)
  <2>1. res \in [1..K -> S]
    BY <1>8 DEF K
  <2>2. \A m, n \in 1..K : m < n => <<res[m], res[n]>> \in R
    BY <1>2, <1>8
  <2>3. \A x \in S : (\E n \in 1..K : res[n] = x) \/ (\A n \in 1..K : <<res[n], x>> \in R)
    BY <1>2, <1>8
  <2>. QED
    BY <2>1, <2>2, <2>3 DEF ListsFirst
<1>10. K <= C /\ \A n \in 1..K : res[n] = order[n]
  BY <1>1, <1>4, <1>5, <1>8, <1>9, FirstInOrder DEF C
<1>11. K < MaxSchemes => K >= C
  <2>. SUFFICES ASSUME K < MaxSchemes, K < C PROVE FALSE
    BY <1>1, <1>8 DEF C
  <2>1. K + 1 \in 1..C /\ ~(K >= MaxSchemes)
    BY <1>1, <1>8 DEF C
  <2>2. PICK k \in 1..K : res[k] = order[K + 1]
    BY <1>6, <1>8, <2>1
  <2>3. k \in 1..C /\ k # K + 1
    BY <1>1, <1>8, <1>10 DEF C
  <2>. QED
    BY <1>6, <1>10, <2>1, <2>2, <2>3
<1>12. K = Min({MaxSchemes, Len(order)})
  BY <1>1, <1>7, <1>8, <1>10, <1>11, LesserOf DEF C
<1>13. res = [i \in 1..K |-> order[i]]
  <2>1. res = [i \in 1..K |-> res[i]]
    BY <1>8 DEF K
  <2>. QED
    BY <1>10, <2>1
<1>14. K \in Nat /\ K <= MaxSchemes /\ \A i \in 1..K : order[i] \in S
  BY <1>8, <1>10
<1>. QED
  BY <1>12, <1>13, <1>14 DEF order, res, S

-----------------------------------------------------------------------------
(* What the planner offers.                                                *)

\* The placements are on the path, of claims whose SLAs were resolved, and no
\* two of them share a hop.
Fits(path, claims, resolved, scheme) ==
    /\ Len(scheme) \in Nat \ {0} /\ DOMAIN scheme = 1..Len(scheme)
    /\ \A i \in 1..Len(scheme) : \E n \in DOMAIN claims :
           claims[n].sla \in resolved /\ PlacedAt(path, claims[n], scheme[i])
    /\ \A i, j \in 1..Len(scheme) : i # j => Disjoint(scheme[i], scheme[j])

LEMMA SchemeFits ==
    ASSUME NEW path \in Seq(PathHop), NEW claims, IsPortfolio(claims), NEW resolved,
           NEW chosen \in Schemes(Placements(path, claims, resolved))
    PROVE  Fits(path, claims, resolved, Scheme(Placements(path, claims, resolved), chosen))
<1>. DEFINE places == Placements(path, claims, resolved)
            L == Len(places)
            order == SortedBy(chosen, <)
            C == Cardinality(chosen)
            scheme == Scheme(places, chosen)
            T == {places[i] : i \in 1..L}
<1>1. /\ L \in Nat
      /\ \A i \in 1..L : \E n \in DOMAIN claims :
             claims[n].sla \in resolved /\ PlacedAt(path, claims[n], places[i])
  BY PlacementsAre
<1>2. chosen \subseteq 1..L /\ chosen # {} /\ Apart(places, chosen)
  BY DEF Schemes
<1>. HIDE DEF places, L
<1>3. chosen \subseteq Int /\ IsFiniteSet(chosen)
  <2>1. IsFiniteSet(1..L) /\ 1..L \subseteq Int
    BY <1>1, FS_Interval
  <2>2. chosen \in SUBSET (1..L)
    BY <1>2
  <2>3. IsFiniteSet(chosen)
    BY <2>1, <2>2, FS_Subset
  <2>. QED
    BY <2>1, <2>2, <2>3
<1>4. /\ C \in Nat /\ order \in [1..C -> chosen]
      /\ \A m, n \in 1..C : m < n => order[m] < order[n]
  BY <1>3, SortedNumbers
<1>5. C # 0
  BY <1>2, <1>3, FS_EmptySet
<1>. HIDE DEF order, C
<1>6. scheme = [n \in 1..C |-> places[order[n]]]
  BY <1>4 DEF Scheme, order
<1>. HIDE DEF scheme
<1>7. scheme \in [1..C -> T]
  BY <1>2, <1>4, <1>6
<1>8. Len(scheme) = C /\ DOMAIN scheme = 1..C
  <2>. HIDE DEF T
  <2>. QED
    BY <1>4, <1>7, LenProperties
<1>9. \A i \in 1..C : order[i] \in chosen /\ order[i] \in 1..L /\ scheme[i] = places[order[i]]
  BY <1>2, <1>4, <1>6
<1>10. \A i, j \in 1..C : i # j => order[i] # order[j]
  <2>1. ASSUME NEW i \in 1..C, NEW j \in 1..C, i < j PROVE order[i] # order[j]
    <3>1. order[i] \in Int /\ order[i] < order[j]
      BY <1>3, <1>4, <2>1
    <3>. QED
      BY <3>1
  <2>2. \A i, j \in 1..C : i # j => i < j \/ j < i
    BY <1>4
  <2>. QED
    BY <2>1, <2>2
<1>11. \A i, j \in 1..C : i # j => Disjoint(scheme[i], scheme[j])
  BY <1>2, <1>9, <1>10 DEF Apart
<1>12. Fits(path, claims, resolved, scheme)
  BY <1>1, <1>4, <1>5, <1>8, <1>9, <1>11 DEF Fits
<1>. QED
  BY <1>12 DEF scheme, places

\* The options of a path are made of the first schemes in order.
OptionsFrom(path, claims, resolved, scores, options) ==
    LET places == Placements(path, claims, resolved)
        order == SortedBy(Schemes(places), Sooner)
        K == Min({MaxSchemes, Len(order)})
    IN  /\ K \in Nat /\ K <= MaxSchemes /\ DOMAIN options = 1..K /\ Len(options) = K
        /\ \A i \in 1..K : /\ order[i] \in Schemes(places)
                           /\ options[i] = Option(Scheme(places, order[i]), path, scores)
                           /\ Fits(path, claims, resolved, options[i].scheme)

LEMMA OptionsAre ==
    ASSUME NEW path \in Seq(PathHop), NEW claims, IsPortfolio(claims), NEW resolved, NEW scores
    PROVE  OptionsFrom(path, claims, resolved, scores,
                       CoverageOptions(path, claims, resolved, scores))
<1>. DEFINE places == Placements(path, claims, resolved)
            S == Schemes(places)
            order == SortedBy(S, Sooner)
            K == Min({MaxSchemes, Len(order)})
            schemes == EnumerateSchemes(places)
            options == [i \in 1..K |-> Option(Scheme(places, order[i]), path, scores)]
            T == {options[i] : i \in 1..K}
<1>1. Len(places) \in Nat
  BY PlacementsAre
<1>2. \A chosen \in S : Fits(path, claims, resolved, Scheme(places, chosen))
  BY SchemeFits
<1>. HIDE DEF places
<1>3. /\ schemes = [i \in 1..K |-> order[i]]
      /\ K \in Nat /\ K <= MaxSchemes
      /\ \A i \in 1..K : order[i] \in S
  BY <1>1, EnumerationIsPrefix
<1>. HIDE DEF schemes, K, order, S
<1>4. CoverageOptions(path, claims, resolved, scores) = options
  <2>1. CoverageOptions(path, claims, resolved, scores) =
            [i \in DOMAIN schemes |-> Option(Scheme(places, schemes[i]), path, scores)]
    BY DEF CoverageOptions, schemes, places
  <2>. QED
    BY <1>3, <2>1
<1>5. DOMAIN options = 1..K /\ Len(options) = K
  <2>1. options \in [1..K -> T] /\ DOMAIN options = 1..K
    OBVIOUS
  <2>. HIDE DEF options, T
  <2>. QED
    BY <1>3, <2>1, LenProperties
<1>6. \A i \in 1..K : Fits(path, claims, resolved, options[i].scheme)
  <2>1. \A chosen : Option(Scheme(places, chosen), path, scores).scheme = Scheme(places, chosen)
    BY DEF Option
  <2>. QED
    BY <1>2, <1>3, <2>1
<1>7. \A i \in 1..K : options[i] = Option(Scheme(places, order[i]), path, scores)
  OBVIOUS
<1>. HIDE DEF options
<1>8. OptionsFrom(path, claims, resolved, scores, options)
  BY <1>3, <1>5, <1>6, <1>7 DEF OptionsFrom, K, order, S, places
<1>. QED
  BY <1>4, <1>8

\* The hops of the placements of a scheme that are in s.
HopsOf(scheme, s) == UNION {Hops(scheme[n]) : n \in s}

LEMMA PlacementHops ==
    ASSUME NEW path \in Seq(PathHop), NEW claims, IsPortfolio(claims), NEW resolved,
           NEW scheme, Fits(path, claims, resolved, scheme), NEW i \in 1..Len(scheme)
    PROVE  /\ Hops(scheme[i]) \subseteq 1..Len(path)
           /\ IsFiniteSet(Hops(scheme[i]))
           /\ scheme[i].end - scheme[i].start \in Int
           /\ Cardinality(Hops(scheme[i])) = scheme[i].end - scheme[i].start
<1>1. PICK n \in DOMAIN claims : PlacedAt(path, claims[n], scheme[i])
  BY DEF Fits
<1>2. claims[n] \in Claim /\ Len(path) \in Nat
  BY DEF IsPortfolio
<1>3. claims[n].sla \in SLAs
  BY <1>2 DEF Claim
<1>. DEFINE N == Len(Cosigners[claims[n].sla])
            a == scheme[i].start
            b == scheme[i].end
<1>4. N \in Nat
  BY <1>3, CosignersAre
<1>5. b = a + N /\ a \in 1..Len(path) /\ b - 1 \in a..Len(path)
  <2>1. scheme[i] = [start |-> a, end |-> a + N, id |-> claims[n].id, sla |-> claims[n].sla]
    BY <1>1 DEF PlacedAt
  <2>2. b = a + N
    BY <2>1
  <2>. QED
    BY <1>1, <2>2 DEF PlacedAt
<1>6. Hops(scheme[i]) = a..(b - 1)
  BY DEF Hops
<1>. HIDE DEF N, a, b
<1>7. a \in Int /\ b \in Int /\ a..(b - 1) \subseteq 1..Len(path) /\ b - a = (b - 1) - a + 1
      /\ a <= b - 1 /\ b - 1 \in Int
  BY <1>2, <1>4, <1>5
<1>8. IsFiniteSet(a..(b - 1)) /\ Cardinality(a..(b - 1)) = (b - 1) - a + 1
  BY <1>7, FS_Interval
<1>. QED
  BY <1>6, <1>7, <1>8 DEF a, b

LEMMA CoveredHopsAre ==
    ASSUME NEW path \in Seq(PathHop), NEW claims, IsPortfolio(claims), NEW resolved,
           NEW scheme, Fits(path, claims, resolved, scheme)
    PROVE  LET hops == HopsOf(scheme, DOMAIN scheme)
           IN  /\ IsFiniteSet(hops) /\ hops \subseteq 1..Len(path)
               /\ CoveredHops(scheme) = Cardinality(hops)
<1>. DEFINE U == 1..Len(scheme)
            w == [n \in U |-> scheme[n].end - scheme[n].start]
            G(g) == g = [s \in SUBSET U |->
                            IF s = {} THEN 0
                            ELSE (scheme[Pick(s)].end - scheme[Pick(s)].start) + g[s \ {Pick(s)}]]
            h == CHOOSE g : G(g)
<1>1. DOMAIN scheme = U /\ IsFiniteSet(U) /\ Len(scheme) \in Nat
  BY FS_Interval DEF Fits
<1>2. CoveredHops(scheme) = h[U]
  <2>1. CoveredHops(scheme) = MapThenSumSet(LAMBDA n : scheme[n].end - scheme[n].start, U)
    BY <1>1 DEF CoveredHops
  <2>2. MapThenSumSet(LAMBDA n : scheme[n].end - scheme[n].start, U) = h[U]
    BY DEF MapThenSumSet, MapThenFoldSet, Pick
  <2>. QED
    BY <2>1, <2>2
<1>3. Sums(h, w, U)
  <2>1. \A g : G(g) <=> Sums(g, w, U)
    <3>1. \A s \in SUBSET U : s # {} => Pick(s) \in U
      BY <1>1, PickOne
    <3>2. \A g : [s \in SUBSET U |->
                     IF s = {} THEN 0
                     ELSE (scheme[Pick(s)].end - scheme[Pick(s)].start) + g[s \ {Pick(s)}]]
                 = [s \in SUBSET U |->
                      IF s = {} THEN 0 ELSE w[Pick(s)] + g[s \ {Pick(s)}]]
      BY <3>1
    <3>. HIDE DEF w
    <3>. QED
      BY <3>2 DEF Sums
  <2>2. \E g : Sums(g, w, U)
    BY <1>1, SumsExist
  <2>. HIDE DEF G, w, U
  <2>. QED
    BY <2>1, <2>2
<1>. HIDE DEF h, G
<1>4. \A n \in U : /\ Hops(scheme[n]) \subseteq 1..Len(path)
                   /\ IsFiniteSet(Hops(scheme[n]))
                   /\ w[n] \in Int
                   /\ Cardinality(Hops(scheme[n])) = w[n]
  BY PlacementHops
<1>5. \A i, j \in U : i # j => Hops(scheme[i]) \cap Hops(scheme[j]) = {}
  BY DEF Fits, Disjoint
<1>. HIDE DEF U, w
<1>6. /\ h[{}] = 0
      /\ \A s \in SUBSET U : h[s] \in Int
      /\ \A s \in SUBSET U : \A x \in s : h[s] = w[x] + h[s \ {x}]
  BY <1>1, <1>3, <1>4, SumsTake
<1>. DEFINE Right(s) == IsFiniteSet(HopsOf(scheme, s)) /\ h[s] = Cardinality(HopsOf(scheme, s))
            S == {n \in Nat : \A s \in SUBSET U : Cardinality(s) = n => Right(s)}
<1>7. 0 \in S
  <2>1. \A s \in SUBSET U : Cardinality(s) = 0 => s = {}
    BY <1>1, PickOne
  <2>2. HopsOf(scheme, {}) = {}
    BY DEF HopsOf
  <2>3. Right({})
    BY <1>6, <2>2, FS_EmptySet
  <2>. HIDE DEF Right
  <2>. QED
    BY <2>1, <2>3
<1>8. ASSUME NEW n \in Nat, n \in S PROVE n + 1 \in S
  <2>. SUFFICES ASSUME NEW s \in SUBSET U, Cardinality(s) = n + 1 PROVE Right(s)
    OBVIOUS
  <2>1. s # {}
    BY <1>1, FS_Subset, FS_EmptySet
  <2>2. PICK x \in s : s \ {x} \in SUBSET U /\ Cardinality(s \ {x}) = n
    <3>1. PICK x \in s : x = Pick(s)
      BY <1>1, <2>1, PickOne
    <3>2. s \ {x} \in SUBSET U /\ Cardinality(s \ {x}) = Cardinality(s) - 1
      BY <1>1, <2>1, PickOne
    <3>3. Cardinality(s \ {x}) = n
      BY <3>2
    <3>. QED
      BY <3>2, <3>3
  <2>. DEFINE A == Hops(scheme[x])
              B == HopsOf(scheme, s \ {x})
  <2>3. HopsOf(scheme, s) = A \cup B
    BY DEF HopsOf
  <2>4. A \cap B = {}
    BY <1>5 DEF HopsOf
  <2>5. IsFiniteSet(A) /\ Cardinality(A) = w[x]
    BY <1>4
  <2>6. IsFiniteSet(B) /\ h[s \ {x}] = Cardinality(B)
    BY <1>8, <2>2
  <2>7. h[s] = w[x] + h[s \ {x}]
    BY <1>6
  <2>. HIDE DEF A, B
  <2>8. /\ IsFiniteSet(A \cup B)
        /\ Cardinality(A \cup B) = Cardinality(A) + Cardinality(B) - Cardinality(A \cap B)
    BY <2>5, <2>6, FS_Union
  <2>9. Cardinality(A \cap B) = 0 /\ Cardinality(A) \in Nat /\ Cardinality(B) \in Nat
    BY <2>4, <2>5, <2>6, FS_EmptySet, FS_CardinalityType
  <2>. QED
    BY <2>3, <2>5, <2>6, <2>7, <2>8, <2>9
<1>9. Cardinality(U) \in S
  <2>1. \A n \in Nat : n \in S
    <3>. HIDE DEF S
    <3>. QED
      BY <1>7, <1>8, Induction
  <2>. HIDE DEF S
  <2>. QED
    BY <1>1, <2>1, FS_CardinalityType
<1>10. Right(U)
  BY <1>9
<1>11. HopsOf(scheme, U) \subseteq 1..Len(path)
  BY <1>4 DEF HopsOf
<1>. QED
  BY <1>1, <1>2, <1>10, <1>11

LEMMA ReputationIs ==
    ASSUME NEW path \in Seq(PathHop), NEW claims, IsPortfolio(claims), NEW resolved,
           NEW scheme, Fits(path, claims, resolved, scheme), NEW scores
    PROVE  Reputation(scheme, path, scores) =
               IF HopsOf(scheme, DOMAIN scheme) = DOMAIN path
               THEN {Min({ScoreOf(a, scores) : a \in ToSet(ASesOf(path))})}
               ELSE {}
<1>. DEFINE hops == HopsOf(scheme, DOMAIN scheme)
            L == Len(path)
            mine == UNION {ToSet(CosignerScores(scheme[n].sla, scores)) : n \in DOMAIN scheme}
            theirs == {ScoreOf(a, scores) : a \in ToSet(ASesOf(path))}
<1>1. /\ IsFiniteSet(hops) /\ hops \in SUBSET (1..L) /\ CoveredHops(scheme) = Cardinality(hops)
      /\ L \in Nat /\ DOMAIN path = 1..L
  BY CoveredHopsAre
<1>2. CoveredHops(scheme) = L <=> hops = 1..L
  <2>. HIDE DEF hops, L
  <2>1. IsFiniteSet(1..L) /\ Cardinality(1..L) = L
    BY <1>1, FS_Interval
  <2>2. Cardinality(hops) = Cardinality(1..L) => hops = 1..L
    BY <1>1, <2>1, FS_Subset
  <2>. QED
    BY <1>1, <2>1, <2>2
<1>3. ASSUME NEW n \in DOMAIN scheme
      PROVE  /\ \A k \in DOMAIN Cosigners[scheme[n].sla] :
                    \E x \in Hops(scheme[n]) :
                        x \in 1..L /\ path[x].isd_as = Cosigners[scheme[n].sla][k]
             /\ \A x \in Hops(scheme[n]) :
                    \E k \in DOMAIN Cosigners[scheme[n].sla] :
                        path[x].isd_as = Cosigners[scheme[n].sla][k]
  <2>1. PICK m \in DOMAIN claims : PlacedAt(path, claims[m], scheme[n])
    BY DEF Fits
  <2>. DEFINE c == Cosigners[claims[m].sla]
              a == scheme[n].start
              b == scheme[n].end
  <2>2. claims[m].sla \in SLAs
    <3>1. claims[m] \in Claim
      BY DEF IsPortfolio
    <3>. QED
      BY <3>1 DEF Claim
  <2>3. DOMAIN c = 1..Len(c) /\ Len(c) \in Nat \ {0}
    BY <2>2, CosignersAre
  <2>4. scheme[n] = [start |-> a, end |-> a + Len(c), id |-> claims[m].id, sla |-> claims[m].sla]
    BY <2>1 DEF PlacedAt
  <2>5. b = a + Len(c) /\ scheme[n].sla = claims[m].sla
    BY <2>4
  <2>6. /\ a \in 1..L /\ b - 1 \in a..L /\ Hops(scheme[n]) = a..(b - 1)
        /\ \A h \in Hops(scheme[n]) : path[h].isd_as = c[h - a + 1]
    BY <2>1 DEF PlacedAt, Hops
  <2>. HIDE DEF a, b, c, L
  <2>7. \A h \in a..(b - 1) : h \in 1..L /\ h - a + 1 \in 1..Len(c)
    BY <1>1, <2>3, <2>5, <2>6
  <2>8. \A k \in 1..Len(c) : a + k - 1 \in a..(b - 1) /\ (a + k - 1) - a + 1 = k
    BY <1>1, <2>3, <2>5, <2>6
  <2>. QED
    BY <2>3, <2>5, <2>6, <2>7, <2>8 DEF c
<1>4. \A x \in hops : \E n \in DOMAIN scheme : x \in Hops(scheme[n])
  BY DEF HopsOf
<1>5. \A v : v \in theirs <=> \E x \in 1..L : v = ScoreOf(path[x].isd_as, scores)
  BY <1>1 DEF ToSet, ASesOf
<1>6. \A v : v \in mine <=> \E n \in DOMAIN scheme :
                               \E k \in DOMAIN Cosigners[scheme[n].sla] :
                                   v = ScoreOf(Cosigners[scheme[n].sla][k], scores)
  <2>1. \A s, v : v \in ToSet(CosignerScores(s, scores)) <=>
                      \E k \in DOMAIN Cosigners[s] : v = ScoreOf(Cosigners[s][k], scores)
    BY DEF ToSet, CosignerScores
  <2>2. \A v : v \in mine <=>
                   \E n \in DOMAIN scheme : v \in ToSet(CosignerScores(scheme[n].sla, scores))
    OBVIOUS
  <2>. HIDE DEF mine
  <2>. QED
    BY <2>1, <2>2
<1>7. ASSUME hops = 1..L PROVE mine = theirs
  <2>. HIDE DEF mine, theirs, hops
  <2>1. ASSUME NEW v \in mine PROVE v \in theirs
    BY <1>3, <1>5, <1>6
  <2>2. ASSUME NEW v \in theirs PROVE v \in mine
    <3>1. PICK x \in 1..L : v = ScoreOf(path[x].isd_as, scores)
      BY <1>5
    <3>2. PICK n \in DOMAIN scheme : x \in Hops(scheme[n])
      BY <1>4, <1>7
    <3>3. PICK k \in DOMAIN Cosigners[scheme[n].sla] :
              path[x].isd_as = Cosigners[scheme[n].sla][k]
      BY <1>3, <3>2
    <3>. QED
      BY <1>6, <3>1, <3>3
  <2>. QED
    BY <2>1, <2>2
<1>8. Reputation(scheme, path, scores) = IF CoveredHops(scheme) # L THEN {} ELSE {Min(mine)}
  BY DEF Reputation
<1>. HIDE DEF mine, theirs, hops, L
<1>9. Reputation(scheme, path, scores) = IF hops = DOMAIN path THEN {Min(theirs)} ELSE {}
  <2>1. CASE hops = 1..L
    BY <1>1, <1>2, <1>7, <1>8, <2>1
  <2>2. CASE hops # 1..L
    BY <1>1, <1>2, <1>8, <2>2
  <2>. QED
    BY <2>1, <2>2
<1>. QED
  BY <1>9 DEF hops, theirs

\* The planner's aggregate has what compose_bounds makes of a scheme.
LEMMA AggregateIs ==
    ASSUME NEW parts, NEW k, k \in DOMAIN parts
    PROVE  \A m \in DOMAIN ComposeBounds(parts) :
               /\ m \in DOMAIN AggregateBounds(parts)
               /\ AggregateBounds(parts)[m] = ComposeBounds(parts)[m]
<1>. DEFINE D == DOMAIN parts
            bounding(m) == {n \in D : m \in DOMAIN Bound[parts[n]]}
            all == {m \in Metrics : \A n \in D : m \in DOMAIN Bound[parts[n]]}
            some == {m \in Metrics : m # Bandwidth \/ bounding(m) # {}}
            Least(m, S) == Min({Bound[parts[n]][m] : n \in S})
            Total(m, S) == MapThenSumSet(LAMBDA n : Bound[parts[n]][m], S)
<1>1. parts # <<>>
  OBVIOUS
<1>2. ComposeBounds(parts) =
          [m \in all |-> IF m = Bandwidth THEN Least(m, D) ELSE Total(m, D)]
  BY <1>1 DEF ComposeBounds
<1>3. AggregateBounds(parts) =
          [m \in some |-> IF m = Bandwidth THEN Least(m, bounding(m)) ELSE Total(m, bounding(m))]
  BY DEF AggregateBounds
<1>4. \A m \in all : bounding(m) = D
  OBVIOUS
<1>5. \A m \in all : m \in some
  <2>1. D # {}
    OBVIOUS
  <2>. QED
    BY <1>4, <2>1
<1>. HIDE DEF Least, Total, bounding, all, some, D
<1>. QED
  BY <1>2, <1>3, <1>4, <1>5

-----------------------------------------------------------------------------
(* The offers of a call, and what is put of them.                          *)

\* Sequences, whatever their values.
IsList(s) == \E T : s \in Seq(T)

LEMMA AppendIs ==
    ASSUME NEW s, IsList(s), NEW x
    PROVE  /\ IsList(Append(s, x)) /\ Len(s) \in Nat /\ DOMAIN s = 1..Len(s)
           /\ Len(Append(s, x)) = Len(s) + 1 /\ DOMAIN Append(s, x) = 1..(Len(s) + 1)
           /\ \A i \in 1..Len(s) : Append(s, x)[i] = s[i]
           /\ Append(s, x)[Len(s) + 1] = x
<1>1. PICK T : s \in Seq(T)
  BY DEF IsList
<1>2. s \in Seq(T \cup {x})
  BY <1>1
<1>3. Append(s, x) \in Seq(T \cup {x})
  BY <1>2
<1>4. IsList(Append(s, x))
  BY <1>3 DEF IsList
<1>. QED
  BY <1>2, <1>4

\* The candidates that were made so far, from the portfolios that were seen.
CandidatesOf(c, claims) ==
    /\ IsList(c.candidates) /\ IsList(c.seen)
    /\ Len(c.seen) = Len(c.candidates) /\ Len(c.candidates) <= Len(c.paths)
    /\ \A n \in 1..Len(c.candidates) :
          /\ c.candidates[n] =
                [path |-> c.paths[n],
                 options |-> CoverageOptions(c.paths[n], c.seen[n], c.resolved, c.scores)]
          /\ IsPortfolio(c.seen[n]) /\ ToSet(c.seen[n]) \subseteq ToSet(claims)

\* A route that was offered: it passes the checks as long as the aggregator has
\* its SLAs.
AsOffered(c, slas) ==
    /\ c.todo \subseteq DOMAIN c.applied
    /\ \A h \in DOMAIN c.applied :
          /\ c.applied[h] \in c.held
          /\ h \in DOMAIN c.path
          /\ c.path[h].isd_as \in ToSet(ASesOf(PathOf[c.applied[h].sla]))
          /\ c.applied[h].sla \in slas \cup c.lost

OfferInv ==
    /\ IsPortfolio(portfolio)
    /\ "paths" \in DOMAIN call => call.paths \in {<<>>, RealPaths}
    /\ "resolved" \in DOMAIN call => call.resolved \subseteq market \cup call.lost
    /\ call.at \in {"compose", "offered"} => CandidatesOf(call, portfolio)
    /\ call.at = "validate" => AsOffered(call, market)
    /\ RefusalsAreResets

LEMMA PathsAreTyped ==
    ASSUME NEW paths \in {<<>>, RealPaths}
    PROVE  Len(paths) \in Nat /\ \A n \in 1..Len(paths) : paths[n] \in Seq(PathHop)
<1>. DEFINE S == Seq(PathHop)
<1>1. RealPaths \in Seq(S)
  BY PathDiscoveryAssumption
<1>. HIDE DEF S
<1>2. paths \in Seq(S)
  <2>1. <<>> \in Seq(S)
    OBVIOUS
  <2>. QED
    BY <1>1, <2>1
<1>3. Len(paths) \in Nat /\ \A n \in 1..Len(paths) : paths[n] \in S
  BY <1>2
<1>. QED
  BY <1>3 DEF S

\* The claims that a scheme is made of are held, and cover the hops.
LEMMA AppliedIs ==
    ASSUME NEW path \in Seq(PathHop), NEW claims, IsPortfolio(claims), NEW resolved,
           NEW scheme, Fits(path, claims, resolved, scheme),
           NEW h \in DOMAIN AppliedBy(scheme)
    PROVE  LET applied == AppliedBy(scheme)
           IN  /\ applied[h] \in ToSet(claims) /\ h \in DOMAIN path
               /\ path[h].isd_as \in ToSet(ASesOf(PathOf[applied[h].sla]))
               /\ applied[h].sla \in resolved
<1>. DEFINE n == CHOOSE n \in DOMAIN scheme : h \in Hops(scheme[n])
<1>1. DOMAIN AppliedBy(scheme) = UNION {Hops(scheme[i]) : i \in DOMAIN scheme}
  BY DEF AppliedBy
<1>2. AppliedBy(scheme)[h] = [id |-> scheme[n].id, sla |-> scheme[n].sla]
  BY <1>1 DEF AppliedBy
<1>3. \E i \in DOMAIN scheme : h \in Hops(scheme[i])
  BY <1>1
<1>4. n \in DOMAIN scheme /\ h \in Hops(scheme[n])
  BY <1>3
<1>. HIDE DEF n
<1>5. PICK k \in DOMAIN claims : claims[k].sla \in resolved /\ PlacedAt(path, claims[k], scheme[n])
  BY <1>4 DEF Fits
<1>6. claims[k] \in Claim /\ claims[k] \in ToSet(claims)
  BY DEF IsPortfolio, ToSet
<1>7. /\ claims[k] = [id |-> claims[k].id, sla |-> claims[k].sla]
      /\ claims[k].sla \in SLAs
  BY <1>6 DEF Claim
<1>. DEFINE s == claims[k].sla
            a == scheme[n].start
            N == Len(Cosigners[s])
<1>8. /\ scheme[n].id = claims[k].id /\ scheme[n].sla = s /\ scheme[n].end = a + N
      /\ a \in 1..Len(path) /\ scheme[n].end - 1 \in a..Len(path)
      /\ \A x \in Hops(scheme[n]) : path[x].isd_as = Cosigners[s][x - a + 1]
  BY <1>5 DEF PlacedAt
<1>9. AppliedBy(scheme)[h] = claims[k]
  BY <1>2, <1>7, <1>8
<1>10. h \in a..(a + N - 1)
  BY <1>4, <1>8 DEF Hops
<1>11. /\ N \in Nat \ {0} /\ N = Len(PathOf[s]) /\ DOMAIN PathOf[s] = 1..N
       /\ \A i \in 1..N : Cosigners[s][i] = PathOf[s][i].isd_as
  BY <1>7, CosignersAre
<1>12. path[h].isd_as = Cosigners[s][h - a + 1]
  BY <1>4, <1>8
<1>. HIDE DEF N, a, s
<1>13. h - a + 1 \in 1..N /\ h \in 1..Len(path)
  BY <1>8, <1>10, <1>11
<1>14. path[h].isd_as = PathOf[s][h - a + 1].isd_as
  BY <1>11, <1>12, <1>13
<1>15. PathOf[s][h - a + 1].isd_as \in ToSet(ASesOf(PathOf[s]))
  <2>1. \A i \in DOMAIN PathOf[s] : PathOf[s][i].isd_as \in ToSet(ASesOf(PathOf[s]))
    BY DEF ToSet, ASesOf
  <2>. QED
    BY <1>11, <1>13, <2>1
<1>. QED
  BY <1>5, <1>6, <1>9, <1>13, <1>14, <1>15 DEF s

LEMMA OneMoreCandidate ==
    ASSUME CallInv, OfferInv, ComposeNext
    PROVE  CandidatesOf(call', portfolio)
<1>. DEFINE c == call
            d == call'
            n == Len(c.candidates)
            path == c.paths[n + 1]
            new == [path |-> path,
                    options |-> CoverageOptions(path, portfolio, c.resolved, c.scores)]
<1>1. /\ c.at = "compose" /\ n < Len(c.paths) /\ CandidatesOf(c, portfolio)
      /\ IsPortfolio(portfolio)
  BY DEF ComposeNext, OfferInv
<1>2. DOMAIN c = {"at", "paths", "resolved", "scores", "candidates", "seen", "lost"}
  BY <1>1 DEF CallInv, Fields
<1>3. /\ d.candidates = Append(c.candidates, new) /\ d.seen = Append(c.seen, portfolio)
      /\ d.paths = c.paths /\ d.resolved = c.resolved /\ d.scores = c.scores
  BY <1>2 DEF ComposeNext
<1>4. /\ IsList(c.candidates) /\ IsList(c.seen) /\ Len(c.seen) = n
      /\ \A i \in 1..n :
            /\ c.candidates[i] =
                  [path |-> c.paths[i],
                   options |-> CoverageOptions(c.paths[i], c.seen[i], c.resolved, c.scores)]
            /\ IsPortfolio(c.seen[i]) /\ ToSet(c.seen[i]) \subseteq ToSet(portfolio)
  BY <1>1 DEF CandidatesOf
<1>. HIDE DEF new
<1>5. /\ IsList(d.candidates) /\ n \in Nat /\ Len(d.candidates) = n + 1
      /\ \A i \in 1..n : d.candidates[i] = c.candidates[i]
      /\ d.candidates[n + 1] = new
  BY <1>3, <1>4, AppendIs
<1>6. /\ IsList(d.seen) /\ Len(d.seen) = n + 1
      /\ \A i \in 1..n : d.seen[i] = c.seen[i]
      /\ d.seen[n + 1] = portfolio
  BY <1>3, <1>4, AppendIs
<1>7. Len(c.paths) \in Nat
  BY <1>2, PathsAreTyped DEF OfferInv
<1>. HIDE DEF c, d, n
<1>8. \A i \in 1..(n + 1) : i \in 1..n \/ i = n + 1
  BY <1>5
<1>9. n + 1 <= Len(d.paths)
  BY <1>1, <1>3, <1>5, <1>7
<1>10. ASSUME NEW i \in 1..(n + 1)
       PROVE  /\ d.candidates[i] =
                    [path |-> d.paths[i],
                     options |-> CoverageOptions(d.paths[i], d.seen[i], d.resolved, d.scores)]
              /\ IsPortfolio(d.seen[i]) /\ ToSet(d.seen[i]) \subseteq ToSet(portfolio)
  <2>1. CASE i \in 1..n
    BY <1>3, <1>4, <1>5, <1>6, <2>1
  <2>2. CASE i = n + 1
    BY <1>1, <1>3, <1>5, <1>6, <2>2 DEF new
  <2>. QED
    BY <1>8, <2>1, <2>2
<1>11. CandidatesOf(d, portfolio)
  BY <1>5, <1>6, <1>9, <1>10 DEF CandidatesOf
<1>. QED
  BY <1>11 DEF d

\* Each candidate is made of the portfolio that was seen for it.
LEMMA CandidateIs ==
    ASSUME CallInv, OfferInv, call.at \in {"compose", "offered"},
           NEW n \in DOMAIN call.candidates
    PROVE  /\ call.candidates[n].path \in Seq(PathHop)
           /\ OptionsFrom(call.candidates[n].path, call.seen[n], call.resolved, call.scores,
                          call.candidates[n].options)
           /\ IsPortfolio(call.seen[n]) /\ ToSet(call.seen[n]) \subseteq ToSet(portfolio)
           /\ call.resolved \subseteq market \cup call.lost
<1>1. /\ CandidatesOf(call, portfolio)
      /\ DOMAIN call = {"at", "paths", "resolved", "scores", "candidates", "seen", "lost"}
  BY DEF OfferInv, CallInv, Fields
<1>2. /\ call.paths \in {<<>>, RealPaths} /\ call.resolved \subseteq market \cup call.lost
  BY <1>1 DEF OfferInv
<1>3. n \in 1..Len(call.candidates) /\ Len(call.candidates) \in Nat
  BY <1>1, AppendIs DEF CandidatesOf
<1>. DEFINE path == call.paths[n]
            claims == call.seen[n]
<1>4. /\ call.candidates[n] =
             [path |-> path, options |-> CoverageOptions(path, claims, call.resolved, call.scores)]
      /\ IsPortfolio(claims) /\ ToSet(claims) \subseteq ToSet(portfolio)
      /\ Len(call.candidates) <= Len(call.paths)
  BY <1>1, <1>3 DEF CandidatesOf
<1>5. path \in Seq(PathHop)
  <2>1. Len(call.paths) \in Nat /\ \A i \in 1..Len(call.paths) : call.paths[i] \in Seq(PathHop)
    BY <1>2, PathsAreTyped
  <2>2. n \in 1..Len(call.paths)
    BY <1>3, <1>4, <2>1
  <2>. QED
    BY <2>1, <2>2
<1>. HIDE DEF path, claims
<1>6. /\ call.candidates[n].path = path
      /\ call.candidates[n].options = CoverageOptions(path, claims, call.resolved, call.scores)
  BY <1>4
<1>7. OptionsFrom(path, claims, call.resolved, call.scores, call.candidates[n].options)
  BY <1>4, <1>5, <1>6, OptionsAre
<1>. QED
  BY <1>2, <1>4, <1>5, <1>6, <1>7 DEF claims

\* What PUT is given of an offer.
LEMMA PutIsOffered ==
    ASSUME CallInv, OfferInv, call.at = "offered",
           NEW c \in ToSet(call.candidates), NEW option \in ToSet(c.options),
           NEW e, e = [at |-> "validate", lost |-> call.lost,
                       path |-> c.path, applied |-> AppliedBy(option.scheme),
                       held |-> ToSet(portfolio), todo |-> DOMAIN AppliedBy(option.scheme)]
    PROVE  AsOffered(e, market)
<1>1. PICK n \in DOMAIN call.candidates : c = call.candidates[n]
  BY DEF ToSet
<1>. DEFINE claims == call.seen[n]
            applied == AppliedBy(option.scheme)
<1>2. /\ c.path \in Seq(PathHop) /\ IsPortfolio(claims) /\ ToSet(claims) \subseteq ToSet(portfolio)
      /\ OptionsFrom(c.path, claims, call.resolved, call.scores, c.options)
      /\ call.resolved \subseteq market \cup call.lost
  BY <1>1, CandidateIs
<1>3. Fits(c.path, claims, call.resolved, option.scheme)
  BY <1>2 DEF OptionsFrom, ToSet
<1>4. \A h \in DOMAIN applied :
          /\ applied[h] \in ToSet(claims) /\ h \in DOMAIN c.path
          /\ c.path[h].isd_as \in ToSet(ASesOf(PathOf[applied[h].sla]))
          /\ applied[h].sla \in call.resolved
  BY <1>2, <1>3, AppliedIs
<1>. HIDE DEF applied
<1>5. /\ e.todo = DOMAIN applied /\ e.applied = applied /\ e.path = c.path /\ e.lost = call.lost
      /\ e.held = ToSet(portfolio)
  BY DEF applied
<1>. QED
  BY <1>2, <1>4, <1>5 DEF AsOffered

LEMMA MorePortfolio ==
    ASSUME CallInv, OfferInv, NEW claim \in Claim, AppendClaim(claim)
    PROVE  OfferInv'
<1>1. /\ portfolio' = Append(portfolio, claim) /\ UNCHANGED <<market, call>>
      /\ \A held \in ToSet(portfolio) : held.id = claim.id => held = claim
      /\ portfolio \in Seq(Claim)
      /\ \A m, n \in DOMAIN portfolio :
             portfolio[m].id = portfolio[n].id => portfolio[m] = portfolio[n]
  BY DEF AppendClaim, OfferInv, IsPortfolio
<1>. DEFINE more == Append(portfolio, claim)
            L == Len(portfolio)
<1>2. /\ more \in Seq(Claim) /\ L \in Nat /\ DOMAIN more = 1..(L + 1) /\ DOMAIN portfolio = 1..L
      /\ \A n \in 1..L : more[n] = portfolio[n] /\ portfolio[n] \in ToSet(portfolio)
      /\ more[L + 1] = claim
  BY <1>1 DEF ToSet
<1>. HIDE DEF more, L
<1>3. \A n \in DOMAIN more : n \in 1..L \/ n = L + 1
  BY <1>2
<1>4. IsPortfolio(more)
  <2>1. ASSUME NEW m \in DOMAIN more, NEW n \in DOMAIN more, more[m].id = more[n].id
        PROVE  more[m] = more[n]
    <3>1. CASE m \in 1..L /\ n \in 1..L
      BY <1>1, <1>2, <2>1, <3>1
    <3>2. CASE m = L + 1 \/ n = L + 1
      BY <1>1, <1>2, <1>3, <2>1, <3>2
    <3>. QED
      BY <1>3, <3>1, <3>2
  <2>. QED
    BY <1>2, <2>1 DEF IsPortfolio
<1>5. ToSet(portfolio) \subseteq ToSet(more)
  <2>1. \A n \in DOMAIN portfolio : n \in DOMAIN more /\ more[n] = portfolio[n]
    BY <1>2
  <2>. QED
    BY <2>1 DEF ToSet
<1>6. CandidatesOf(call, portfolio) => CandidatesOf(call, more)
  BY <1>5 DEF CandidatesOf
<1>7. /\ portfolio' = more /\ call' = call /\ market' = market
  BY <1>1 DEF more
<1>8. AsOffered(call, market)' <=> AsOffered(call, market)
  BY <1>7 DEF AsOffered
<1>. QED
  BY <1>4, <1>6, <1>7, <1>8 DEF OfferInv, RefusalsAreResets

LEMMA OfferStep ==
    ASSUME CallInv, OfferInv, Next
    PROVE  OfferInv'
<1>1. ASSUME UNCHANGED portfolio, call'.at \in {"idle", "market", "decided", "choose"},
             DOMAIN call' = Fields(call'.at),
             "paths" \in DOMAIN call' => call'.paths \in {<<>>, RealPaths}
      PROVE  OfferInv'
  <2>1. "resolved" \notin DOMAIN call'
    BY <1>1 DEF Fields
  <2>. QED
    BY <1>1, <2>1 DEF OfferInv, RefusalsAreResets
<1>2. CASE GetCandidates
  <2>1. PICK paths \in PathsFrom(LocalAS) :
            call' = [at |-> "resolve", paths |-> paths, next |-> 1, resolved |-> {}, lost |-> {}]
    BY <1>2 DEF GetCandidates
  <2>2. paths \in {<<>>, RealPaths}
    BY PathsRead
  <2>. QED
    BY <1>2, <2>1, <2>2 DEF GetCandidates, OfferInv, RefusalsAreResets
<1>3. CASE GetSLA
  <2>. DEFINE s == portfolio[call.next].sla
  <2>1. /\ call.at = "resolve" /\ UNCHANGED <<market, portfolio>>
        /\ DOMAIN call = {"at", "paths", "next", "resolved", "lost"}
    BY <1>3 DEF GetSLA, CallInv, Fields
  <2>2. /\ call'.at = "resolve" /\ call'.paths = call.paths /\ call'.lost = call.lost
        /\ call'.resolved = IF s \in market THEN call.resolved \cup {s} ELSE call.resolved
        /\ DOMAIN call' = DOMAIN call
    BY <1>3, <2>1 DEF GetSLA
  <2>. HIDE DEF s
  <2>3. call'.resolved \subseteq market \cup call.lost
    BY <2>1, <2>2 DEF OfferInv
  <2>. QED
    BY <2>1, <2>2, <2>3 DEF OfferInv, RefusalsAreResets
<1>4. CASE GetScores
  <2>1. /\ call.at = "resolve" /\ UNCHANGED <<market, portfolio>>
        /\ DOMAIN call = {"at", "paths", "next", "resolved", "lost"}
    BY <1>4 DEF GetScores, CallInv, Fields
  <2>2. PICK scores \in ScoreTables :
            call' = [at |-> "compose", paths |-> call.paths, resolved |-> call.resolved,
                     scores |-> scores, candidates |-> <<>>, seen |-> <<>>, lost |-> call.lost]
    BY <1>4 DEF GetScores
  <2>3. CandidatesOf(call', portfolio)
    <3>1. IsList(<<>>)
      <4>1. <<>> \in Seq({})
        OBVIOUS
      <4>. QED
        BY <4>1 DEF IsList
    <3>2. Len(<<>>) = 0 /\ 1..Len(<<>>) = {}
      OBVIOUS
    <3>3. Len(call.paths) \in Nat
      BY <2>1, PathsAreTyped DEF OfferInv
    <3>. QED
      BY <2>2, <3>1, <3>2, <3>3 DEF CandidatesOf
  <2>. QED
    BY <2>1, <2>2, <2>3 DEF OfferInv, RefusalsAreResets
<1>5. CASE ComposeNext
  <2>1. /\ call.at = "compose" /\ UNCHANGED <<market, portfolio>>
        /\ DOMAIN call = {"at", "paths", "resolved", "scores", "candidates", "seen", "lost"}
    BY <1>5 DEF ComposeNext, CallInv, Fields
  <2>2. /\ call'.at = "compose" /\ call'.paths = call.paths /\ call'.lost = call.lost
        /\ call'.resolved = call.resolved
    BY <1>5, <2>1 DEF ComposeNext
  <2>3. CandidatesOf(call', portfolio)
    BY <1>5, OneMoreCandidate
  <2>. QED
    BY <2>1, <2>2, <2>3 DEF OfferInv, RefusalsAreResets
<1>6. CASE AnswerCandidates
  <2>1. /\ call.at = "compose" /\ UNCHANGED <<market, portfolio>>
        /\ DOMAIN call = {"at", "paths", "resolved", "scores", "candidates", "seen", "lost"}
    BY <1>6 DEF AnswerCandidates, CallInv, Fields
  <2>2. /\ call'.at = "offered" /\ call'.paths = call.paths /\ call'.lost = call.lost
        /\ call'.resolved = call.resolved /\ call'.candidates = call.candidates
        /\ call'.seen = call.seen /\ call'.scores = call.scores
    BY <1>6, <2>1 DEF AnswerCandidates
  <2>3. CandidatesOf(call', portfolio)
    BY <2>1, <2>2 DEF OfferInv, CandidatesOf
  <2>. QED
    BY <2>1, <2>2, <2>3 DEF OfferInv, RefusalsAreResets
<1>7. CASE PutRouting
  <2>1. call.at = "offered" /\ UNCHANGED <<market, portfolio>>
    BY <1>7 DEF PutRouting
  <2>2. CASE call' = Idle
    BY <1>1, <2>1, <2>2 DEF Idle, Fields
  <2>3. CASE call' # Idle
    <3>1. PICK c \in ToSet(call.candidates) : \E option \in ToSet(c.options) :
              call' = [at |-> "validate", lost |-> call.lost,
                       path |-> c.path, applied |-> AppliedBy(option.scheme),
                       held |-> ToSet(portfolio), todo |-> DOMAIN AppliedBy(option.scheme)]
      BY <1>7, <2>3 DEF PutRouting
    <3>2. PICK option \in ToSet(c.options) :
              call' = [at |-> "validate", lost |-> call.lost,
                       path |-> c.path, applied |-> AppliedBy(option.scheme),
                       held |-> ToSet(portfolio), todo |-> DOMAIN AppliedBy(option.scheme)]
      BY <3>1
    <3>3. AsOffered(call', market)
      BY <2>1, <3>2, PutIsOffered
    <3>4. call'.at = "validate" /\ DOMAIN call' = {"at", "lost", "path", "applied", "held", "todo"}
      BY <3>2
    <3>. QED
      BY <2>1, <3>3, <3>4 DEF OfferInv, RefusalsAreResets
  <2>. QED
    BY <2>2, <2>3
<1>8. CASE ValidateHop
  <2>1. /\ call.at = "validate" /\ UNCHANGED <<market, portfolio>> /\ AsOffered(call, market)
        /\ DOMAIN call = {"at", "lost", "path", "applied", "held", "todo"}
    BY <1>8 DEF ValidateHop, OfferInv, CallInv, Fields
  <2>2. PICK h \in call.todo :
            call' = IF HopIsCovered(h)
                    THEN [call EXCEPT !.todo = @ \ {h}]
                    ELSE [at |-> "refused", applied |-> call.applied, lost |-> call.lost]
    BY <1>8 DEF ValidateHop
  <2>3. CASE HopIsCovered(h)
    <3>1. /\ DOMAIN call' = DOMAIN call /\ call'.at = "validate" /\ call'.todo = call.todo \ {h}
          /\ call'.path = call.path /\ call'.applied = call.applied /\ call'.held = call.held
          /\ call'.lost = call.lost
      BY <2>1, <2>2, <2>3
    <3>2. AsOffered(call', market)
      BY <2>1, <3>1 DEF AsOffered
    <3>. QED
      BY <2>1, <3>1, <3>2 DEF OfferInv, RefusalsAreResets
  <2>4. CASE ~HopIsCovered(h)
    <3>1. call' = [at |-> "refused", applied |-> call.applied, lost |-> call.lost]
      BY <2>2, <2>4
    <3>2. h \in DOMAIN call.applied /\ call.applied[h].sla \in call.lost
      BY <2>1, <2>4 DEF AsOffered, HopIsCovered
    <3>. QED
      BY <2>1, <3>1, <3>2 DEF OfferInv, RefusalsAreResets
  <2>. QED
    BY <2>3, <2>4
<1>9. CASE SetRouting
  BY <1>1, <1>9 DEF SetRouting, Fields
<1>10. CASE ChooseRoute
  <2>1. PICK paths \in PathsFrom(LocalAS), policy \in Policies :
            call' = IF paths = <<>> THEN Idle
                    ELSE [at |-> "market", paths |-> paths, policy |-> policy]
    BY <1>10 DEF ChooseRoute
  <2>2. paths \in {<<>>, RealPaths}
    BY PathsRead
  <2>. QED
    BY <1>1, <1>10, <2>1, <2>2 DEF ChooseRoute, Idle, Fields
<1>11. CASE ListActive
  <2>1. call.at = "market" /\ "paths" \in DOMAIN call
    BY <1>11 DEF ListActive, CallInv, Fields
  <2>. QED
    BY <1>1, <1>11, <2>1 DEF ListActive, OfferInv, Fields
<1>12. CASE ComparePath
  <2>1. /\ call.at = "choose" /\ UNCHANGED <<market, portfolio>>
        /\ DOMAIN call = {"at", "paths", "policy", "pool", "scores", "next", "best"}
    BY <1>12 DEF ComparePath, CallInv, Fields
  <2>2. call'.at = "choose" /\ call'.paths = call.paths /\ DOMAIN call' = DOMAIN call
    BY <1>12, <2>1 DEF ComparePath
  <2>. QED
    BY <1>1, <2>1, <2>2 DEF OfferInv, Fields
<1>13. CASE Decide
  BY <1>1, <1>13 DEF Decide, Idle, Fields
<1>14. CASE CallFails \/ Answer
  BY <1>1, <1>14 DEF CallFails, Answer, Idle, Fields
<1>15. ASSUME NEW claim \in Claim, AppendClaim(claim) PROVE OfferInv'
  BY <1>15, MorePortfolio
<1>16. CASE Wipe
  <2>1. market' = {} /\ call' = Losing(market) /\ UNCHANGED portfolio
    BY <1>16 DEF Wipe
  <2>2. CASE "lost" \notin DOMAIN call
    <3>1. call' = call /\ call.at \notin {"compose", "offered", "validate", "refused", "resolve"}
      BY <2>1, <2>2 DEF Losing, CallInv, Fields
    <3>2. "resolved" \notin DOMAIN call
      BY <3>1 DEF CallInv, Fields
    <3>. QED
      BY <2>1, <3>1, <3>2 DEF OfferInv, RefusalsAreResets
  <2>3. CASE "lost" \in DOMAIN call
    <3>1. call' = [call EXCEPT !.lost = @ \cup market]
      BY <2>1, <2>3 DEF Losing
    <3>2. /\ DOMAIN call' = DOMAIN call /\ call'.lost = call.lost \cup market
          /\ call'.at = call.at
      BY <2>3, <3>1 DEF CallInv, Fields
    <3>3. "paths" \in DOMAIN call => call'.paths = call.paths
      BY <3>1
    <3>4. "resolved" \in DOMAIN call => call'.resolved = call.resolved
      BY <3>1
    <3>5. call.at \in {"compose", "offered"} => CandidatesOf(call', portfolio)
      <4>. SUFFICES ASSUME call.at \in {"compose", "offered"} PROVE CandidatesOf(call', portfolio)
        OBVIOUS
      <4>1. /\ DOMAIN call = {"at", "paths", "resolved", "scores", "candidates", "seen", "lost"}
            /\ CandidatesOf(call, portfolio)
        BY DEF CallInv, OfferInv, Fields
      <4>2. /\ call'.candidates = call.candidates /\ call'.seen = call.seen
            /\ call'.paths = call.paths /\ call'.resolved = call.resolved
            /\ call'.scores = call.scores
        BY <3>1, <4>1
      <4>. QED
        BY <4>1, <4>2 DEF CandidatesOf
    <3>6. call.at = "validate" => AsOffered(call', {})
      <4>. SUFFICES ASSUME call.at = "validate" PROVE AsOffered(call', {})
        OBVIOUS
      <4>1. /\ DOMAIN call = {"at", "lost", "path", "applied", "held", "todo"}
            /\ AsOffered(call, market)
        BY DEF CallInv, OfferInv, Fields
      <4>2. /\ call'.todo = call.todo /\ call'.applied = call.applied /\ call'.held = call.held
            /\ call'.path = call.path
        BY <3>1, <4>1
      <4>. QED
        BY <3>2, <4>1, <4>2 DEF AsOffered
    <3>7. call.at = "refused" => call'.applied = call.applied
      BY <3>1 DEF CallInv, Fields
    <3>. QED
      BY <2>1, <3>2, <3>3, <3>4, <3>5, <3>6, <3>7 DEF OfferInv, RefusalsAreResets
  <2>. QED
    BY <2>2, <2>3
<1>17. ASSUME NEW s \in SLAs, Post(s) PROVE OfferInv'
  <2>1. market' = market \cup {s} /\ UNCHANGED <<portfolio, call>>
    BY <1>17 DEF Post
  <2>2. AsOffered(call, market) => AsOffered(call, market')
    BY <2>1 DEF AsOffered
  <2>. QED
    BY <2>1, <2>2 DEF OfferInv, RefusalsAreResets
<1>. QED
  BY <1>2, <1>3, <1>4, <1>5, <1>6, <1>7, <1>8, <1>9, <1>10, <1>11, <1>12, <1>13, <1>14, <1>15,
     <1>16, <1>17 DEF Next

(***************************************************************************)
(* What holds between the stages of a call: claims with one identifier are *)
(* one claim, the SLAs that were resolved are the aggregator's or were     *)
(* lost, a candidate is made of claims that are still held, and a route    *)
(* that was offered passes its checks except for what was lost.            *)
(***************************************************************************)
THEOREM OfferInvariant == Spec => []OfferInv
<1>1. Init => OfferInv
  BY DEF Init, OfferInv, IsPortfolio, RefusalsAreResets, Idle
<1>2. CallInv /\ OfferInv /\ [Next]_vars => OfferInv'
  <2>1. OfferInv /\ UNCHANGED vars => OfferInv'
    BY DEF OfferInv, vars, CandidatesOf, AsOffered, RefusalsAreResets
  <2>. QED
    BY <2>1, OfferStep
<1>. QED
  BY <1>1, <1>2, CallInvariant, PTL DEF Spec

LEMMA TypesAre ==
    ASSUME CallInv, OfferInv
    PROVE  TypeOK
<1>1. portfolio \in BoundedSeq(Claim, MaxClaims)
  <2>. DEFINE L == Len(portfolio)
  <2>1. portfolio \in [1..L -> Claim] /\ L \in 0..MaxClaims
    BY RoutingAssumption DEF CallInv
  <2>. HIDE DEF L
  <2>. QED
    BY <2>1 DEF BoundedSeq, SeqOf
<1>2. ASSUME "candidates" \in DOMAIN call, NEW c \in ToSet(call.candidates)
      PROVE  Len(c.options) <= MaxSchemes
  <2>1. call.at \in {"compose", "offered"}
    BY <1>2 DEF CallInv, Fields
  <2>2. PICK n \in DOMAIN call.candidates : c = call.candidates[n]
    BY DEF ToSet
  <2>3. OptionsFrom(c.path, call.seen[n], call.resolved, call.scores, c.options)
    BY <2>1, <2>2, CandidateIs
  <2>. QED
    BY <2>3 DEF OptionsFrom
<1>. QED
  BY <1>1, <1>2 DEF TypeOK, CallInv

\* The planner's state is well typed, and no path is offered more schemes than
\* MAX_SCHEMES, whatever the portfolio.
THEOREM RoutingTypes == Spec => []TypeOK
  BY CallInvariant, OfferInvariant, TypesAre, PTL

\* What `scion showpaths' prints of a path, in either form, is read as the path
\* (_parse_sequence, _parse_hops_array), for every topology and all paths.
THEOREM PathsHold == Spec => []PathsParsed
<1>1. OfferInv => PathsParsed
  BY DEF OfferInv, PathsParsed
<1>. QED
  BY <1>1, OfferInvariant, PTL

\* An offer that is put as it was offered is refused only if the aggregator
\* forgot one of its SLAs in the meantime (_validate_routing).
THEOREM RefusalsHold == Spec => []RefusalsAreResets
<1>1. OfferInv => RefusalsAreResets
  BY DEF OfferInv
<1>. QED
  BY <1>1, OfferInvariant, PTL

LEMMA OptionHas ==
    ASSUME NEW scheme, NEW path, NEW scores
    PROVE  /\ Option(scheme, path, scores).scheme = scheme
           /\ Option(scheme, path, scores).bounds = AggregateBounds(SLAsOf(scheme))
           /\ Option(scheme, path, scores).reputation = Reputation(scheme, path, scores)
  BY DEF Option

LEMMA OffersAreInOrder ==
    ASSUME CallInv, OfferInv
    PROVE  OffersInOrder
<1>. SUFFICES ASSUME NEW n \in Composed
              PROVE  LET places == Placements(call.candidates[n].path, call.seen[n], call.resolved)
                         order == SortedBy(Schemes(places), Sooner)
                     IN  SchemesOffered(n) =
                             [i \in 1..Min({MaxSchemes, Len(order)}) |-> Scheme(places, order[i])]
  BY DEF OffersInOrder, Schemes, Apart
<1>. DEFINE c == call.candidates[n]
            places == Placements(c.path, call.seen[n], call.resolved)
            order == SortedBy(Schemes(places), Sooner)
            K == Min({MaxSchemes, Len(order)})
<1>1. call.at = "offered" /\ n \in DOMAIN call.candidates
  BY DEF Composed
<1>2. OptionsFrom(c.path, call.seen[n], call.resolved, call.scores, c.options)
  BY <1>1, CandidateIs
<1>3. /\ DOMAIN c.options = 1..K
      /\ \A i \in 1..K : c.options[i] = Option(Scheme(places, order[i]), c.path, call.scores)
  BY <1>2 DEF OptionsFrom
<1>. HIDE DEF c, places, order, K
<1>4. \A i \in 1..K : c.options[i].scheme = Scheme(places, order[i])
  BY <1>3, OptionHas
<1>5. SchemesOffered(n) = [i \in 1..K |-> Scheme(places, order[i])]
  BY <1>3, <1>4 DEF SchemesOffered, c
<1>. QED
  BY <1>5 DEF K, order, places, c

\* An option of a complete answer.
LEMMA OfferedIs ==
    ASSUME CallInv, OfferInv, NEW n \in Composed,
           NEW option \in ToSet(call.candidates[n].options)
    PROVE  /\ call.candidates[n].path \in Seq(PathHop)
           /\ IsPortfolio(call.seen[n])
           /\ Fits(call.candidates[n].path, call.seen[n], call.resolved, option.scheme)
           /\ option = Option(option.scheme, call.candidates[n].path, call.scores)
<1>. DEFINE c == call.candidates[n]
            places == Placements(c.path, call.seen[n], call.resolved)
            order == SortedBy(Schemes(places), Sooner)
            K == Min({MaxSchemes, Len(order)})
<1>1. call.at = "offered" /\ n \in DOMAIN call.candidates
  BY DEF Composed
<1>2. /\ OptionsFrom(c.path, call.seen[n], call.resolved, call.scores, c.options)
      /\ c.path \in Seq(PathHop) /\ IsPortfolio(call.seen[n])
  BY <1>1, CandidateIs
<1>3. /\ DOMAIN c.options = 1..K
      /\ \A i \in 1..K : /\ c.options[i] = Option(Scheme(places, order[i]), c.path, call.scores)
                          /\ Fits(c.path, call.seen[n], call.resolved, c.options[i].scheme)
  BY <1>2 DEF OptionsFrom
<1>. HIDE DEF places, order, K
<1>4. PICK i \in 1..K : option = c.options[i]
  BY <1>3 DEF ToSet
<1>. HIDE DEF c
<1>5. option.scheme = Scheme(places, order[i])
  BY <1>3, <1>4, OptionHas
<1>6. option = Option(option.scheme, c.path, call.scores)
  BY <1>3, <1>4, <1>5
<1>. QED
  BY <1>2, <1>3, <1>4, <1>6 DEF c

LEMMA OffersCompose ==
    ASSUME CallInv, OfferInv
    PROVE  AggregatesCompose
<1>. SUFFICES ASSUME NEW n \in Composed, NEW option \in ToSet(call.candidates[n].options)
              PROVE  LET composed == ComposeBounds(SLAsOf(option.scheme))
                     IN  \A m \in DOMAIN composed :
                             m \in DOMAIN option.bounds /\ option.bounds[m] = composed[m]
  BY DEF AggregatesCompose, Options
<1>. DEFINE parts == SLAsOf(option.scheme)
<1>1. /\ Fits(call.candidates[n].path, call.seen[n], call.resolved, option.scheme)
      /\ option = Option(option.scheme, call.candidates[n].path, call.scores)
  BY OfferedIs
<1>2. option.bounds = AggregateBounds(parts)
  BY <1>1, OptionHas
<1>3. 1 \in DOMAIN parts
  BY <1>1 DEF Fits, SLAsOf
<1>. HIDE DEF parts
<1>4. \A m \in DOMAIN ComposeBounds(parts) :
          /\ m \in DOMAIN AggregateBounds(parts)
          /\ AggregateBounds(parts)[m] = ComposeBounds(parts)[m]
  BY <1>3, AggregateIs
<1>. QED
  BY <1>2, <1>4 DEF parts

LEMMA OffersAreRated ==
    ASSUME CallInv, OfferInv
    PROVE  ReputationOfChain
<1>. SUFFICES ASSUME NEW n \in Composed, NEW option \in ToSet(call.candidates[n].options)
              PROVE  LET path == call.candidates[n].path
                     IN  option.reputation =
                             IF UNION {Hops(p) : p \in ToSet(option.scheme)} = DOMAIN path
                             THEN {Min({ScoreOf(a, call.scores) : a \in ToSet(ASesOf(path))})}
                             ELSE {}
  BY DEF ReputationOfChain
<1>. DEFINE path == call.candidates[n].path
<1>1. /\ path \in Seq(PathHop) /\ IsPortfolio(call.seen[n])
      /\ Fits(path, call.seen[n], call.resolved, option.scheme)
      /\ option = Option(option.scheme, path, call.scores)
  BY OfferedIs
<1>. HIDE DEF path
<1>2. option.reputation = Reputation(option.scheme, path, call.scores)
  BY <1>1, OptionHas
<1>3. Reputation(option.scheme, path, call.scores) =
          IF HopsOf(option.scheme, DOMAIN option.scheme) = DOMAIN path
          THEN {Min({ScoreOf(a, call.scores) : a \in ToSet(ASesOf(path))})}
          ELSE {}
  BY <1>1, ReputationIs
<1>4. HopsOf(option.scheme, DOMAIN option.scheme) = UNION {Hops(p) : p \in ToSet(option.scheme)}
  BY DEF HopsOf, ToSet
<1>. QED
  BY <1>2, <1>3, <1>4 DEF path

(***************************************************************************)
(* _enumerate_schemes: the recursion with its running cap offers the first *)
(* MAX_SCHEMES of the sets of placements that share no hop, each once, in  *)
(* the order in which later placements are preferred, whatever the path    *)
(* and the portfolio.                                                      *)
(***************************************************************************)
THEOREM OffersHold == Spec => []OffersInOrder
  BY CallInvariant, OfferInvariant, OffersAreInOrder, PTL

\* The planner's aggregate of a scheme has every bound that compose_bounds
\* makes of its SLAs, with the same value.
THEOREM AggregatesHold == Spec => []AggregatesCompose
  BY CallInvariant, OfferInvariant, OffersCompose, PTL

\* A count of hops decides whether a scheme covers its path, and the reputation
\* is taken over the cosigners of its SLAs: what comes out is the least score of
\* the ASes of the path, just when each of its hops is covered.
THEOREM ReputationHolds == Spec => []ReputationOfChain
  BY CallInvariant, OfferInvariant, OffersAreRated, PTL
==============================================================================
