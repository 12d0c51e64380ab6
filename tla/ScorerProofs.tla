----------------------------- MODULE ScorerProofs -----------------------------
(***************************************************************************)
(* The reference definition of the scorer as the equation it solves: which *)
(* positions of a log fire, for every log, K and W.  Fires is recursive, so*)
(* that it has a value at all has to be shown first, by induction.         *)
(***************************************************************************)
EXTENDS Scorer, Foundations

\* F is what fires of A up to n, when P holds the pairs of a position that fires
\* and one it keeps suppressed.
Solves(F, A, P, n) ==
    \A m \in 1..n : m \in F <=> m \in A /\ \A f \in F : f < m => <<f, m>> \notin P

LEMMA SolutionExists ==
    ASSUME NEW A, NEW P
    PROVE  \A n \in Nat : \E F \in SUBSET (1..n) : Solves(F, A, P, n)
<1>. DEFINE S == {n \in Nat : \E F \in SUBSET (1..n) : Solves(F, A, P, n)}
<1>1. 0 \in S
  <2>1. {} \in SUBSET (1..0) /\ Solves({}, A, P, 0)
    BY DEF Solves
  <2> QED
    BY <2>1
<1>2. ASSUME NEW n \in Nat, n \in S PROVE n + 1 \in S
  <2>1. PICK F \in SUBSET (1..n) : Solves(F, A, P, n)
    BY <1>2
  <2>. DEFINE G == IF n + 1 \in A /\ \A f \in F : <<f, n + 1>> \notin P
                   THEN F \cup {n + 1} ELSE F
  <2>2. G \in SUBSET (1..(n + 1)) /\ \A m \in 1..n : m \in G <=> m \in F
    OBVIOUS
  <2>3. n + 1 \in G <=> n + 1 \in A /\ \A f \in F : <<f, n + 1>> \notin P
    OBVIOUS
  <2>4. \A m \in 1..(n + 1) : \A f : f \in F /\ f < m <=> f \in G /\ f < m
    OBVIOUS
  <2>. HIDE DEF G
  <2>5. \A f \in F : f < n + 1
    OBVIOUS
  <2>6. ASSUME NEW m \in 1..(n + 1)
        PROVE  m \in G <=> m \in A /\ \A f \in G : f < m => <<f, m>> \notin P
    <3>1. CASE m \in 1..n
      BY <2>1, <2>2, <2>4, <3>1 DEF Solves
    <3>2. CASE m = n + 1
      BY <2>3, <2>4, <2>5, <3>2
    <3> QED
      BY <3>1, <3>2
  <2> QED
    BY <2>2, <2>6 DEF Solves
<1>. HIDE DEF S
<1>3. \A n \in Nat : n \in S
  BY <1>1, <1>2, Induction
<1> QED
  BY <1>3 DEF S

\* Fires is what its recursion says: a position fires when enough complainants
\* stand in its window and no earlier one that fires keeps it suppressed.
THEOREM FiresEquation ==
    ASSUME NEW Entries, NEW log \in Seq(Entries)
    PROVE  /\ Fires(log) \subseteq 1..Len(log)
           /\ \A n \in 1..Len(log) :
                n \in Fires(log) <=>
                    /\ Cardinality(Window(log, n)) >= K
                    /\ \A f \in Fires(log) : f < n => ~Persists(log, f, n)
<1>. DEFINE L == Len(log)
            A == {n \in 1..L : Cardinality(Window(log, n)) >= K}
            P == {p \in (1..L) \X (1..L) : Persists(log, p[1], p[2])}
<1>0. L \in Nat
  OBVIOUS
<1>1. PICK F \in SUBSET (1..L) : Solves(F, A, P, L)
  BY <1>0, SolutionExists
<1>. DEFINE Eq(g) == g = [n \in 1..L |->
                            /\ Cardinality(Window(log, n)) >= K
                            /\ \A f \in 1..(n - 1) : g[f] => ~Persists(log, f, n)]
            g0 == [n \in 1..L |-> n \in F]
<1>2. \A f, n \in 1..L : <<f, n>> \in P <=> Persists(log, f, n)
  BY Zenon
<1>3. ASSUME NEW n \in 1..L
      PROVE  (n \in F) <=> /\ Cardinality(Window(log, n)) >= K
                           /\ \A f \in 1..(n - 1) : g0[f] => ~Persists(log, f, n)
  <2>1. n \in F <=> n \in A /\ \A f \in F : f < n => <<f, n>> \notin P
    BY <1>1 DEF Solves
  <2>2. \A f \in 1..(n - 1) : f \in 1..L /\ f < n
    BY <1>0
  <2>3. \A f \in 1..L : f < n => f \in 1..(n - 1)
    BY <1>0
  <2>4. \A f \in 1..L : g0[f] <=> f \in F
    BY Zenon
  <2>5. n \in A <=> Cardinality(Window(log, n)) >= K
    OBVIOUS
  <2> HIDE DEF g0, A, P, L
  <2> QED
    BY <1>1, <1>2, <2>1, <2>2, <2>3, <2>4, <2>5, Zenon
<1>4. Eq(g0)
  <2>. DEFINE body(g, n) == /\ Cardinality(Window(log, n)) >= K
                            /\ \A f \in 1..(n - 1) : g[f] => ~Persists(log, f, n)
  <2>1. \A n \in 1..L : n \in F <=> body(g0, n)
    BY <1>3, Zenon
  <2>2. [n \in 1..L |-> n \in F] = [n \in 1..L |-> body(g0, n)]
    <3>1. \A n \in 1..L : (n \in F) \in BOOLEAN /\ body(g0, n) \in BOOLEAN
      OBVIOUS
    <3> HIDE DEF body, g0, L
    <3> QED
      BY <2>1, <3>1, Zenon
  <2>3. g0 = [n \in 1..L |-> body(g0, n)]
    BY <2>2, Zenon
  <2> QED
    BY <2>3, Zenon
<1>. DEFINE fires == CHOOSE g : Eq(g)
<1>5. Eq(fires)
  BY <1>4, Zenon
<1>6. Fires(log) = {n \in 1..L : fires[n]}
  BY Zenon DEF Fires
<1>. HIDE DEF fires
<1>7. ASSUME NEW n \in 1..L
      PROVE  fires[n] <=> /\ Cardinality(Window(log, n)) >= K
                          /\ \A f \in 1..(n - 1) : fires[f] => ~Persists(log, f, n)
  BY <1>5, Zenon
<1>8. ASSUME NEW n \in 1..L
      PROVE  n \in Fires(log) <=>
                    /\ Cardinality(Window(log, n)) >= K
                    /\ \A f \in Fires(log) : f < n => ~Persists(log, f, n)
  <2>2. \A f \in 1..(n - 1) : f \in 1..L /\ f < n
    BY <1>0
  <2>3. \A f \in 1..L : f < n => f \in 1..(n - 1)
    BY <1>0
  <2>. HIDE DEF L
  <2> QED
    BY <1>6, <1>7, <2>2, <2>3, Zenon
<1> QED
  BY <1>6, <1>8

\* What fires up to a position depends on the log up to there: a complaint at
\* the end of a log changes nothing before it.
LEMMA FiresSoFar ==
    ASSUME NEW Entries, NEW log \in Seq(Entries), NEW c \in Entries
    PROVE  /\ Fires(log) \subseteq 1..Len(log)
           /\ Fires(Append(log, c)) \subseteq 1..(Len(log) + 1)
           /\ \A n \in 1..Len(log) : n \in Fires(Append(log, c)) <=> n \in Fires(log)
<1>. DEFINE L == Len(log)
            more == Append(log, c)
            Differ == {n \in 1..L : ~(n \in Fires(more) <=> n \in Fires(log))}
<1>1. /\ L \in Nat /\ more \in Seq(Entries) /\ Len(more) = L + 1
      /\ \A n \in 1..L : more[n] = log[n]
  OBVIOUS
<1>. HIDE DEF L, more
<1>2. ASSUME NEW n \in 1..L PROVE Window(more, n) = Window(log, n)
  <2>1. \A m \in 1..n : m \in 1..L
    BY <1>1
  <2> QED
    BY <1>1, <2>1 DEF Window
<1>3. ASSUME NEW f \in 1..L, NEW n \in 1..L PROVE Persists(more, f, n) <=> Persists(log, f, n)
  <2>1. \A m \in f..n : m \in 1..L
    BY <1>1
  <2>2. \A m \in f..n : /\ Window(more, m) = Window(log, m)
                        /\ Window(more, f) = Window(log, f)
    BY <1>2, <2>1
  <2> QED
    BY <2>2 DEF Persists
<1>4. /\ Fires(log) \subseteq 1..L
      /\ \A n \in 1..L :
            n \in Fires(log) <=>
                /\ Cardinality(Window(log, n)) >= K
                /\ \A f \in Fires(log) : f < n => ~Persists(log, f, n)
  BY FiresEquation DEF L
<1>5. /\ Fires(more) \subseteq 1..(L + 1)
      /\ \A n \in 1..(L + 1) :
            n \in Fires(more) <=>
                /\ Cardinality(Window(more, n)) >= K
                /\ \A f \in Fires(more) : f < n => ~Persists(more, f, n)
  <2>1. /\ Fires(more) \subseteq 1..Len(more)
        /\ \A n \in 1..Len(more) :
              n \in Fires(more) <=>
                  /\ Cardinality(Window(more, n)) >= K
                  /\ \A f \in Fires(more) : f < n => ~Persists(more, f, n)
    BY <1>1, FiresEquation
  <2> QED
    BY <1>1, <2>1
<1>6. ASSUME NEW n \in Differ, \A m \in Differ : n <= m PROVE FALSE
  <2>1. n \in 1..L /\ n \in 1..(L + 1) /\ n \in Nat
    BY <1>1
  <2>2. \A f \in 1..L : f < n => (f \in Fires(more) <=> f \in Fires(log))
    BY <1>1, <1>6, <2>1
  <2>3. \A f : f < n /\ (f \in Fires(more) \/ f \in Fires(log)) => f \in 1..L
    BY <1>1, <1>4, <1>5, <2>1
  <2>4. Window(more, n) = Window(log, n)
        /\ \A f \in 1..L : Persists(more, f, n) <=> Persists(log, f, n)
    BY <1>2, <1>3, <2>1
  <2>5. n \in Fires(more) <=>
            /\ Cardinality(Window(more, n)) >= K
            /\ \A f \in Fires(more) : f < n => ~Persists(more, f, n)
    BY <1>5, <2>1
  <2>6. n \in Fires(log) <=>
            /\ Cardinality(Window(log, n)) >= K
            /\ \A f \in Fires(log) : f < n => ~Persists(log, f, n)
    BY <1>4, <2>1
  <2>7. n \in Fires(more) <=> n \in Fires(log)
    BY <2>2, <2>3, <2>4, <2>5, <2>6, Zenon
  <2> QED
    BY <2>7
<1>7. Differ = {}
  <2>1. Differ \subseteq Nat
    BY <1>1
  <2>. HIDE DEF Differ
  <2> QED
    BY <1>6, <2>1, LeastOf
<1> QED
  BY <1>4, <1>5, <1>7 DEF L, more

==============================================================================
