----------------------------- MODULE Foundations -----------------------------
(***************************************************************************)
(* Facts that the proofs of several modules rest on: induction over the    *)
(* natural numbers, the places of a finite order, folds and sums over      *)
(* finite sets.                                                            *)
(***************************************************************************)
EXTENDS Integers, FiniteSets, WellFoundedInduction, FiniteSetTheorems, TLAPS

-----------------------------------------------------------------------------
(* Induction over the natural numbers, from their least elements.          *)

LEMMA LessIsWellFounded ==
    \E R : /\ IsWellFoundedOn(R, Nat)
           /\ \A m, n \in Nat : m < n => <<m, n>> \in R
<1>1. \A m, n \in Nat : m < n => <<m, n>> \in OpToRel(<, Nat)
  BY Zenon DEF OpToRel
<1>2. IsWellFoundedOn(OpToRel(<, Nat), Nat)
  BY NatLessThanWellFounded
<1> QED
  BY <1>1, <1>2, Zenon

LEMMA MinimalOf ==
    ASSUME NEW R, IsWellFoundedOn(R, Nat), NEW S, S \subseteq Nat, S # {}
    PROVE  \E n \in S : \A m \in S : ~(<<m, n>> \in R)
  BY WFMin, Zenon

LEMMA LeastOf ==
    ASSUME NEW S, S \subseteq Nat, S # {}
    PROVE  \E n \in S : \A m \in S : n <= m
<1>1. PICK R : /\ IsWellFoundedOn(R, Nat)
               /\ \A m, n \in Nat : m < n => <<m, n>> \in R
  BY LessIsWellFounded
<1>2. \E n \in S : \A m \in S : ~(<<m, n>> \in R)
  BY <1>1, MinimalOf, Zenon
<1>3. PICK n \in S : \A m \in S : ~(m < n)
  BY <1>1, <1>2, Zenon
<1> QED
  BY <1>3

\* A set of numbers that holds 0 and the successors of its members.
LEMMA Induction ==
    ASSUME NEW S, 0 \in S, \A n \in Nat : n \in S => n + 1 \in S
    PROVE  \A n \in Nat : n \in S
<1>. DEFINE T == Nat \ S
<1> SUFFICES ASSUME T # {} PROVE FALSE
  OBVIOUS
<1>1. PICK n \in T : \A m \in T : n <= m
  BY LeastOf
<1>2. n \in Nat \ {0} /\ n - 1 \in Nat /\ n - 1 \notin T
  BY <1>1
<1>3. n - 1 \in S /\ (n - 1) + 1 = n
  BY <1>2
<1> QED
  BY <1>1, <1>2, <1>3

-----------------------------------------------------------------------------
(* The places of the members of a finite set in an order.                  *)

\* Of any two members of S, R has one before the other.
Orders(R, S) ==
    /\ \A x \in S : <<x, x>> \notin R
    /\ \A x, y \in S : x = y \/ <<x, y>> \in R \/ <<y, x>> \in R
    /\ \A x, y, z \in S : <<x, y>> \in R /\ <<y, z>> \in R => <<x, z>> \in R

PlaceOf(R, S, x) == Cardinality({y \in S : y = x \/ <<y, x>> \in R})

\* Each member has a place, and each place a member.
HavePlaces(R, S) ==
    /\ Cardinality(S) \in Nat
    /\ \A x \in S : PlaceOf(R, S, x) \in 1..Cardinality(S)
    /\ \A x, y \in S : <<x, y>> \in R => PlaceOf(R, S, x) < PlaceOf(R, S, y)
    /\ \A n \in 1..Cardinality(S) : \E x \in S : PlaceOf(R, S, x) = n

\* at lists every member once, in order.
Lists(at, R, S) ==
    /\ at \in [1..Cardinality(S) -> S]
    /\ \A m, n \in 1..Cardinality(S) : m < n => <<at[m], at[n]>> \in R
    /\ \A m, n \in 1..Cardinality(S) : at[m] = at[n] => m = n
    /\ \A x \in S : \E n \in 1..Cardinality(S) : at[n] = x

LEMMA Places ==
    ASSUME NEW S, IsFiniteSet(S), NEW R, Orders(R, S)
    PROVE  HavePlaces(R, S)
<1>. DEFINE UpTo(x) == {y \in S : y = x \/ <<y, x>> \in R}
            C == Cardinality(S)
<1>1. C \in Nat
  BY FS_CardinalityType
<1>2. ASSUME NEW x \in S
      PROVE  IsFiniteSet(UpTo(x)) /\ PlaceOf(R, S, x) \in 1..C
  <2>1. UpTo(x) \in SUBSET S /\ x \in UpTo(x)
    OBVIOUS
  <2>. HIDE DEF UpTo
  <2>2. /\ IsFiniteSet(UpTo(x)) /\ Cardinality(UpTo(x)) <= C
        /\ Cardinality(UpTo(x)) \in Nat /\ Cardinality(UpTo(x)) # 0
    BY <2>1, FS_Subset, FS_CardinalityType, FS_EmptySet
  <2>3. Cardinality(UpTo(x)) \in 1..C
    BY <1>1, <2>2
  <2>. QED
    BY <2>2, <2>3 DEF PlaceOf, UpTo
<1>3. ASSUME NEW x \in S, NEW y \in S, <<x, y>> \in R
      PROVE  PlaceOf(R, S, x) < PlaceOf(R, S, y)
  <2>1. UpTo(x) \in SUBSET UpTo(y) /\ y \in UpTo(y) /\ y \notin UpTo(x)
    BY <1>3 DEF Orders
  <2>2. IsFiniteSet(UpTo(x)) /\ IsFiniteSet(UpTo(y))
    BY <1>2
  <2>. HIDE DEF UpTo
  <2>3. /\ Cardinality(UpTo(x)) <= Cardinality(UpTo(y))
        /\ Cardinality(UpTo(x)) # Cardinality(UpTo(y))
        /\ Cardinality(UpTo(x)) \in Nat /\ Cardinality(UpTo(y)) \in Nat
    BY <2>1, <2>2, FS_Subset, FS_CardinalityType
  <2>4. Cardinality(UpTo(x)) < Cardinality(UpTo(y))
    BY <2>3
  <2>. QED
    BY <2>4 DEF PlaceOf, UpTo
<1>. HIDE DEF UpTo
<1>4. ASSUME NEW n \in 1..C PROVE \E x \in S : PlaceOf(R, S, x) = n
  <2>. DEFINE f == [x \in S |-> PlaceOf(R, S, x)]
  <2>1. ASSUME NEW x \in S, NEW y \in S, x # y PROVE PlaceOf(R, S, x) # PlaceOf(R, S, y)
    <3>1. PlaceOf(R, S, x) \in 1..C /\ PlaceOf(R, S, y) \in 1..C
      BY <1>2
    <3>2. PlaceOf(R, S, x) < PlaceOf(R, S, y) \/ PlaceOf(R, S, y) < PlaceOf(R, S, x)
      BY <1>3, <2>1 DEF Orders
    <3>. QED
      BY <3>1, <3>2
  <2>2. f \in [S -> 1..C] /\ \A x, y \in S : f[x] = f[y] => x = y
    BY <1>2, <2>1
  <2>. HIDE DEF f
  <2>3. f \in Injection(S, 1..C)
    BY <2>2 DEF Injection, IsInjective
  <2>4. IsFiniteSet(1..C) /\ Cardinality(1..C) = C
    BY <1>1, FS_Interval
  <2>5. Cardinality(S) = Cardinality(1..C) <=> f \in Surjection(S, 1..C)
    BY <2>3, <2>4, FS_Injection
  <2>6. f \in Surjection(S, 1..C)
    BY <2>4, <2>5
  <2>7. \E x \in S : f[x] = n
    BY <2>6 DEF Surjection
  <2>. QED
    BY <2>7 DEF f
<1>. QED
  BY <1>1, <1>2, <1>3, <1>4 DEF HavePlaces

\* What has every member at its place lists them in order.
LEMMA InPlaces ==
    ASSUME NEW S, IsFiniteSet(S), NEW R, Orders(R, S),
           NEW at \in [1..Cardinality(S) -> S],
           \A n \in 1..Cardinality(S) : PlaceOf(R, S, at[n]) = n
    PROVE  Lists(at, R, S)
<1>. DEFINE C == Cardinality(S)
<1>1. /\ C \in Nat
      /\ \A x \in S : PlaceOf(R, S, x) \in 1..C
      /\ \A x, y \in S : <<x, y>> \in R => PlaceOf(R, S, x) < PlaceOf(R, S, y)
  <2>1. HavePlaces(R, S)
    BY Places
  <2>. QED
    BY <2>1 DEF HavePlaces
<1>2. ASSUME NEW x \in S, NEW y \in S, PlaceOf(R, S, x) = PlaceOf(R, S, y) PROVE x = y
  <2>1. PlaceOf(R, S, x) \in Nat /\ PlaceOf(R, S, y) \in Nat
    BY <1>1
  <2>2. x = y \/ <<x, y>> \in R \/ <<y, x>> \in R
    BY DEF Orders
  <2>. QED
    BY <1>1, <1>2, <2>1, <2>2
<1>3. ASSUME NEW m \in 1..C, NEW n \in 1..C, m < n PROVE <<at[m], at[n]>> \in R
  <2>1. at[m] \in S /\ at[n] \in S /\ PlaceOf(R, S, at[m]) = m /\ PlaceOf(R, S, at[n]) = n
    OBVIOUS
  <2>2. <<at[n], at[m]>> \in R => n < m
    BY <1>1, <2>1
  <2>3. at[m] # at[n]
    BY <1>3, <2>1
  <2>. HIDE DEF C
  <2>4. ~(n < m)
    BY <1>1, <1>3
  <2>. QED
    BY <2>1, <2>2, <2>3, <2>4 DEF Orders
<1>4. \A x \in S : at[PlaceOf(R, S, x)] = x
  BY <1>1, <1>2
<1>. QED
  BY <1>1, <1>3, <1>4 DEF Lists

\* The members of a finite set in order: what sorting makes of it.
InOrder(R, S) == [n \in 1..Cardinality(S) |-> CHOOSE x \in S : PlaceOf(R, S, x) = n]

LEMMA InOrderLists ==
    ASSUME NEW S, IsFiniteSet(S), NEW R, Orders(R, S)
    PROVE  Lists(InOrder(R, S), R, S)
<1>. DEFINE at == InOrder(R, S)
<1>1. HavePlaces(R, S)
  BY Places, Zenon
<1>2. ASSUME NEW n \in 1..Cardinality(S) PROVE at[n] \in S /\ PlaceOf(R, S, at[n]) = n
  <2>1. \E x \in S : PlaceOf(R, S, x) = n
    BY <1>1 DEF HavePlaces
  <2>. QED
    BY <2>1 DEF InOrder
<1>3. at \in [1..Cardinality(S) -> S]
  <2>1. at = [n \in 1..Cardinality(S) |-> at[n]]
    BY DEF InOrder
  <2>. HIDE DEF at
  <2>. QED
    BY <1>2, <2>1
<1>. HIDE DEF at
<1>4. \A n \in 1..Cardinality(S) : PlaceOf(R, S, at[n]) = n
  BY <1>2
<1>5. Lists(at, R, S)
  BY <1>3, <1>4, InPlaces, Zenon
<1>. QED
  BY <1>5 DEF at

\* at lists the first K members: each other one comes after all of them.
ListsFirst(at, R, S, K) ==
    /\ at \in [1..K -> S]
    /\ \A m, n \in 1..K : m < n => <<at[m], at[n]>> \in R
    /\ \A x \in S : (\E n \in 1..K : at[n] = x) \/ (\A n \in 1..K : <<at[n], x>> \in R)

LEMMA FirstInOrder ==
    ASSUME NEW S, IsFiniteSet(S), NEW R, Orders(R, S), NEW K \in Nat, NEW at,
           ListsFirst(at, R, S, K)
    PROVE  /\ K <= Cardinality(S)
           /\ \A n \in 1..K : at[n] = InOrder(R, S)[n]
<1>. DEFINE o == InOrder(R, S)
            C == Cardinality(S)
            T == {n \in Nat : \A k \in 1..K : k <= n => k <= C /\ at[k] = o[k]}
<1>1. C \in Nat
  BY FS_CardinalityType
<1>2. Lists(o, R, S)
  BY InOrderLists
<1>. HIDE DEF o, C
<1>3. /\ o \in [1..C -> S]
      /\ \A m, n \in 1..C : m < n => <<o[m], o[n]>> \in R
      /\ \A m, n \in 1..C : o[m] = o[n] => m = n
      /\ \A x \in S : \E n \in 1..C : o[n] = x
  BY <1>2 DEF Lists, C
<1>4. \A x, y \in S : <<x, y>> \in R => x # y /\ <<y, x>> \notin R
  BY DEF Orders
<1>5. /\ \A n \in 1..K : at[n] \in S
      /\ \A m, n \in 1..K : m < n => <<at[m], at[n]>> \in R
      /\ \A x \in S : (\E n \in 1..K : at[n] = x) \/ (\A n \in 1..K : <<at[n], x>> \in R)
  BY DEF ListsFirst
<1>6. 0 \in T
  OBVIOUS
<1>7. ASSUME NEW n \in Nat, n \in T PROVE n + 1 \in T
  <2>. SUFFICES ASSUME NEW k \in 1..K, k <= n + 1 PROVE k <= C /\ at[k] = o[k]
    OBVIOUS
  <2>1. \A j \in 1..K : j < k => j <= C /\ at[j] = o[j]
    BY <1>7
  <2>2. PICK p \in 1..C : o[p] = at[k]
    BY <1>3, <1>5
  <2>3. ~(p < k)
    <3>1. SUFFICES ASSUME p < k PROVE FALSE
      OBVIOUS
    <3>2. p \in 1..K /\ at[p] = o[p]
      BY <1>1, <2>1, <3>1
    <3>. QED
      BY <1>4, <1>5, <2>2, <3>1, <3>2
  <2>4. k \in 1..C
    BY <1>1, <2>3
  <2>5. ~(p > k)
    <3>1. SUFFICES ASSUME p > k PROVE FALSE
      OBVIOUS
    <3>2. <<o[k], at[k]>> \in R /\ o[k] \in S /\ o[k] # at[k]
      <4>1. k < p
        BY <1>1, <3>1
      <4>2. <<o[k], o[p]>> \in R
        BY <1>3, <2>4, <4>1
      <4>. QED
        BY <1>3, <1>4, <1>5, <2>2, <2>4, <4>2
    <3>3. <<at[k], o[k]>> \notin R
      BY <1>4, <1>5, <3>2
    <3>4. PICK q \in 1..K : at[q] = o[k]
      BY <1>5, <3>2, <3>3
    <3>5. ~(q < k)
      <4>1. q < k => q \in 1..C /\ at[q] = o[q]
        BY <1>1, <2>1
      <4>2. q < k => q = k
        BY <1>3, <2>4, <3>4, <4>1
      <4>. QED
        BY <4>2
    <3>6. ~(k < q)
      BY <1>5, <3>3, <3>4
    <3>7. q = k
      BY <3>5, <3>6
    <3>. QED
      BY <3>2, <3>4, <3>7
  <2>6. p = k
    BY <1>1, <2>3, <2>5
  <2>. QED
    BY <1>1, <2>2, <2>4, <2>6
<1>8. K \in T
  <2>. HIDE DEF T
  <2>. QED
    BY <1>6, <1>7, Induction
<1>9. \A k \in 1..K : k <= C /\ at[k] = o[k]
  BY <1>8
<1>10. K <= C
  BY <1>1, <1>9
<1>. QED
  BY <1>9, <1>10 DEF o, C

-----------------------------------------------------------------------------
(* Folds over finite sets.                                                 *)

\* g[s] is what folding step over s makes of base, taking pick[s] first.
Folds(g, base, step, pick, U) ==
    \A s \in SUBSET U :
        g[s] = IF s = {} THEN base ELSE step[<<pick[s], g[s \ {pick[s]}]>>]

\* A fold has a value, which stays where its steps stay.
LEMMA FoldsExist ==
    ASSUME NEW U, IsFiniteSet(U), NEW V, NEW base \in V, NEW pick, NEW step,
           \A s \in SUBSET U : s # {} => pick[s] \in s,
           \A x \in U, v \in V : step[<<x, v>>] \in V
    PROVE  \E g \in [SUBSET U -> V] : Folds(g, base, step, pick, U)
<1>. DEFINE Small(n) == {s \in SUBSET U : Cardinality(s) <= n}
            Body(g, s) == IF s = {} THEN base ELSE step[<<pick[s], g[s \ {pick[s]}]>>]
            Fold(g, n) == g \in [Small(n) -> V] /\ \A s \in Small(n) : g[s] = Body(g, s)
            S == {n \in Nat : \E g : Fold(g, n)}
<1>0. ASSUME NEW s \in SUBSET U
      PROVE  /\ IsFiniteSet(s) /\ Cardinality(s) \in Nat
             /\ Cardinality(s) = 0 <=> s = {}
             /\ \A x \in s : Cardinality(s \ {x}) = Cardinality(s) - 1
  <2>1. IsFiniteSet(s)
    BY FS_Subset
  <2>. QED
    BY <2>1, FS_CardinalityType, FS_EmptySet, FS_RemoveElement
<1>1. 0 \in S
  <2>. DEFINE g == [s \in Small(0) |-> base]
  <2>1. \A s \in Small(0) : s = {}
    BY <1>0
  <2>2. \A s \in Small(0) : g[s] = base /\ Body(g, s) = base
    BY <2>1
  <2>. HIDE DEF Small, Body
  <2>3. Fold(g, 0)
    BY <2>2
  <2>. HIDE DEF g, Fold
  <2>. QED
    BY <2>3
<1>2. ASSUME NEW n \in Nat, n \in S PROVE n + 1 \in S
  <2>1. PICK f : Fold(f, n)
    BY <1>2
  <2>. DEFINE g == [s \in Small(n + 1) |-> Body(f, s)]
  <2>2. ASSUME NEW s \in Small(n + 1), s # {}
        PROVE  pick[s] \in U /\ s \ {pick[s]} \in Small(n)
    BY <1>0, <2>2
  <2>3. \A s \in Small(n) : s \in Small(n + 1)
    BY <1>0
  <2>. HIDE DEF Small
  <2>4. \A s \in Small(n + 1) : Body(f, s) \in V
    BY <2>1, <2>2
  <2>5. \A s \in Small(n) : g[s] = f[s]
    <3>. HIDE DEF Body
    <3>. QED
      BY <2>1, <2>3
  <2>6. \A s \in Small(n + 1) : Body(g, s) = Body(f, s)
    <3>. HIDE DEF g
    <3>. QED
      BY <2>2, <2>5
  <2>7. Fold(g, n + 1)
    <3>. HIDE DEF Body
    <3>. QED
      BY <2>4, <2>6
  <2>. HIDE DEF g, Fold
  <2>. QED
    BY <2>7
<1>3. \A n \in Nat : n \in S
  <2>. HIDE DEF S
  <2>. QED
    BY <1>1, <1>2, Induction
<1>4. PICK g : Fold(g, Cardinality(U))
  BY <1>0, <1>3
<1>5. Small(Cardinality(U)) = SUBSET U
  BY FS_Subset
<1>. QED
  BY <1>4, <1>5 DEF Folds

-----------------------------------------------------------------------------
(* Sums over finite sets, as the library folds them: the penalties of an   *)
(* AS, or the hops of a scheme.                                            *)

Pick(s) == CHOOSE x \in s : TRUE

\* g[s] is the sum of the weights w of the members of s, for every s of U.
Sums(g, w, U) ==
    g = [s \in SUBSET U |-> IF s = {} THEN 0 ELSE w[Pick(s)] + g[s \ {Pick(s)}]]

LEMMA PickOne ==
    ASSUME NEW U, IsFiniteSet(U), NEW s \in SUBSET U, s # {}
    PROVE  /\ Pick(s) \in s
           /\ \A x \in s : /\ s \ {x} \in SUBSET U
                           /\ IsFiniteSet(s \ {x})
                           /\ Cardinality(s \ {x}) = Cardinality(s) - 1
           /\ IsFiniteSet(s) /\ Cardinality(s) \in Nat \ {0}
<1>1. Pick(s) \in s
  BY DEF Pick
<1>2. IsFiniteSet(s) /\ Cardinality(s) \in Nat /\ Cardinality(s) # 0
  BY FS_Subset, FS_CardinalityType, FS_EmptySet
<1>3. ASSUME NEW x \in s
      PROVE  IsFiniteSet(s \ {x}) /\ Cardinality(s \ {x}) = Cardinality(s) - 1
  BY <1>2, FS_RemoveElement
<1> QED
  BY <1>1, <1>2, <1>3

LEMMA SumsExist ==
    ASSUME NEW U, IsFiniteSet(U), NEW w
    PROVE  \E g : Sums(g, w, U)
<1>. DEFINE Small(n) == {s \in SUBSET U : Cardinality(s) <= n}
            Body(g, s) == IF s = {} THEN 0 ELSE w[Pick(s)] + g[s \ {Pick(s)}]
            S == {n \in Nat : \E g : g = [s \in Small(n) |-> Body(g, s)]}
<1>1. 0 \in S
  <2>. DEFINE g == [s \in Small(0) |-> 0]
  <2>1. \A s \in Small(0) : s = {}
    BY PickOne
  <2>2. \A s \in Small(0) : Body(g, s) = 0
    BY <2>1
  <2>. HIDE DEF g, Body, Small
  <2>3. g = [s \in Small(0) |-> Body(g, s)]
    BY <2>2 DEF g
  <2> QED
    BY <2>3
<1>2. ASSUME NEW n \in Nat, n \in S PROVE n + 1 \in S
  <2>1. PICK f : f = [s \in Small(n) |-> Body(f, s)]
    BY <1>2
  <2>. DEFINE g == [s \in Small(n + 1) |-> Body(f, s)]
  <2>2. ASSUME NEW s \in Small(n + 1), s # {}
        PROVE  s \ {Pick(s)} \in Small(n) /\ s \ {Pick(s)} \in Small(n + 1)
    BY <2>2, PickOne
  <2>3. \A s \in Small(n) : s \in Small(n + 1)
    <3> SUFFICES ASSUME NEW s \in Small(n) PROVE Cardinality(s) <= n + 1
      OBVIOUS
    <3>1. Cardinality(s) \in Nat
      BY FS_Subset, FS_CardinalityType
    <3> QED
      BY <3>1
  <2>. HIDE DEF Small
  <2>4. \A s \in Small(n) : g[s] = f[s]
    <3>. HIDE DEF Body
    <3> QED
      BY <2>1, <2>3
  <2>5. \A s \in Small(n + 1) : Body(g, s) = Body(f, s)
    <3>. HIDE DEF g
    <3> QED
      BY <2>2, <2>4
  <2>6. g = [s \in Small(n + 1) |-> Body(g, s)]
    <3>. HIDE DEF Body
    <3> QED
      BY <2>5
  <2>7. \E h : h = [s \in Small(n + 1) |-> Body(h, s)]
    <3>. HIDE DEF Body, g
    <3> QED
      BY <2>6
  <2>. HIDE DEF Body
  <2> QED
    BY <2>7
<1>3. \A n \in Nat : n \in S
  <2>. HIDE DEF S
  <2> QED
    BY <1>1, <1>2, Induction
<1>4. Cardinality(U) \in S
  BY <1>3, FS_CardinalityType
<1>5. Small(Cardinality(U)) = SUBSET U
  BY FS_Subset
<1>6. PICK g : g = [s \in SUBSET U |-> Body(g, s)]
  <2>. HIDE DEF Small, Body
  <2> QED
    BY <1>4, <1>5
<1> QED
  BY <1>6 DEF Sums

\* Sums of integers are integers, and any member may be taken out first.
LEMMA SumsTake ==
    ASSUME NEW U, IsFiniteSet(U), NEW w, NEW g, Sums(g, w, U), \A x \in U : w[x] \in Int
    PROVE  /\ g[{}] = 0
           /\ \A s \in SUBSET U : g[s] \in Int
           /\ \A s \in SUBSET U : \A x \in s : g[s] = w[x] + g[s \ {x}]
<1>1. \A s \in SUBSET U :
          g[s] = IF s = {} THEN 0 ELSE w[Pick(s)] + g[s \ {Pick(s)}]
  BY Zenon DEF Sums
<1>2. g[{}] = 0
  BY <1>1
<1>. DEFINE Right(s) == /\ g[s] \in Int
                        /\ \A x \in s : g[s] = w[x] + g[s \ {x}]
            S == {n \in Nat : \A s \in SUBSET U : Cardinality(s) <= n => Right(s)}
<1>3. 0 \in S
  <2>1. \A s \in SUBSET U : Cardinality(s) <= 0 => s = {}
    BY PickOne
  <2>2. Right({})
    BY <1>2
  <2>. HIDE DEF Right
  <2> QED
    BY <2>1, <2>2
<1>4. ASSUME NEW n \in Nat, n \in S PROVE n + 1 \in S
  <2> SUFFICES ASSUME NEW s \in SUBSET U, Cardinality(s) <= n + 1, s # {} PROVE Right(s)
    <3>1. Right({})
      BY <1>2
    <3>. HIDE DEF Right
    <3> QED
      BY <3>1
  <2>. DEFINE p == Pick(s)
  <2>1. /\ p \in s
        /\ \A x \in s : s \ {x} \in SUBSET U /\ Cardinality(s \ {x}) <= n
    BY PickOne
  <2>2. g[s] = w[p] + g[s \ {p}]
    BY <1>1
  <2>3. \A r \in SUBSET U : Cardinality(r) <= n =>
            /\ g[r] \in Int
            /\ \A x \in r : g[r] = w[x] + g[r \ {x}]
    BY <1>4
  <2>. HIDE DEF p
  <2>4. w[p] \in Int /\ g[s \ {p}] \in Int
    BY <2>1, <2>3
  <2>5. ASSUME NEW x \in s PROVE g[s] = w[x] + g[s \ {x}]
    <3>1. CASE x = p
      BY <2>2, <3>1
    <3>2. CASE x # p
      <4>. DEFINE r == s \ {p, x}
      <4>1. (s \ {p}) \ {x} = r /\ (s \ {x}) \ {p} = r
        OBVIOUS
      <4>. HIDE DEF r
      <4>2. g[s \ {p}] = w[x] + g[r] /\ g[s \ {x}] = w[p] + g[r]
        <5>1. /\ s \ {p} \in SUBSET U /\ Cardinality(s \ {p}) <= n /\ x \in s \ {p}
              /\ s \ {x} \in SUBSET U /\ Cardinality(s \ {x}) <= n /\ p \in s \ {x}
          BY <2>1, <3>2
        <5>2. /\ g[s \ {p}] = w[x] + g[(s \ {p}) \ {x}]
              /\ g[s \ {x}] = w[p] + g[(s \ {x}) \ {p}]
          BY <2>3, <5>1, Zenon
        <5> QED
          BY <4>1, <5>2, Zenon
      <4>3. g[r] \in Int
        <5>1. s \ {p} \in SUBSET U /\ s \ {p} # {} /\ x \in s \ {p}
          BY <2>1, <3>2
        <5>2. Cardinality(r) = Cardinality(s \ {p}) - 1 /\ Cardinality(s \ {p}) \in Nat
          <6>1. Cardinality((s \ {p}) \ {x}) = Cardinality(s \ {p}) - 1
            BY <5>1, PickOne
          <6>2. Cardinality(s \ {p}) \in Nat
            BY <5>1, PickOne
          <6> QED
            BY <4>1, <6>1, <6>2
        <5>3. Cardinality(r) <= n
          <6>1. Cardinality(s \ {p}) <= n
            BY <2>1
          <6> QED
            BY <5>2, <6>1
        <5>4. r \in SUBSET U
          BY DEF r
        <5> QED
          BY <2>3, <5>3, <5>4
      <4>4. w[x] \in Int
        OBVIOUS
      <4>5. w[p] + (w[x] + g[r]) = w[x] + (w[p] + g[r])
        BY <2>4, <4>3, <4>4
      <4> QED
        BY <2>2, <4>2, <4>5
    <3> QED
      BY <3>1, <3>2
  <2>6. g[s] \in Int
    BY <2>2, <2>4
  <2> QED
    BY <2>5, <2>6
<1>. HIDE DEF S
<1>5. \A n \in Nat : n \in S
  BY <1>3, <1>4, Induction
<1>6. \A s \in SUBSET U : Right(s)
  <2> SUFFICES ASSUME NEW s \in SUBSET U PROVE Right(s)
    OBVIOUS
  <2>1. Cardinality(s) \in Nat
    BY FS_Subset, FS_CardinalityType
  <2>. HIDE DEF Right
  <2> QED
    BY <1>5, <2>1 DEF S
<1> QED
  BY <1>2, <1>6

\* What weighs nothing may be left out of a sum.
LEMMA SumsLeaveOut ==
    ASSUME NEW U, IsFiniteSet(U), NEW V \in SUBSET U,
           NEW w, NEW g, Sums(g, w, U), NEW v, NEW h, Sums(h, v, V),
           \A x \in V : w[x] = v[x] /\ w[x] \in Int,
           \A x \in U \ V : w[x] = 0
    PROVE  g[U] = h[V]
<1>1. IsFiniteSet(V) /\ \A x \in U : w[x] \in Int
  BY FS_Subset
<1>2. /\ g[{}] = 0 /\ \A s \in SUBSET U : g[s] \in Int
      /\ \A s \in SUBSET U : \A x \in s : g[s] = w[x] + g[s \ {x}]
  BY <1>1, SumsTake
<1>3. /\ h[{}] = 0 /\ \A s \in SUBSET V : h[s] \in Int
      /\ \A s \in SUBSET V : \A x \in s : h[s] = v[x] + h[s \ {x}]
  BY <1>1, SumsTake
<1>. DEFINE S == {n \in Nat : \A s \in SUBSET U : Cardinality(s) = n => g[s] = h[s \cap V]}
<1>4. 0 \in S
  <2>1. \A s \in SUBSET U : Cardinality(s) = 0 => s = {}
    BY PickOne
  <2>2. {} \cap V = {}
    OBVIOUS
  <2> QED
    BY <1>2, <1>3, <2>1, <2>2
<1>5. ASSUME NEW n \in Nat, n \in S PROVE n + 1 \in S
  <2> SUFFICES ASSUME NEW s \in SUBSET U, Cardinality(s) = n + 1
               PROVE  g[s] = h[s \cap V]
    OBVIOUS
  <2>1. s # {}
    BY FS_EmptySet
  <2>2. PICK x \in s : s \ {x} \in SUBSET U /\ Cardinality(s \ {x}) = n
    BY <2>1, PickOne
  <2>3. g[s] = w[x] + g[s \ {x}] /\ g[s \ {x}] = h[(s \ {x}) \cap V]
    BY <1>2, <1>5, <2>2
  <2>4. CASE x \in V
    <3>1. (s \ {x}) \cap V = (s \cap V) \ {x} /\ x \in s \cap V
      BY <2>4
    <3>2. h[s \cap V] = v[x] + h[(s \cap V) \ {x}]
      BY <1>3, <3>1
    <3> QED
      BY <2>3, <2>4, <3>1, <3>2
  <2>5. CASE x \notin V
    <3>1. (s \ {x}) \cap V = s \cap V
      BY <2>5
    <3>2. g[s \ {x}] \in Int /\ w[x] = 0
      BY <1>2, <2>2, <2>5
    <3>3. 0 + g[s \ {x}] = g[s \ {x}]
      BY <3>2
    <3> QED
      BY <2>3, <3>1, <3>2, <3>3
  <2> QED
    BY <2>4, <2>5
<1>. HIDE DEF S
<1>6. \A n \in Nat : n \in S
  BY <1>4, <1>5, Induction
<1>7. Cardinality(U) \in S
  BY <1>6, FS_CardinalityType
<1>8. U \cap V = V
  OBVIOUS
<1> QED
  BY <1>7, <1>8 DEF S

-----------------------------------------------------------------------------
(* Counting: what is lost on one side and made up for on another, and the  *)
(* pairs of a set.                                                         *)

LEMMA DisjointUnion ==
    ASSUME NEW S, NEW T, IsFiniteSet(S), IsFiniteSet(T), S \cap T = {}
    PROVE  /\ IsFiniteSet(S \cup T)
           /\ Cardinality(S \cup T) = Cardinality(S) + Cardinality(T)
<1>1. /\ IsFiniteSet(S \cup T)
      /\ Cardinality(S \cup T) = Cardinality(S) + Cardinality(T) - Cardinality(S \cap T)
  BY FS_Union
<1>2. Cardinality(S \cap T) = 0
  BY FS_EmptySet
<1>3. Cardinality(S) \in Nat /\ Cardinality(T) \in Nat
  BY FS_CardinalityType
<1>. QED
  BY <1>1, <1>2, <1>3

\* Two sets do not shrink together if what the first loses is matched in what
\* the second gains.
LEMMA Exchange ==
    ASSUME NEW A, NEW A2, NEW B, NEW B2, NEW f,
           IsFiniteSet(A), IsFiniteSet(A2), IsFiniteSet(B2), B \subseteq B2,
           f \in Injection(A \ A2, B2 \ B)
    PROVE  Cardinality(A) + Cardinality(B) <= Cardinality(A2) + Cardinality(B2)
<1>. DEFINE lost == A \ A2
            kept == A \cap A2
            gained == B2 \ B
<1>1. IsFiniteSet(gained) /\ IsFiniteSet(B) /\ IsFiniteSet(lost) /\ IsFiniteSet(kept)
  BY FS_Subset
<1>2. Cardinality(lost) <= Cardinality(gained)
  <2>1. f \in Injection(lost, gained)
    OBVIOUS
  <2>. HIDE DEF gained, lost
  <2>. QED
    BY <1>1, <2>1, FS_Injection
<1>3. Cardinality(A) = Cardinality(kept) + Cardinality(lost)
  <2>1. A = kept \cup lost /\ kept \cap lost = {}
    OBVIOUS
  <2>. HIDE DEF kept, lost
  <2>. QED
    BY <1>1, <2>1, DisjointUnion
<1>4. Cardinality(B2) = Cardinality(B) + Cardinality(gained)
  <2>1. B2 = B \cup gained /\ B \cap gained = {}
    OBVIOUS
  <2>. HIDE DEF gained
  <2>. QED
    BY <1>1, <2>1, DisjointUnion
<1>5. Cardinality(kept) <= Cardinality(A2)
  BY FS_Subset
<1>6. /\ Cardinality(lost) \in Nat /\ Cardinality(kept) \in Nat /\ Cardinality(gained) \in Nat
      /\ Cardinality(B) \in Nat /\ Cardinality(A2) \in Nat
  BY <1>1, FS_CardinalityType
<1>. HIDE DEF lost, kept, gained
<1>. QED
  BY <1>2, <1>3, <1>4, <1>5, <1>6

PairsOf(S) == {e \in SUBSET S : Cardinality(e) = 2}

\* One member more makes a pair with each of the others.
LEMMA PairsWith ==
    ASSUME NEW S, IsFiniteSet(S), NEW x, x \notin S, IsFiniteSet(PairsOf(S))
    PROVE  /\ IsFiniteSet(PairsOf(S \cup {x}))
           /\ Cardinality(PairsOf(S \cup {x})) = Cardinality(PairsOf(S)) + Cardinality(S)
<1>. DEFINE with == {{x, y} : y \in S}
            f == [y \in S |-> {x, y}]
<1>1. f \in Bijection(S, with)
  <2>1. f \in [S -> with]
    OBVIOUS
  <2>2. \A y, z \in S : f[y] = f[z] => y = z
    OBVIOUS
  <2>3. \A e \in with : \E y \in S : f[y] = e
    OBVIOUS
  <2>. QED
    BY <2>1, <2>2, <2>3 DEF Bijection, Injection, Surjection, IsInjective
<1>2. IsFiniteSet(with) /\ Cardinality(with) = Cardinality(S)
  <2>1. ExistsBijection(S, with)
    BY <1>1 DEF ExistsBijection
  <2>. HIDE DEF with
  <2>. QED
    BY <2>1, FS_Bijection
<1>3. PairsOf(S \cup {x}) = PairsOf(S) \cup with
  <2>1. ASSUME NEW e \in PairsOf(S \cup {x}), x \in e PROVE e \in with
    <3>1. IsFiniteSet(e)
      <4>1. IsFiniteSet(S \cup {x})
        BY FS_AddElement
      <4>. QED
        BY <4>1, FS_Subset DEF PairsOf
    <3>2. Cardinality(e \ {x}) = 1 /\ IsFiniteSet(e \ {x})
      BY <2>1, <3>1, FS_RemoveElement DEF PairsOf
    <3>3. PICK y : e \ {x} = {y}
      BY <3>2, FS_Singleton
    <3>4. e = {x, y} /\ y \in S
      BY <2>1, <3>3 DEF PairsOf
    <3>. QED
      BY <3>4
  <2>2. ASSUME NEW y \in S PROVE {x, y} \in PairsOf(S \cup {x})
    <3>1. Cardinality({y}) = 1 /\ IsFiniteSet({y}) /\ x \notin {y}
      BY FS_Singleton
    <3>2. Cardinality({y} \cup {x}) = Cardinality({y}) + 1
      BY <3>1, FS_AddElement
    <3>3. {y} \cup {x} = {x, y}
      OBVIOUS
    <3>. QED
      BY <3>1, <3>2, <3>3 DEF PairsOf
  <2>3. \A e : e \in PairsOf(S) <=> e \in PairsOf(S \cup {x}) /\ x \notin e
    BY DEF PairsOf
  <2>4. \A e \in with : \E y \in S : e = {x, y}
    OBVIOUS
  <2>. HIDE DEF with
  <2>5. \A e \in with : e \in PairsOf(S \cup {x})
    BY <2>2, <2>4
  <2>. QED
    BY <2>1, <2>3, <2>5, Zenon
<1>4. PairsOf(S) \cap with = {}
  BY DEF PairsOf
<1>. HIDE DEF with
<1>. QED
  BY <1>2, <1>3, <1>4, DisjointUnion

LEMMA PairsCounted ==
    ASSUME NEW S, IsFiniteSet(S)
    PROVE  LET n == Cardinality(S)
           IN  /\ IsFiniteSet(PairsOf(S))
               /\ Cardinality(PairsOf(S)) = (n * (n - 1)) \div 2
<1>. DEFINE Right(T) == /\ IsFiniteSet(PairsOf(T))
                        /\ 2 * Cardinality(PairsOf(T)) = Cardinality(T) * (Cardinality(T) - 1)
            I == {n \in Nat : \A T \in SUBSET S : Cardinality(T) = n => Right(T)}
<1>1. \A T \in SUBSET S : IsFiniteSet(T) /\ Cardinality(T) \in Nat
  BY FS_Subset, FS_CardinalityType
<1>2. 0 \in I
  <2>1. ASSUME NEW T \in SUBSET S, Cardinality(T) = 0 PROVE Right(T)
    <3>1. T = {}
      BY <1>1, <2>1, FS_EmptySet
    <3>2. PairsOf(T) = {}
      BY <3>1, FS_EmptySet DEF PairsOf
    <3>. QED
      BY <2>1, <3>2, FS_EmptySet
  <2>. HIDE DEF Right
  <2>. QED
    BY <2>1
<1>3. ASSUME NEW n \in Nat, n \in I PROVE n + 1 \in I
  <2>1. ASSUME NEW T \in SUBSET S, Cardinality(T) = n + 1 PROVE Right(T)
    <3>1. PICK x \in T : TRUE
      BY <2>1, <1>1, FS_EmptySet
    <3>. DEFINE R == T \ {x}
    <3>2. R \in SUBSET S /\ IsFiniteSet(R) /\ Cardinality(R) = n /\ x \notin R
          /\ R \cup {x} = T
      BY <1>1, <2>1, <3>1, FS_RemoveElement
    <3>3. Right(R)
      <4>. HIDE DEF Right, R
      <4>. QED
        BY <1>3, <3>2
    <3>. HIDE DEF R
    <3>4. /\ IsFiniteSet(PairsOf(T))
          /\ Cardinality(PairsOf(T)) = Cardinality(PairsOf(R)) + n
      BY <3>2, <3>3, PairsWith
    <3>5. Cardinality(PairsOf(R)) \in Nat /\ 2 * Cardinality(PairsOf(R)) = n * (n - 1)
      BY <3>2, <3>3, FS_CardinalityType
    <3>6. (n + 1) * ((n + 1) - 1) = n * (n - 1) + 2 * n
      OBVIOUS
    <3>7. 2 * Cardinality(PairsOf(T)) = (n + 1) * ((n + 1) - 1)
      <4>. DEFINE p == Cardinality(PairsOf(R))
                  m == n * (n - 1)
      <4>1. m \in Int /\ p \in Nat /\ 2 * p = m /\ (n + 1) * ((n + 1) - 1) = m + 2 * n
        BY <3>5, <3>6
      <4>2. Cardinality(PairsOf(T)) = p + n
        BY <3>4
      <4>. HIDE DEF p, m
      <4>3. 2 * (p + n) = m + 2 * n
        BY <4>1
      <4>. QED
        BY <4>1, <4>2, <4>3
    <3>. QED
      BY <2>1, <3>4, <3>7
  <2>. HIDE DEF Right
  <2>. QED
    BY <1>3, <2>1
<1>4. \A n \in Nat : n \in I
  <2>. HIDE DEF I
  <2>. QED
    BY <1>2, <1>3, Induction
<1>5. Right(S)
  <2>. HIDE DEF Right
  <2>. QED
    BY <1>1, <1>4
<1>6. ASSUME NEW p \in Nat, NEW m \in Int, 2 * p = m PROVE p = m \div 2
  BY <1>6
<1>7. Cardinality(PairsOf(S)) \in Nat
  BY <1>5, FS_CardinalityType
<1>8. Cardinality(S) * (Cardinality(S) - 1) \in Int
  BY FS_CardinalityType
<1>. QED
  BY <1>5, <1>6, <1>7, <1>8
==============================================================================
