------------------------- MODULE ConsumedWalkProofs -------------------------
(***************************************************************************)
(* Proofs about ConsumedWalk: type correctness and the cap for any number  *)
(* of threads that overlap in any way; the pace of calls that do not, and  *)
(* that what they show never goes back; and how much faster than the       *)
(* greatest rate calls that overlap may use a claim up.                    *)
(***************************************************************************)
EXTENDS ConsumedWalk, Foundations

Visits == {"create", "elapse", "compare", "add", "store", "stamp", "collect"}

\* A worker that visits a claim is within the portfolio, one past "create" has a
\* state, and what it is about to store is within the purchase.
CapInv ==
    /\ TypeOK
    /\ \A w \in Workers :
          /\ worker[w].pc \in Visits => worker[w].next <= Len(portfolio)
          /\ worker[w].pc \in Visits \ {"create"} => worker[w].st \in Workers
          /\ worker[w].pc = "store" => worker[w].amount <= GB[Visited(w)]
    /\ Capped

\* Between the least and the greatest rate for the time t, or all of it.
Paced(c, amount, t) ==
    /\ amount <= MaxRate * t
    /\ amount >= Least(GB[c], MinRate * t)

Current(c) == cell[c][by_claim[c]]

Settled(c) == Paced(c, Current(c).consumed, Current(c).last - Current(c).born)

Busy(w) == worker[w].pc # "idle"

\* No state was updated later than a call that is being served began.
Timely(c) ==
    /\ Current(c).born <= Current(c).last
    /\ Current(c).last <= clock
    /\ \A w \in Workers : Busy(w) => Current(c).last <= worker[w].now

\* What a call has computed so far of the claim that it visits.
InStep(w) ==
    LET c == Visited(w)
        t == worker[w].now - Current(c).born
    IN  /\ by_claim[c] # None /\ worker[w].st = by_claim[c]
        /\ worker[w].pc \in {"compare", "add"} =>
              /\ worker[w].amount = worker[w].now - Current(c).last
              /\ worker[w].amount > 0
        /\ worker[w].pc = "add" => Current(c).consumed < GB[c]
        /\ worker[w].pc = "store" => Paced(c, worker[w].amount, t)
        /\ worker[w].pc = "stamp" => Paced(c, Current(c).consumed, t)

\* One call at a time: each claim is settled but the one that is to be stamped.
PaceInv ==
    ~overlapped =>
        /\ \A v, w \in Workers : Busy(v) /\ Busy(w) => v = w
        /\ \A w \in Workers : Busy(w) => worker[w].now <= clock
        /\ \A c \in Claims : by_claim[c] # None =>
              /\ Timely(c)
              /\ (\E w \in Workers : worker[w].pc = "stamp" /\ Visited(w) = c) \/ Settled(c)
        /\ \A w \in Workers : worker[w].pc \in Visits \ {"create"} => InStep(w)

-----------------------------------------------------------------------------
(* Types and the cap                                                       *)

\* Initially nothing is held and nothing is consumed.
LEMMA InitCap == Init => CapInv
<1>. SUFFICES ASSUME Init PROVE CapInv
  OBVIOUS
<1>1. TypeOK
  <2>1. portfolio \in Seq(Claims) /\ Len(portfolio) = 0
    BY DEF Init
  <2>2. cell \in [Claims -> [Workers -> State]]
    BY DEF Init, NewState, State
  <2>3. Idle \in Local
    BY WalkAssumption DEF Idle, Local
  <2>4. worker \in [Workers -> Local]
    BY <2>3 DEF Init
  <2>5. clock \in 0..MaxTime /\ Len(portfolio) <= MaxHeld
    BY <2>1, WalkAssumption DEF Init
  <2>6. shown \in [Claims -> Nat] /\ by_claim \in [Claims -> Workers \cup {None}]
    BY DEF Init
  <2>7. overlapped \in BOOLEAN
    BY DEF Init
  <2>. QED
    BY <2>1, <2>2, <2>4, <2>5, <2>6, <2>7 DEF TypeOK
<1>2. Capped
  BY WalkAssumption DEF Init, Capped, NewState
<1>. QED
  BY <1>1, <1>2 DEF CapInv, Init, Idle, Visits

\* Where a worker is, its state and its claim are what their types say.
LEMMA VisitTyped ==
    ASSUME CapInv, NEW w \in Workers, worker[w].pc \in Visits
    PROVE  /\ Visited(w) \in Claims
           /\ worker[w].pc # "create" =>
                 StateOf(w) \in State /\ StateOf(w).consumed <= GB[Visited(w)]
<1>1. Visited(w) \in Claims
  <2>1. worker[w] \in Local /\ worker[w].next <= Len(portfolio)
    BY DEF CapInv, TypeOK
  <2>2. worker[w].next \in 1..Len(portfolio)
    BY <2>1, WalkAssumption DEF CapInv, TypeOK, Local
  <2>. QED
    BY <2>2 DEF CapInv, TypeOK, Visited
<1>. QED
  BY <1>1 DEF CapInv, TypeOK, Capped, StateOf

\* What a step of one worker has to keep for the cap to be kept.
LEMMA StepKeepsCap ==
    ASSUME CapInv, NEW w \in Workers,
           UNCHANGED <<clock, portfolio>>, overlapped' \in BOOLEAN,
           worker' \in [Workers -> Local], \A v \in Workers \ {w} : worker'[v] = worker[v],
           cell' \in [Claims -> [Workers -> State]],
           \A c \in Claims : \A v \in Workers : cell'[c][v].consumed <= GB[c],
           by_claim' \in [Claims -> Workers \cup {None}],
           shown' \in [Claims -> Nat], \A c \in Claims : shown'[c] <= GB[c],
           worker'[w].pc \in Visits => worker'[w].next <= Len(portfolio),
           worker'[w].pc \in Visits \ {"create"} => worker'[w].st \in Workers,
           worker'[w].pc = "store" => worker'[w].amount <= GB[portfolio[worker'[w].next]]
    PROVE  CapInv'
<1>1. TypeOK'
  BY DEF CapInv, TypeOK
<1>2. Capped'
  BY DEF Capped
<1>. QED
  BY <1>1, <1>2 DEF CapInv, Visited

\* Looking at the dictionary, the times and the amount: local variables only.
LEMMA ReadsKeepCap ==
    ASSUME CapInv, NEW w \in Workers, Find(w) \/ Elapse(w) \/ Compare(w)
    PROVE  CapInv'
<1>1. worker[w].pc \in Visits \cup {"find"} /\ worker[w] \in Local
  BY DEF Find, Elapse, Compare, Visiting, Visits, CapInv, TypeOK
<1>2. Visited(w) \in Claims
  <2>1. worker[w].next \in 1..Len(portfolio)
    BY <1>1, WalkAssumption DEF CapInv, TypeOK, Local, Find, Elapse, Compare, Visiting
  <2>. QED
    BY <2>1 DEF CapInv, TypeOK, Visited
<1>3. UNCHANGED <<clock, portfolio, overlapped, cell, by_claim, shown>>
  BY DEF Find, Elapse, Compare, Visiting
<1>4. ASSUME Find(w) PROVE CapInv'
  <2>1. worker' \in [Workers -> Local]
    BY <1>1, <1>2, <1>4 DEF Find, CapInv, TypeOK, Local
  <2>2. /\ \A v \in Workers \ {w} : worker'[v] = worker[v]
        /\ worker'[w].next = worker[w].next /\ worker'[w].next <= Len(portfolio)
        /\ worker'[w].pc \in {"create", "elapse"}
        /\ worker'[w].pc # "create" => worker'[w].st \in Workers
    BY <1>2, <1>4, WalkAssumption DEF Find, Visiting, CapInv, TypeOK, Local
  <2>. QED
    BY <1>3, <2>1, <2>2, StepKeepsCap DEF CapInv, TypeOK, Capped, Visits
<1>5. ASSUME Elapse(w) PROVE CapInv'
  <2>1. StateOf(w) \in State
    BY <1>5, VisitTyped DEF Elapse, Visiting, Visits
  <2>2. worker' \in [Workers -> Local]
    <3>1. worker[w].now - StateOf(w).last \in Int
      BY <1>1, <2>1, WalkAssumption DEF Local, State
    <3>2. CASE worker[w].now - StateOf(w).last > 0
      <4>1. worker[w].now - StateOf(w).last \in Nat
        BY <3>1, <3>2
      <4>. QED
        BY <1>1, <1>5, <3>2, <4>1 DEF Elapse, CapInv, TypeOK, Local
    <3>3. CASE ~(worker[w].now - StateOf(w).last > 0)
      BY <1>1, <1>5, <3>3 DEF Elapse, CapInv, TypeOK, Local
    <3>. QED
      BY <3>2, <3>3
  <2>3. /\ \A v \in Workers \ {w} : worker'[v] = worker[v]
        /\ worker'[w].next = worker[w].next /\ worker'[w].next <= Len(portfolio)
        /\ worker'[w].pc \in {"compare", "stamp"} /\ worker'[w].st \in Workers
    BY <1>5 DEF Elapse, Visiting, Visits, CapInv, TypeOK, Local
  <2>. QED
    BY <1>3, <2>2, <2>3, StepKeepsCap DEF CapInv, TypeOK, Capped, Visits
<1>6. ASSUME Compare(w) PROVE CapInv'
  <2>1. worker' \in [Workers -> Local]
    <3>1. CASE StateOf(w).consumed < GB[Visited(w)]
      BY <1>1, <1>6, <3>1 DEF Compare, CapInv, TypeOK, Local
    <3>2. CASE ~(StateOf(w).consumed < GB[Visited(w)])
      BY <1>1, <1>6, <3>2 DEF Compare, CapInv, TypeOK, Local
    <3>. QED
      BY <3>1, <3>2
  <2>2. /\ \A v \in Workers \ {w} : worker'[v] = worker[v]
        /\ worker'[w].next = worker[w].next /\ worker'[w].next <= Len(portfolio)
        /\ worker'[w].pc \in {"add", "stamp"} /\ worker'[w].st \in Workers
    BY <1>6 DEF Compare, Visiting, Visits, CapInv, TypeOK, Local
  <2>. QED
    BY <1>3, <2>1, <2>2, StepKeepsCap DEF CapInv, TypeOK, Capped, Visits
<1>. QED
  BY <1>4, <1>5, <1>6

\* The sum is cut off at the purchase.
LEMMA AddKeepsCap ==
    ASSUME CapInv, NEW w \in Workers, Add(w)
    PROVE  CapInv'
<1>1. worker[w].pc = "add" /\ worker[w] \in Local /\ worker[w].next <= Len(portfolio)
  BY DEF Add, Visiting, CapInv, TypeOK
<1>2. Visited(w) \in Claims /\ StateOf(w) \in State
  BY <1>1, VisitTyped DEF Visits
<1>3. PICK delta \in (MinRate * worker[w].amount)..(MaxRate * worker[w].amount) :
          worker' = [worker EXCEPT
                        ![w].pc = "store",
                        ![w].amount = Least(GB[Visited(w)], StateOf(w).consumed + delta)]
  BY DEF Add
<1>4. delta \in Nat
  <2>1. worker[w].amount \in Nat
    BY <1>1 DEF Local
  <2>2. MinRate * worker[w].amount \in Nat /\ MaxRate * worker[w].amount \in Nat
    BY <2>1, WalkAssumption
  <2>. QED
    BY <2>2
<1>5. /\ Least(GB[Visited(w)], StateOf(w).consumed + delta) \in Nat
      /\ Least(GB[Visited(w)], StateOf(w).consumed + delta) <= GB[Visited(w)]
  BY <1>2, <1>4, WalkAssumption DEF Least, State
<1>6. worker' \in [Workers -> Local]
  BY <1>1, <1>3, <1>5 DEF CapInv, TypeOK, Local
<1>7. /\ \A v \in Workers \ {w} : worker'[v] = worker[v]
      /\ worker'[w].next = worker[w].next /\ worker'[w].pc = "store"
      /\ worker'[w].st \in Workers
      /\ worker'[w].amount <= GB[portfolio[worker'[w].next]]
  BY <1>1, <1>3, <1>5 DEF CapInv, TypeOK, Local, Visits, Visited
<1>8. UNCHANGED <<clock, portfolio, overlapped, cell, by_claim, shown>>
  BY DEF Add, Visiting
<1>. QED
  BY <1>1, <1>6, <1>7, <1>8, StepKeepsCap DEF CapInv, TypeOK, Capped

\* Creating a state, storing the sum and the time of the update.
LEMMA WritesKeepCap ==
    ASSUME CapInv, NEW w \in Workers, Create(w) \/ Store(w) \/ Stamp(w)
    PROVE  CapInv'
<1>1. worker[w].pc \in Visits /\ worker[w] \in Local /\ worker[w].next <= Len(portfolio)
  BY DEF Create, Store, Stamp, Visiting, Visits, CapInv, TypeOK
<1>2. Visited(w) \in Claims
  BY <1>1, VisitTyped
<1>3. UNCHANGED <<clock, portfolio, overlapped, shown>>
  BY DEF Create, Store, Stamp, Visiting
<1>4. worker[w].now \in Nat /\ worker[w].amount \in Nat
  BY <1>1, WalkAssumption DEF Local
<1>5. ASSUME Create(w) PROVE CapInv'
  <2>1. NewState(worker[w].now) \in State /\ NewState(worker[w].now).consumed <= GB[Visited(w)]
    BY <1>2, <1>4, WalkAssumption DEF NewState, State
  <2>2. /\ cell' \in [Claims -> [Workers -> State]]
        /\ \A c \in Claims : \A v \in Workers : cell'[c][v].consumed <= GB[c]
    BY <1>2, <1>5, <2>1 DEF Create, CapInv, TypeOK, Capped
  <2>3. worker' \in [Workers -> Local]
    BY <1>1, <1>5 DEF Create, CapInv, TypeOK, Local
  <2>4. /\ \A v \in Workers \ {w} : worker'[v] = worker[v]
        /\ worker'[w].next = worker[w].next /\ worker'[w].pc = "elapse"
        /\ worker'[w].st \in Workers /\ by_claim' \in [Claims -> Workers \cup {None}]
    BY <1>1, <1>2, <1>5 DEF Create, CapInv, TypeOK, Local
  <2>. QED
    BY <1>1, <1>3, <2>2, <2>3, <2>4, StepKeepsCap DEF CapInv, TypeOK, Capped
<1>6. ASSUME Store(w) PROVE CapInv'
  <2>1. worker[w].st \in Workers /\ worker[w].amount <= GB[Visited(w)]
    BY <1>6 DEF Store, Visiting, CapInv, Visits
  <2>2. /\ cell' \in [Claims -> [Workers -> State]]
        /\ \A c \in Claims : \A v \in Workers : cell'[c][v].consumed <= GB[c]
    <3>. DEFINE st == [StateOf(w) EXCEPT !.consumed = worker[w].amount]
    <3>1. StateOf(w) \in State /\ StateOf(w).consumed <= GB[Visited(w)]
      BY <1>2, <2>1 DEF StateOf, CapInv, TypeOK, Capped
    <3>2. st \in State /\ st.consumed <= GB[Visited(w)]
      BY <1>4, <2>1, <3>1 DEF State
    <3>3. cell' = [cell EXCEPT ![Visited(w)] = [@ EXCEPT ![worker[w].st] = st]]
      BY <1>2, <1>6, <2>1 DEF Store, StateOf, CapInv, TypeOK
    <3>. HIDE DEF st
    <3>. QED
      BY <1>2, <2>1, <3>2, <3>3 DEF CapInv, TypeOK, Capped
  <2>3. worker' \in [Workers -> Local]
    BY <1>1, <1>6 DEF Store, CapInv, TypeOK, Local
  <2>4. /\ \A v \in Workers \ {w} : worker'[v] = worker[v]
        /\ worker'[w].next = worker[w].next /\ worker'[w].pc = "stamp"
        /\ worker'[w].st \in Workers /\ UNCHANGED by_claim
    BY <1>1, <1>6, <2>1 DEF Store, CapInv, TypeOK, Local
  <2>. QED
    BY <1>1, <1>3, <2>2, <2>3, <2>4, StepKeepsCap DEF CapInv, TypeOK, Capped
<1>7. ASSUME Stamp(w) PROVE CapInv'
  <2>1. worker[w].st \in Workers
    BY <1>7 DEF Stamp, Visiting, CapInv, Visits
  <2>2. /\ cell' \in [Claims -> [Workers -> State]]
        /\ \A c \in Claims : \A v \in Workers : cell'[c][v].consumed <= GB[c]
    <3>. DEFINE st == [StateOf(w) EXCEPT !.last = worker[w].now]
    <3>1. StateOf(w) \in State /\ StateOf(w).consumed <= GB[Visited(w)]
      BY <1>2, <2>1 DEF StateOf, CapInv, TypeOK, Capped
    <3>2. st \in State /\ st.consumed <= GB[Visited(w)]
      BY <1>4, <2>1, <3>1 DEF State
    <3>3. cell' = [cell EXCEPT ![Visited(w)] = [@ EXCEPT ![worker[w].st] = st]]
      BY <1>2, <1>7, <2>1 DEF Stamp, StateOf, CapInv, TypeOK
    <3>. HIDE DEF st
    <3>. QED
      BY <1>2, <2>1, <3>2, <3>3 DEF CapInv, TypeOK, Capped
  <2>3. worker' \in [Workers -> Local]
    BY <1>1, <1>7 DEF Stamp, CapInv, TypeOK, Local
  <2>4. /\ \A v \in Workers \ {w} : worker'[v] = worker[v]
        /\ worker'[w].next = worker[w].next /\ worker'[w].pc = "collect"
        /\ worker'[w].st \in Workers /\ UNCHANGED by_claim
    BY <1>1, <1>7, <2>1 DEF Stamp, CapInv, TypeOK, Local
  <2>. QED
    BY <1>1, <1>3, <2>2, <2>3, <2>4, StepKeepsCap DEF CapInv, TypeOK, Capped
<1>. QED
  BY <1>5, <1>6, <1>7

\* Beginning, collecting a result and ending.
LEMMA CallKeepsCap ==
    ASSUME CapInv, NEW w \in Workers, Begin(w) \/ Collect(w) \/ End(w)
    PROVE  CapInv'
<1>1. ASSUME Begin(w) PROVE CapInv'
  <2>1. worker' \in [Workers -> Local] /\ overlapped' \in BOOLEAN
    <3>1. worker' \in [Workers -> Local]
      <4>1. [worker[w] EXCEPT !.pc = "find", !.now = clock] \in Local
        BY DEF CapInv, TypeOK, Local
      <4>2. worker' = [worker EXCEPT ![w] = [worker[w] EXCEPT !.pc = "find", !.now = clock]]
        BY <1>1 DEF Begin, CapInv, TypeOK
      <4>. QED
        BY <4>1, <4>2 DEF CapInv, TypeOK
    <3>2. overlapped' = (overlapped \/ \E v \in Workers \ {w} : worker[v].pc # "idle")
      BY <1>1 DEF Begin
    <3>3. overlapped' \in BOOLEAN
      BY <3>2, Zenon
    <3>. QED
      BY <3>1, <3>3
  <2>2. (\A v \in Workers \ {w} : worker'[v] = worker[v]) /\ worker'[w].pc = "find"
    BY <1>1 DEF Begin, CapInv, TypeOK, Local
  <2>3. UNCHANGED <<clock, portfolio, cell, by_claim, shown>>
    BY <1>1 DEF Begin
  <2>. QED
    BY <2>1, <2>2, <2>3, StepKeepsCap DEF CapInv, TypeOK, Capped, Visits
<1>2. ASSUME Collect(w) PROVE CapInv'
  <2>1. /\ worker[w].pc = "collect" /\ worker[w] \in Local /\ worker[w].next <= Len(portfolio)
        /\ UNCHANGED <<clock, portfolio, overlapped, cell, by_claim>>
    BY <1>2 DEF Collect, Visiting, CapInv, TypeOK
  <2>2. /\ Visited(w) \in Claims /\ StateOf(w) \in State
        /\ StateOf(w).consumed <= GB[Visited(w)]
    BY <2>1, VisitTyped DEF Visits
  <2>3. worker[w].next + 1 \in 1..(MaxHeld + 1)
    BY <2>1, WalkAssumption DEF CapInv, TypeOK, Local
  <2>4. worker' \in [Workers -> Local]
    BY <1>2, <2>1, <2>3 DEF Collect, CapInv, TypeOK, Local
  <2>5. (\A v \in Workers \ {w} : worker'[v] = worker[v]) /\ worker'[w].pc = "find"
    BY <1>2, <2>1 DEF Collect, CapInv, TypeOK, Local
  <2>6. shown' \in [Claims -> Nat] /\ \A c \in Claims : shown'[c] <= GB[c]
    BY <1>2, <2>2 DEF Collect, CapInv, TypeOK, Capped, State
  <2>. QED
    BY <2>1, <2>4, <2>5, <2>6, StepKeepsCap DEF CapInv, TypeOK, Capped, Visits
<1>3. ASSUME End(w) PROVE CapInv'
  <2>1. Idle \in Local
    BY WalkAssumption DEF Idle, Local
  <2>2. worker' \in [Workers -> Local]
    BY <1>3, <2>1 DEF End, CapInv, TypeOK
  <2>3. (\A v \in Workers \ {w} : worker'[v] = worker[v]) /\ worker'[w].pc = "idle"
    BY <1>3 DEF End, CapInv, TypeOK, Idle
  <2>4. UNCHANGED <<clock, portfolio, cell, by_claim, shown, overlapped>>
    BY <1>3 DEF End
  <2>. QED
    BY <2>2, <2>3, <2>4, StepKeepsCap DEF CapInv, TypeOK, Capped, Visits
<1>. QED
  BY <1>1, <1>2, <1>3

\* Purchases and the clock.
LEMMA OutsideKeepsCap ==
    ASSUME CapInv, (\E c \in Claims : AppendClaim(c)) \/ Advance
    PROVE  CapInv'
<1>1. ASSUME NEW c \in Claims, AppendClaim(c) PROVE CapInv'
  <2>1. /\ portfolio' \in Seq(Claims) /\ Len(portfolio') <= MaxHeld
        /\ Len(portfolio') = Len(portfolio) + 1
        /\ \A n \in 1..Len(portfolio) : portfolio'[n] = portfolio[n]
    BY <1>1, WalkAssumption DEF AppendClaim, CapInv, TypeOK
  <2>2. UNCHANGED <<clock, cell, by_claim, worker, shown, overlapped>>
    BY <1>1 DEF AppendClaim
  <2>3. TypeOK' /\ Capped'
    BY <2>1, <2>2 DEF CapInv, TypeOK, Capped
  <2>4. \A w \in Workers : worker[w].pc \in Visits => Visited(w)' = Visited(w)
    <3>1. \A w \in Workers : worker[w].pc \in Visits => worker[w].next \in 1..Len(portfolio)
      BY WalkAssumption DEF CapInv, TypeOK, Local
    <3>. QED
      BY <2>1, <2>2, <3>1 DEF Visited
  <2>5. \A w \in Workers :
            worker[w].pc \in Visits => worker[w].next <= Len(portfolio')
    BY <2>1, WalkAssumption DEF CapInv, TypeOK, Local
  <2>. QED
    BY <2>2, <2>3, <2>4, <2>5 DEF CapInv, Visits
<1>2. ASSUME Advance PROVE CapInv'
  <2>1. clock' \in 0..MaxTime
    BY <1>2, WalkAssumption DEF Advance, CapInv, TypeOK
  <2>2. UNCHANGED <<portfolio, cell, by_claim, worker, shown, overlapped>>
    BY <1>2 DEF Advance
  <2>. QED
    BY <2>1, <2>2 DEF CapInv, TypeOK, Capped, Visited
<1>. QED
  BY <1>1, <1>2

\* Every step keeps the invariant.
LEMMA NextKeepsCap == CapInv /\ [Next]_vars => CapInv'
<1>. SUFFICES ASSUME CapInv, [Next]_vars PROVE CapInv'
  OBVIOUS
<1>1. ASSUME NEW w \in Workers, Begin(w) \/ Visit(w) \/ End(w) PROVE CapInv'
  BY <1>1, ReadsKeepCap, AddKeepsCap, WritesKeepCap, CallKeepsCap DEF Visit
<1>2. ASSUME (\E c \in Claims : AppendClaim(c)) \/ Advance PROVE CapInv'
  BY <1>2, OutsideKeepsCap
<1>3. CASE UNCHANGED vars
  BY <1>3 DEF vars, CapInv, TypeOK, Capped, Visited
<1>. QED
  BY <1>1, <1>2, <1>3 DEF Next

\* The invariant of any number of overlapping calls.
THEOREM CapInvariant == Spec => []CapInv
<1>. QED
  BY InitCap, NextKeepsCap, PTL DEF Spec

\* Type correctness of the consumed walk.
THEOREM WalkTypes == Spec => []TypeOK
<1>1. CapInv => TypeOK
  BY DEF CapInv
<1>. QED
  BY <1>1, CapInvariant, PTL

\* No interleaving consumes or shows more of a claim than was purchased.
THEOREM CapHolds == Spec => []Capped
<1>1. CapInv => Capped
  BY DEF CapInv
<1>. QED
  BY <1>1, CapInvariant, PTL

-----------------------------------------------------------------------------
(* The pace of calls that do not overlap                                   *)

LEMMA Distribute == \A r, a, b \in Int : r * (a + b) = r * a + r * b
  OBVIOUS

\* A draw for the time a, added to what is in pace after t, is in pace after t + a.
LEMMA DrawKeepsPace ==
    ASSUME NEW c \in Claims, NEW x \in Nat, NEW t \in Nat, NEW a \in Nat,
           Paced(c, x, t), x < GB[c],
           NEW delta \in (MinRate * a)..(MaxRate * a)
    PROVE  Paced(c, Least(GB[c], x + delta), t + a)
<1>1. /\ MinRate * (t + a) = MinRate * t + MinRate * a
      /\ MaxRate * (t + a) = MaxRate * t + MaxRate * a
  BY Distribute, WalkAssumption
<1>2. /\ MinRate * t \in Nat /\ MinRate * a \in Nat /\ MaxRate * t \in Nat
      /\ MaxRate * a \in Nat /\ GB[c] \in Nat
  BY WalkAssumption
<1>. DEFINE low == MinRate * t  lowa == MinRate * a  high == MaxRate * t  higha == MaxRate * a
<1>3. x <= high /\ x >= low /\ delta \in Nat /\ lowa <= delta /\ delta <= higha
  BY <1>2 DEF Paced, Least
<1>4. Least(GB[c], x + delta) <= high + higha
  BY <1>2, <1>3 DEF Least
<1>5. Least(GB[c], x + delta) >= Least(GB[c], low + lowa)
  BY <1>2, <1>3 DEF Least
<1>. QED
  BY <1>1, <1>4, <1>5 DEF Paced

\* What is used up stays in pace as time goes on.
LEMMA UsedUpInPace ==
    ASSUME NEW c \in Claims, NEW x \in Nat, NEW t \in Nat, NEW a \in Nat,
           Paced(c, x, t), x >= GB[c]
    PROVE  Paced(c, x, t + a)
<1>1. MaxRate * (t + a) = MaxRate * t + MaxRate * a
  BY Distribute, WalkAssumption
<1>2. MaxRate * t \in Nat /\ MaxRate * a \in Nat /\ MinRate * (t + a) \in Nat /\ GB[c] \in Nat
  BY WalkAssumption
<1>3. x <= MaxRate * t + MaxRate * a
  BY <1>2 DEF Paced
<1>4. x >= Least(GB[c], MinRate * (t + a))
  BY <1>2 DEF Least
<1>. QED
  BY <1>1, <1>3, <1>4 DEF Paced

\* While w is served no other call is, and w has at most its own claim open.
LEMMA Solo ==
    ASSUME CapInv, PaceInv, ~overlapped, NEW w \in Workers, Busy(w)
    PROVE  /\ \A v \in Workers \ {w} : ~Busy(v)
           /\ worker[w].now <= clock
           /\ \A c \in Claims : by_claim[c] # None =>
                 Timely(c) /\ (Settled(c) \/ (worker[w].pc = "stamp" /\ Visited(w) = c))
           /\ worker[w].pc \in Visits \ {"create"} => InStep(w)
  BY DEF PaceInv, Busy

\* What a step of the one call that is served has to establish.
LEMMA SoloStep ==
    ASSUME CapInv, PaceInv, ~overlapped, NEW w \in Workers, Busy(w),
           \A v \in Workers \ {w} : worker'[v] = worker[v],
           UNCHANGED <<clock, overlapped>>,
           Busy(w)' => worker'[w].now = worker[w].now,
           \A c \in Claims : by_claim'[c] # None =>
              Timely(c)' /\ (Settled(c)' \/ (worker'[w].pc = "stamp" /\ Visited(w)' = c)),
           worker'[w].pc \in Visits \ {"create"} => InStep(w)'
    PROVE  PaceInv'
<1>1. \A v \in Workers \ {w} : ~Busy(v)' /\ worker'[v].pc = "idle"
  BY Solo DEF Busy
<1>2. worker[w].now <= clock
  BY Solo
<1>. QED
  BY <1>1, <1>2 DEF PaceInv, Busy, Visits

\* The state that a claim has, and the times that a call compares.
LEMMA CurrentTyped ==
    ASSUME CapInv, NEW c \in Claims, by_claim[c] # None
    PROVE  Current(c) \in State /\ Current(c).consumed <= GB[c]
  BY DEF CapInv, TypeOK, Capped, Current

\* A step that leaves all states as they are.
LEMMA LocalKeepsPace ==
    ASSUME CapInv, PaceInv, ~overlapped, NEW w \in Workers, Busy(w), worker[w].pc # "stamp",
           \A v \in Workers \ {w} : worker'[v] = worker[v],
           UNCHANGED <<clock, portfolio, overlapped, cell, by_claim>>,
           Busy(w)' => worker'[w].now = worker[w].now,
           worker'[w].pc \in Visits \ {"create"} => InStep(w)'
    PROVE  PaceInv'
<1>1. \A v \in Workers \ {w} : ~Busy(v) /\ ~Busy(v)'
  BY Solo DEF Busy
<1>2. \A c \in Claims : by_claim'[c] # None => Settled(c)'
  BY Solo DEF Settled, Current, Paced
<1>3. \A c \in Claims : by_claim'[c] # None => Timely(c)'
  BY <1>1, Solo DEF Timely, Current, Busy
<1>. QED
  BY <1>2, <1>3, SoloStep

LEMMA ReadsKeepPace ==
    ASSUME CapInv, PaceInv, ~overlapped, NEW w \in Workers,
           Find(w) \/ Elapse(w) \/ Compare(w) \/ Add(w)
    PROVE  PaceInv'
<1>. DEFINE c == Visited(w)
<1>1. /\ UNCHANGED <<clock, portfolio, overlapped, cell, by_claim>>
      /\ worker[w].pc \in {"find", "elapse", "compare", "add"}
      /\ worker[w].next <= Len(portfolio) /\ worker[w] \in Local
      /\ Busy(w)
  BY DEF Find, Elapse, Compare, Add, Visiting, CapInv, TypeOK, Busy
<1>2. c \in Claims
  <2>1. worker[w].next \in 1..Len(portfolio)
    BY <1>1, WalkAssumption DEF CapInv, TypeOK, Local
  <2>. QED
    BY <2>1 DEF CapInv, TypeOK, Visited
<1>3. /\ \A v \in Workers \ {w} : worker'[v] = worker[v]
      /\ worker'[w].now = worker[w].now /\ worker'[w].next = worker[w].next
  BY DEF Find, Elapse, Compare, Add, CapInv, TypeOK, Local
<1>4. Visited(w)' = c /\ Current(c)' = Current(c) /\ by_claim'[c] = by_claim[c]
  BY <1>1, <1>3 DEF Visited, Current
<1>5. ASSUME Find(w) PROVE PaceInv'
  <2>1. worker'[w].pc \in {"create", "elapse"}
    BY <1>5 DEF Find, CapInv, TypeOK
  <2>2. worker'[w].pc = "elapse" => by_claim[c] # None /\ worker'[w].st = by_claim[c]
    BY <1>5 DEF Find, CapInv, TypeOK, Local
  <2>3. worker'[w].pc # "create" => InStep(w)'
    BY <1>4, <2>1, <2>2 DEF InStep
  <2>. QED
    BY <1>1, <1>3, <2>1, <2>3, LocalKeepsPace
<1>6. ASSUME worker[w].pc # "find"
      PROVE  /\ by_claim[c] # None /\ worker[w].st = by_claim[c] /\ StateOf(w) = Current(c)
             /\ Current(c) \in State /\ Settled(c) /\ Timely(c) /\ InStep(w)
             /\ worker[w].now \in Nat /\ worker[w].amount \in Nat
             /\ Current(c).last \in Nat /\ Current(c).born \in Nat /\ Current(c).consumed \in Nat
             /\ Current(c).born <= Current(c).last /\ Current(c).last <= worker[w].now
  <2>1. InStep(w)
    BY <1>1, <1>6, Solo DEF Visits
  <2>2. by_claim[c] # None /\ worker[w].st = by_claim[c] /\ StateOf(w) = Current(c)
    BY <2>1 DEF InStep, StateOf, Current
  <2>3. Settled(c) /\ Timely(c)
    BY <1>1, <1>2, <2>2, Solo
  <2>4. Current(c) \in State
    BY <1>2, <2>2, CurrentTyped
  <2>. QED
    BY <1>1, <2>1, <2>2, <2>3, <2>4, WalkAssumption DEF Timely, State, Local
<1>7. ASSUME Elapse(w) PROVE PaceInv'
  <2>0. worker[w].pc = "elapse"
    BY <1>7 DEF Elapse, Visiting
  <2>1. CASE worker[w].now - Current(c).last > 0
    <3>1. /\ worker'[w].pc = "compare" /\ worker'[w].st = worker[w].st
          /\ worker'[w].amount = worker[w].now - Current(c).last
      BY <1>6, <1>7, <2>0, <2>1 DEF Elapse, CapInv, TypeOK, Local
    <3>2. InStep(w)'
      BY <1>3, <1>4, <1>6, <2>0, <2>1, <3>1 DEF InStep
    <3>. QED
      BY <1>1, <1>3, <3>2, LocalKeepsPace
  <2>2. CASE ~(worker[w].now - Current(c).last > 0)
    <3>1. worker'[w].pc = "stamp" /\ worker'[w].st = worker[w].st
      BY <1>6, <1>7, <2>0, <2>2 DEF Elapse, CapInv, TypeOK, Local
    <3>2. worker[w].now = Current(c).last
      BY <1>6, <2>0, <2>2
    <3>3. Paced(c, Current(c).consumed, worker[w].now - Current(c).born)
      BY <1>6, <2>0, <3>2 DEF Settled
    <3>4. Paced(c, Current(c).consumed, worker[w].now - Current(c).born)'
      BY <1>3, <1>4, <3>3 DEF Paced
    <3>5. InStep(w)'
      BY <1>3, <1>4, <1>6, <2>0, <3>1, <3>3 DEF InStep, Paced
    <3>. QED
      BY <1>1, <1>3, <3>5, LocalKeepsPace
  <2>. QED
    BY <2>1, <2>2
<1>8. ASSUME Compare(w) PROVE PaceInv'
  <2>0. /\ worker[w].pc = "compare"
        /\ worker[w].amount = worker[w].now - Current(c).last /\ worker[w].amount > 0
    BY <1>6, <1>8 DEF Compare, Visiting, InStep
  <2>1. CASE Current(c).consumed < GB[c]
    <3>1. /\ worker'[w].pc = "add" /\ worker'[w].st = worker[w].st
          /\ worker'[w].amount = worker[w].amount
      BY <1>6, <1>8, <2>0, <2>1 DEF Compare, CapInv, TypeOK, Local
    <3>2. InStep(w)'
      BY <1>3, <1>4, <1>6, <2>0, <2>1, <3>1 DEF InStep
    <3>. QED
      BY <1>1, <1>3, <3>2, LocalKeepsPace
  <2>2. CASE ~(Current(c).consumed < GB[c])
    <3>1. worker'[w].pc = "stamp" /\ worker'[w].st = worker[w].st
      BY <1>6, <1>8, <2>0, <2>2 DEF Compare, CapInv, TypeOK, Local
    <3>2. Current(c).consumed >= GB[c] /\ GB[c] \in Nat
      BY <1>2, <1>6, <2>0, <2>2, WalkAssumption
    <3>3. Current(c).last - Current(c).born \in Nat
      BY <1>6, <2>0
    <3>4. Paced(c, Current(c).consumed, Current(c).last - Current(c).born + worker[w].amount)
      BY <1>2, <1>6, <2>0, <3>2, <3>3, UsedUpInPace DEF Settled
    <3>5. Current(c).last - Current(c).born + worker[w].amount
              = worker[w].now - Current(c).born
      BY <1>6, <2>0
    <3>6. Paced(c, Current(c).consumed, worker[w].now - Current(c).born)
      BY <3>4, <3>5
    <3>7. InStep(w)'
      BY <1>3, <1>4, <1>6, <2>0, <3>1, <3>6 DEF InStep, Paced
    <3>. QED
      BY <1>1, <1>3, <3>7, LocalKeepsPace
  <2>. QED
    BY <2>1, <2>2
<1>9. ASSUME Add(w) PROVE PaceInv'
  <2>0. /\ worker[w].pc = "add" /\ Current(c).consumed < GB[c]
        /\ worker[w].amount = worker[w].now - Current(c).last
    BY <1>6, <1>9 DEF Add, Visiting, InStep
  <2>1. PICK delta \in (MinRate * worker[w].amount)..(MaxRate * worker[w].amount) :
            worker' = [worker EXCEPT ![w].pc = "store",
                                     ![w].amount = Least(GB[c], StateOf(w).consumed + delta)]
    BY <1>9 DEF Add
  <2>2. /\ worker'[w].pc = "store" /\ worker'[w].st = worker[w].st
        /\ worker'[w].amount = Least(GB[c], Current(c).consumed + delta)
    BY <1>6, <2>0, <2>1 DEF CapInv, TypeOK, Local
  <2>3. Current(c).last - Current(c).born \in Nat
    BY <1>6, <2>0
  <2>4. Paced(c, worker'[w].amount, Current(c).last - Current(c).born + worker[w].amount)
    BY <1>2, <1>6, <2>0, <2>2, <2>3, DrawKeepsPace DEF Settled
  <2>5. Current(c).last - Current(c).born + worker[w].amount = worker[w].now - Current(c).born
    BY <1>6, <2>0
  <2>6. Paced(c, worker'[w].amount, worker[w].now - Current(c).born)
    BY <2>4, <2>5
  <2>7. InStep(w)'
    BY <1>3, <1>4, <1>6, <2>0, <2>2, <2>6 DEF InStep, Paced
  <2>. QED
    BY <1>1, <1>3, <2>7, LocalKeepsPace
<1>. QED
  BY <1>5, <1>7, <1>8, <1>9

\* A step that changes the state of one claim, which it leaves timely.
LEMMA WriteKeepsPace ==
    ASSUME CapInv, PaceInv, ~overlapped, NEW w \in Workers, Busy(w), NEW c \in Claims,
           \A v \in Workers \ {w} : worker'[v] = worker[v],
           UNCHANGED <<clock, overlapped>>,
           worker'[w].now = worker[w].now, Visited(w) = c, Visited(w)' = c,
           \A d \in Claims \ {c} : by_claim'[d] = by_claim[d] /\ Current(d)' = Current(d),
           Current(c)'.born <= Current(c)'.last, Current(c)'.last <= worker[w].now,
           Current(c)'.last \in Nat, Current(c)'.born \in Nat, worker[w].now \in Nat,
           Settled(c)' \/ worker'[w].pc = "stamp",
           worker'[w].pc \in Visits \ {"create"} => InStep(w)'
    PROVE  PaceInv'
<1>1. /\ \A v \in Workers \ {w} : ~Busy(v) /\ ~Busy(v)'
      /\ worker[w].now <= clock
  BY Solo DEF Busy
<1>2. Timely(c)'
  BY <1>1, WalkAssumption DEF Timely, CapInv, TypeOK
<1>3. \A d \in Claims \ {c} : by_claim'[d] # None => Timely(d)' /\ Settled(d)'
  <2>. SUFFICES ASSUME NEW d \in Claims \ {c}, by_claim'[d] # None
                PROVE  Timely(d)' /\ Settled(d)'
    OBVIOUS
  <2>1. Timely(d) /\ Settled(d) /\ by_claim[d] # None
    BY Solo
  <2>2. Settled(d)'
    BY <2>1 DEF Settled, Paced
  <2>3. Timely(d)'
    BY <1>1, <2>1 DEF Timely, Busy
  <2>. QED
    BY <2>2, <2>3
<1>. QED
  BY <1>2, <1>3, SoloStep

LEMMA WritesKeepPace ==
    ASSUME CapInv, PaceInv, ~overlapped, NEW w \in Workers, NEW c \in Claims,
           c = Visited(w), Create(w) \/ Store(w) \/ Stamp(w)
    PROVE  PaceInv'
<1>1. /\ UNCHANGED <<clock, portfolio, overlapped>>
      /\ worker[w].pc \in {"create", "store", "stamp"}
      /\ worker[w] \in Local /\ Busy(w) /\ worker[w].pc \in Visits
  BY DEF Create, Store, Stamp, Visiting, CapInv, TypeOK, Busy, Visits
<1>2. c \in Claims /\ c = Visited(w)
  OBVIOUS
<1>3. /\ \A v \in Workers \ {w} : worker'[v] = worker[v]
      /\ worker'[w].now = worker[w].now /\ worker'[w].next = worker[w].next
  BY DEF Create, Store, Stamp, CapInv, TypeOK, Local
<1>4. Visited(w)' = c
  BY <1>1, <1>3 DEF Visited
<1>5. worker[w].now \in Nat /\ worker[w].now <= clock
  BY <1>1, Solo, WalkAssumption DEF Local
<1>6. ASSUME Create(w) PROVE PaceInv'
  <2>1. /\ worker'[w].pc = "elapse" /\ worker'[w].st = w
        /\ by_claim'[c] = w /\ w # None
        /\ Current(c)' = NewState(worker[w].now)
    BY <1>2, <1>6, WalkAssumption DEF Create, CapInv, TypeOK, Local, Current
  <2>2. \A d \in Claims \ {c} : by_claim'[d] = by_claim[d] /\ Current(d)' = Current(d)
    BY <1>2, <1>6 DEF Create, CapInv, TypeOK, Current
  <2>3. Paced(c, 0, 0)
    BY <1>2, WalkAssumption DEF Paced, Least
  <2>4. Settled(c)'
    BY <1>5, <2>1, <2>3 DEF Settled, Paced, NewState
  <2>5. InStep(w)'
    BY <1>4, <2>1 DEF InStep
  <2>. QED
    BY <1>1, <1>2, <1>3, <1>4, <1>5, <2>1, <2>2, <2>4, <2>5, WriteKeepsPace DEF NewState
<1>7. ASSUME worker[w].pc # "create"
      PROVE  /\ InStep(w) /\ by_claim[c] # None /\ worker[w].st = by_claim[c]
             /\ Timely(c) /\ Current(c) \in State /\ Current(c).last <= worker[w].now
             /\ by_claim[c] \in Workers
  <2>1. InStep(w)
    BY <1>1, <1>7, Solo
  <2>2. by_claim[c] # None /\ worker[w].st = by_claim[c]
    BY <2>1 DEF InStep
  <2>3. Timely(c) /\ Current(c) \in State
    BY <1>1, <1>2, <2>2, Solo, CurrentTyped
  <2>. QED
    BY <1>1, <1>2, <2>1, <2>2, <2>3 DEF Timely, CapInv, TypeOK
<1>8. ASSUME Store(w) PROVE PaceInv'
  <2>0. worker[w].pc = "store" /\ UNCHANGED by_claim
    BY <1>8 DEF Store, Visiting
  <2>1. /\ worker'[w].pc = "stamp" /\ worker'[w].st = worker[w].st
        /\ Current(c)' = [Current(c) EXCEPT !.consumed = worker[w].amount]
    <3>1. worker'[w].pc = "stamp" /\ worker'[w].st = worker[w].st
      BY <1>8 DEF Store, CapInv, TypeOK, Local
    <3>2. cell' = [cell EXCEPT ![c][by_claim[c]] = [@ EXCEPT !.consumed = worker[w].amount]]
      BY <1>7, <1>8, <2>0 DEF Store
    <3>3. cell'[c][by_claim[c]] = [cell[c][by_claim[c]] EXCEPT !.consumed = worker[w].amount]
      BY <1>2, <1>7, <2>0, <3>2 DEF CapInv, TypeOK
    <3>. QED
      BY <2>0, <3>1, <3>3 DEF Current
  <2>2. \A d \in Claims \ {c} : by_claim'[d] = by_claim[d] /\ Current(d)' = Current(d)
    BY <1>2, <1>8, <2>0 DEF Store, CapInv, TypeOK, Current
  <2>3. /\ Current(c)'.consumed = worker[w].amount
        /\ Current(c)'.last = Current(c).last /\ Current(c)'.born = Current(c).born
    BY <1>7, <2>0, <2>1 DEF State
  <2>4. Paced(c, Current(c)'.consumed, worker[w].now - Current(c).born)
    BY <1>7, <2>0, <2>3 DEF InStep
  <2>5. InStep(w)'
    BY <1>3, <1>4, <1>7, <2>0, <2>1, <2>3, <2>4 DEF InStep, Paced
  <2>. QED
    BY <1>1, <1>2, <1>3, <1>4, <1>5, <1>7, <2>0, <2>1, <2>2, <2>3, <2>5, WriteKeepsPace
       DEF Timely, State
<1>9. ASSUME Stamp(w) PROVE PaceInv'
  <2>0. worker[w].pc = "stamp" /\ UNCHANGED by_claim
    BY <1>9 DEF Stamp, Visiting
  <2>1. /\ worker'[w].pc = "collect" /\ worker'[w].st = worker[w].st
        /\ Current(c)' = [Current(c) EXCEPT !.last = worker[w].now]
    <3>1. worker'[w].pc = "collect" /\ worker'[w].st = worker[w].st
      BY <1>9 DEF Stamp, CapInv, TypeOK, Local
    <3>2. cell' = [cell EXCEPT ![c][by_claim[c]] = [@ EXCEPT !.last = worker[w].now]]
      BY <1>7, <1>9, <2>0 DEF Stamp
    <3>3. cell'[c][by_claim[c]] = [cell[c][by_claim[c]] EXCEPT !.last = worker[w].now]
      BY <1>2, <1>7, <2>0, <3>2 DEF CapInv, TypeOK
    <3>. QED
      BY <2>0, <3>1, <3>3 DEF Current
  <2>2. \A d \in Claims \ {c} : by_claim'[d] = by_claim[d] /\ Current(d)' = Current(d)
    BY <1>2, <1>9, <2>0 DEF Stamp, CapInv, TypeOK, Current
  <2>3. /\ Current(c)'.consumed = Current(c).consumed
        /\ Current(c)'.last = worker[w].now /\ Current(c)'.born = Current(c).born
    BY <1>7, <2>0, <2>1 DEF State
  <2>4. Settled(c)'
    <3>1. Paced(c, Current(c).consumed, worker[w].now - Current(c).born)
      BY <1>7, <2>0 DEF InStep
    <3>. QED
      BY <2>3, <3>1 DEF Settled, Paced
  <2>5. InStep(w)'
    BY <1>4, <1>7, <2>0, <2>1 DEF InStep
  <2>6. Current(c)'.born <= Current(c)'.last
    BY <1>5, <1>7, <2>0, <2>3 DEF Timely, State
  <2>. QED
    BY <1>1, <1>2, <1>3, <1>4, <1>5, <1>7, <2>0, <2>1, <2>2, <2>3, <2>4, <2>5, <2>6,
       WriteKeepsPace DEF State
<1>. QED
  BY <1>6, <1>8, <1>9

\* A call that begins while no other is served has everything before it.
LEMMA BeginKeepsPace ==
    ASSUME CapInv, PaceInv, ~overlapped', NEW w \in Workers, Begin(w)
    PROVE  PaceInv'
<1>1. /\ ~overlapped /\ \A v \in Workers \ {w} : worker[v].pc = "idle"
      /\ worker[w].pc = "idle"
      /\ UNCHANGED <<clock, portfolio, cell, by_claim>>
  BY DEF Begin
<1>2. /\ \A v \in Workers \ {w} : worker'[v] = worker[v]
      /\ worker'[w].pc = "find" /\ worker'[w].now = clock
  BY DEF Begin, CapInv, TypeOK, Local
<1>3. clock' <= clock'
  BY <1>1, WalkAssumption DEF CapInv, TypeOK
<1>4. \A v \in Workers : worker'[v].pc \notin Visits
  BY <1>1, <1>2 DEF Visits
<1>5. \A c \in Claims : by_claim'[c] # None => Timely(c)' /\ Settled(c)'
  <2>. SUFFICES ASSUME NEW c \in Claims, by_claim'[c] # None
                PROVE  Timely(c)' /\ Settled(c)'
    OBVIOUS
  <2>1. Timely(c) /\ Settled(c)
    BY <1>1 DEF PaceInv
  <2>2. Settled(c)'
    BY <1>1, <2>1 DEF Settled, Current, Paced
  <2>3. Timely(c)'
    BY <1>1, <1>2, <2>1 DEF Timely, Current, Busy
  <2>. QED
    BY <2>2, <2>3
<1>. QED
  BY <1>1, <1>2, <1>3, <1>4, <1>5 DEF PaceInv, Busy, Visits

LEMMA EndsKeepPace ==
    ASSUME CapInv, PaceInv, ~overlapped, NEW w \in Workers, Collect(w) \/ End(w)
    PROVE  PaceInv'
<1>1. /\ UNCHANGED <<clock, portfolio, overlapped, cell, by_claim>>
      /\ worker[w].pc \in {"find", "collect"} /\ Busy(w)
  BY DEF Collect, End, Visiting, Busy
<1>2. \A v \in Workers \ {w} : worker'[v] = worker[v]
  BY DEF Collect, End, CapInv, TypeOK
<1>3. \/ worker'[w].pc = "idle"
      \/ worker'[w].pc = "find" /\ worker'[w].now = worker[w].now
  BY DEF Collect, End, CapInv, TypeOK, Local, Idle
<1>. QED
  BY <1>1, <1>2, <1>3, LocalKeepsPace DEF Busy, Visits

LEMMA OutsideKeepsPace ==
    ASSUME CapInv, PaceInv, ~overlapped, (\E c \in Claims : AppendClaim(c)) \/ Advance
    PROVE  PaceInv'
<1>1. UNCHANGED <<cell, by_claim, worker, overlapped>>
  BY DEF AppendClaim, Advance
<1>2. clock \in Nat /\ clock' \in Nat /\ clock <= clock'
  BY WalkAssumption DEF AppendClaim, Advance, CapInv, TypeOK
<1>3. \A w \in Workers : worker[w].pc \in Visits => Visited(w)' = Visited(w)
  <2>1. \A w \in Workers : worker[w].pc \in Visits => worker[w].next \in 1..Len(portfolio)
    BY WalkAssumption DEF CapInv, TypeOK, Local
  <2>2. \A n \in 1..Len(portfolio) : portfolio'[n] = portfolio[n]
    BY DEF AppendClaim, Advance, CapInv, TypeOK
  <2>. QED
    BY <1>1, <2>1, <2>2 DEF Visited
<1>4. \A w \in Workers : Busy(w)' => Busy(w) /\ worker'[w].now <= clock'
  <2>1. \A w \in Workers : Busy(w) => worker[w].now <= clock /\ worker[w].now \in Nat
    BY WalkAssumption DEF PaceInv, CapInv, TypeOK, Local
  <2>. QED
    BY <1>1, <1>2, <2>1 DEF Busy
<1>5. ASSUME NEW c \in Claims, by_claim'[c] # None
      PROVE  /\ Timely(c)'
             /\ (\E w \in Workers : worker'[w].pc = "stamp" /\ Visited(w)' = c) \/ Settled(c)'
  <2>1. /\ Timely(c) /\ Current(c) \in State
        /\ (\E w \in Workers : worker[w].pc = "stamp" /\ Visited(w) = c) \/ Settled(c)
    BY <1>1, <1>5, CurrentTyped DEF PaceInv
  <2>2. Timely(c)'
    BY <1>1, <1>2, <2>1 DEF Timely, Current, Busy, State
  <2>3. Settled(c) => Settled(c)'
    BY <1>1 DEF Settled, Current, Paced
  <2>4. (\E w \in Workers : worker[w].pc = "stamp" /\ Visited(w) = c)
            => \E w \in Workers : worker'[w].pc = "stamp" /\ Visited(w)' = c
    BY <1>1, <1>3 DEF Visits
  <2>. QED
    BY <2>1, <2>2, <2>3, <2>4
<1>6. ASSUME NEW w \in Workers, worker'[w].pc \in Visits \ {"create"}
      PROVE  InStep(w)'
  <2>1. InStep(w) /\ Visited(w)' = Visited(w)
    BY <1>1, <1>3, <1>6 DEF PaceInv
  <2>. QED
    BY <1>1, <2>1 DEF InStep, Current, Paced
<1>. QED
  BY <1>1, <1>4, <1>5, <1>6 DEF PaceInv, Busy

LEMMA NextKeepsPace == CapInv /\ PaceInv /\ [Next]_vars => PaceInv'
<1>. SUFFICES ASSUME CapInv, PaceInv, [Next]_vars, ~overlapped' PROVE PaceInv'
  BY DEF PaceInv
<1>1. ASSUME NEW w \in Workers, Begin(w) PROVE PaceInv'
  BY <1>1, BeginKeepsPace
<1>2. ASSUME NEW w \in Workers, Visit(w) \/ End(w) PROVE PaceInv'
  <2>1. ~overlapped
    BY <1>2 DEF Visit, Find, Create, Elapse, Compare, Add, Store, Stamp, Collect, Visiting, End
  <2>2. ASSUME Create(w) \/ Store(w) \/ Stamp(w) PROVE PaceInv'
    <3>1. Visited(w) \in Claims
      BY <2>2, VisitTyped DEF Create, Store, Stamp, Visiting, Visits
    <3>. QED
      BY <2>1, <2>2, <3>1, WritesKeepPace
  <2>. QED
    BY <1>2, <2>1, <2>2, ReadsKeepPace, EndsKeepPace DEF Visit
<1>3. ASSUME (\E c \in Claims : AppendClaim(c)) \/ Advance PROVE PaceInv'
  <2>1. ~overlapped
    BY <1>3 DEF AppendClaim, Advance
  <2>. QED
    BY <1>3, <2>1, OutsideKeepsPace
<1>4. CASE UNCHANGED vars
  BY <1>4 DEF vars, PaceInv, Busy, Timely, Settled, Current, Paced, InStep, Visited
<1>. QED
  BY <1>1, <1>2, <1>3, <1>4 DEF Next

\* Calls that do not overlap keep every claim settled but the one being stamped.
THEOREM PaceInvariant == Spec => []PaceInv
<1>1. Init => PaceInv
  BY DEF Init, PaceInv, Idle, Busy, Visits
<1>. QED
  BY <1>1, CapInvariant, NextKeepsPace, PTL DEF Spec

\* For any rates, polls that do not overlap consume at a rate within the bounds,
\* whatever the time between them and however often a claim is held.
THEOREM PaceHolds == Spec => []InPace
<1>1. CapInv /\ PaceInv => InPace
  <2>. SUFFICES ASSUME CapInv, PaceInv, ~overlapped,
                       \A w \in Workers : worker[w].pc \in {"idle", "find", "elapse"},
                       NEW c \in Claims, by_claim[c] # None
                PROVE  /\ Current(c).consumed <= MaxRate * (Current(c).last - Current(c).born)
                       /\ Current(c).consumed
                            >= Least(GB[c], MinRate * (Current(c).last - Current(c).born))
    BY DEF InPace, InUse, Current
  <2>. QED
    BY DEF PaceInv, Settled, Paced
<1>. QED
  BY <1>1, CapInvariant, PaceInvariant, PTL

-----------------------------------------------------------------------------
(* What is shown                                                           *)

\* One call at a time: no claim is shown beyond its state, a state is made only
\* where there is none, and none is about to go back.
ShownInv ==
    ~overlapped =>
        /\ \A c \in Claims :
              IF by_claim[c] = None THEN shown[c] = 0 ELSE shown[c] <= Current(c).consumed
        /\ \A w \in Workers :
              /\ worker[w].pc = "create" => by_claim[Visited(w)] = None
              /\ worker[w].pc = "store" => Current(Visited(w)).consumed <= worker[w].amount

\* The state that the one call works on is the one in use.
LEMMA SoloVisit ==
    ASSUME CapInv, PaceInv, ~overlapped, NEW w \in Workers,
           worker[w].pc \in Visits \ {"create"}
    PROVE  LET c == Visited(w)
           IN  /\ c \in Claims /\ by_claim[c] # None /\ by_claim[c] \in Workers
               /\ worker[w].st = by_claim[c] /\ StateOf(w) = Current(c)
               /\ Current(c) \in State /\ Current(c).consumed <= GB[c]
<1>1. Busy(w) /\ InStep(w)
  BY DEF PaceInv, Busy, Visits
<1>2. Visited(w) \in Claims
  BY VisitTyped
<1>3. by_claim[Visited(w)] # None /\ worker[w].st = by_claim[Visited(w)]
  BY <1>1 DEF InStep
<1>4. by_claim[Visited(w)] \in Workers
  BY <1>2, <1>3 DEF CapInv, TypeOK
<1>. QED
  BY <1>2, <1>3, <1>4, CurrentTyped DEF StateOf, Current

\* What a step of the one call that is served has to establish.
LEMMA SoloShows ==
    ASSUME CapInv, PaceInv, ~overlapped, NEW w \in Workers, Busy(w),
           \A v \in Workers \ {w} : worker'[v] = worker[v],
           \A c \in Claims : IF by_claim'[c] = None THEN shown'[c] = 0
                                                    ELSE shown'[c] <= Current(c)'.consumed,
           worker'[w].pc = "create" => by_claim'[Visited(w)'] = None,
           worker'[w].pc = "store" => Current(Visited(w))'.consumed <= worker'[w].amount
    PROVE  ShownInv'
<1>1. \A v \in Workers \ {w} : worker'[v].pc = "idle"
  BY Solo DEF Busy
<1>. QED
  BY <1>1 DEF ShownInv

\* A step that leaves all states as they are, and shows nothing new.
LEMMA LocalKeepsShown ==
    ASSUME CapInv, PaceInv, ShownInv, ~overlapped, NEW w \in Workers, Busy(w),
           \A v \in Workers \ {w} : worker'[v] = worker[v],
           UNCHANGED <<cell, by_claim, shown>>,
           worker'[w].pc = "create" => by_claim'[Visited(w)'] = None,
           worker'[w].pc = "store" => Current(Visited(w))'.consumed <= worker'[w].amount
    PROVE  ShownInv'
<1>1. \A c \in Claims : IF by_claim'[c] = None THEN shown'[c] = 0
                                               ELSE shown'[c] <= Current(c)'.consumed
  BY DEF ShownInv, Current
<1>. QED
  BY <1>1, SoloShows

LEMMA ReadsKeepShown ==
    ASSUME CapInv, PaceInv, ShownInv, ~overlapped, NEW w \in Workers,
           Find(w) \/ Elapse(w) \/ Compare(w) \/ Add(w) \/ End(w)
    PROVE  ShownInv' /\ UNCHANGED shown
<1>1. /\ Busy(w) /\ UNCHANGED <<portfolio, cell, by_claim, shown>>
      /\ \A v \in Workers \ {w} : worker'[v] = worker[v]
  BY DEF Find, Elapse, Compare, Add, End, Visiting, Busy, CapInv, TypeOK
<1>2. ASSUME Find(w) PROVE ShownInv'
  <2>1. /\ worker'[w].pc \in {"create", "elapse"}
        /\ worker'[w].pc = "create" => by_claim[Visited(w)] = None
        /\ worker'[w].next = worker[w].next
    BY <1>2 DEF Find, CapInv, TypeOK, Local
  <2>2. Visited(w)' = Visited(w)
    BY <1>1, <2>1 DEF Visited
  <2>. QED
    BY <1>1, <2>1, <2>2, LocalKeepsShown
<1>3. ASSUME Elapse(w) \/ Compare(w) \/ End(w) PROVE ShownInv'
  <2>1. worker'[w].pc \notin {"create", "store"}
    BY <1>3 DEF Elapse, Compare, End, Visiting, Idle, CapInv, TypeOK, Local
  <2>. QED
    BY <1>1, <2>1, LocalKeepsShown
<1>4. ASSUME Add(w) PROVE ShownInv'
  <2>. DEFINE c == Visited(w)
  <2>0. worker[w].pc = "add" /\ worker[w] \in Local
    BY <1>4 DEF Add, Visiting, CapInv, TypeOK
  <2>1. c \in Claims /\ StateOf(w) = Current(c) /\ Current(c) \in State
        /\ Current(c).consumed <= GB[c]
    BY <2>0, SoloVisit DEF Visits
  <2>2. PICK delta \in (MinRate * worker[w].amount)..(MaxRate * worker[w].amount) :
            worker' = [worker EXCEPT ![w].pc = "store",
                                     ![w].amount = Least(GB[c], StateOf(w).consumed + delta)]
    BY <1>4 DEF Add
  <2>3. /\ worker'[w].pc = "store" /\ worker'[w].next = worker[w].next
        /\ worker'[w].amount = Least(GB[c], Current(c).consumed + delta)
    BY <2>0, <2>1, <2>2 DEF CapInv, TypeOK, Local
  <2>4. MinRate * worker[w].amount \in Nat /\ MaxRate * worker[w].amount \in Nat
    BY <2>0, WalkAssumption DEF Local
  <2>5. delta \in Nat /\ Current(c).consumed \in Nat /\ GB[c] \in Nat
    BY <2>1, <2>4, WalkAssumption DEF State
  <2>6. Current(c).consumed <= worker'[w].amount
    BY <2>1, <2>3, <2>5 DEF Least
  <2>7. Visited(w)' = c /\ Current(c)' = Current(c)
    BY <1>1, <2>3 DEF Visited, Current
  <2>. QED
    BY <1>1, <2>3, <2>6, <2>7, LocalKeepsShown
<1>. QED
  BY <1>1, <1>2, <1>3, <1>4

LEMMA WritesKeepShown ==
    ASSUME CapInv, PaceInv, ShownInv, ~overlapped, NEW w \in Workers,
           NEW c \in Claims, c = Visited(w), Create(w) \/ Store(w) \/ Stamp(w)
    PROVE  ShownInv' /\ UNCHANGED shown
<1>1. /\ Busy(w) /\ UNCHANGED shown /\ c \in Claims /\ c = Visited(w)
      /\ worker'[w].pc \notin {"create", "store"}
      /\ \A v \in Workers \ {w} : worker'[v] = worker[v]
  <2>1. worker[w].pc \in {"create", "store", "stamp"} /\ UNCHANGED shown
    BY DEF Create, Store, Stamp, Visiting
  <2>3. worker'[w].pc \in {"elapse", "stamp", "collect"}
    BY DEF Create, Store, Stamp, CapInv, TypeOK, Local
  <2>4. \A v \in Workers \ {w} : worker'[v] = worker[v]
    BY DEF Create, Store, Stamp, CapInv, TypeOK
  <2>. QED
    BY <2>1, <2>3, <2>4 DEF Busy
<1>2. \A d \in Claims \ {c} : by_claim'[d] = by_claim[d] /\ Current(d)' = Current(d)
  BY DEF Create, Store, Stamp, CapInv, TypeOK, Current
<1>3. IF by_claim'[c] = None THEN shown'[c] = 0 ELSE shown'[c] <= Current(c)'.consumed
  <2>1. ASSUME Create(w) PROVE shown[c] = 0 /\ by_claim'[c] # None /\ Current(c)'.consumed = 0
    <3>1. worker[w].pc = "create"
      BY <2>1 DEF Create, Visiting
    <3>2. shown[c] = 0
      BY <1>1, <3>1 DEF ShownInv
    <3>3. by_claim'[c] = w /\ w # None
      BY <1>1, <2>1, WalkAssumption DEF Create, CapInv, TypeOK
    <3>4. cell'[c][w] = NewState(worker[w].now)
      BY <1>1, <2>1 DEF Create, CapInv, TypeOK
    <3>. QED
      BY <3>2, <3>3, <3>4 DEF Current, NewState
  <2>2. ASSUME Store(w) \/ Stamp(w)
        PROVE  /\ by_claim'[c] # None /\ shown[c] <= Current(c).consumed
               /\ Current(c).consumed <= Current(c)'.consumed
               /\ Current(c).consumed \in Nat /\ Current(c)'.consumed \in Nat
    <3>0. worker[w].pc \in {"store", "stamp"} /\ UNCHANGED by_claim
      BY <2>2 DEF Store, Stamp, Visiting
    <3>1. /\ by_claim[c] # None /\ by_claim[c] \in Workers /\ worker[w].st = by_claim[c]
          /\ Current(c) \in State
      BY <3>0, SoloVisit DEF Visits
    <3>2. shown[c] <= Current(c).consumed
      BY <1>1, <3>1 DEF ShownInv
    <3>3. Current(c).consumed \in Nat /\ worker[w].amount \in Nat
      BY <3>1 DEF State, CapInv, TypeOK, Local
    <3>4. ASSUME Store(w) PROVE /\ Current(c)'.consumed = worker[w].amount
                                /\ Current(c).consumed <= worker[w].amount
      <4>1. worker[w].pc = "store"
        BY <3>4 DEF Store, Visiting
      <4>2. Current(c).consumed <= worker[w].amount
        BY <4>1 DEF ShownInv
      <4>3. Current(c)'.consumed = worker[w].amount
        <5>1. cell' = [cell EXCEPT ![c][by_claim[c]].consumed = worker[w].amount]
          BY <3>1, <3>4 DEF Store
        <5>2. cell[c] \in [Workers -> State] /\ cell[c][by_claim[c]] \in State
          BY <1>1, <3>1 DEF CapInv, TypeOK
        <5>3. cell'[c][by_claim[c]].consumed = worker[w].amount
          BY <1>1, <3>1, <5>1, <5>2 DEF CapInv, TypeOK, State
        <5>. QED
          BY <3>0, <5>3 DEF Current
      <4>. QED
        BY <4>2, <4>3
    <3>5. ASSUME Stamp(w) PROVE Current(c)'.consumed = Current(c).consumed
      BY <1>1, <3>0, <3>1, <3>5 DEF Stamp, CapInv, TypeOK, Current, State
    <3>. QED
      BY <2>2, <3>0, <3>1, <3>2, <3>3, <3>4, <3>5
  <2>3. shown[c] \in Nat
    BY <1>1 DEF CapInv, TypeOK
  <2>. QED
    BY <1>1, <2>1, <2>2, <2>3
<1>4. \A d \in Claims : IF by_claim'[d] = None THEN shown'[d] = 0
                                               ELSE shown'[d] <= Current(d)'.consumed
  <2>1. \A d \in Claims \ {c} : IF by_claim[d] = None THEN shown[d] = 0
                                                     ELSE shown[d] <= Current(d).consumed
    BY DEF ShownInv
  <2>. QED
    BY <1>1, <1>2, <1>3, <2>1
<1>. QED
  BY <1>1, <1>4, SoloShows

\* The result of a visit is what the claim's state holds, no less than before.
LEMMA CollectShows ==
    ASSUME CapInv, PaceInv, ShownInv, ~overlapped, NEW w \in Workers, Collect(w)
    PROVE  ShownInv' /\ \A c \in Claims : shown'[c] >= shown[c]
<1>. DEFINE c == Visited(w)
<1>1. worker[w].pc = "collect" /\ Busy(w) /\ UNCHANGED <<cell, by_claim>>
  BY DEF Collect, Visiting, Busy
<1>2. /\ c \in Claims /\ by_claim[c] # None /\ StateOf(w) = Current(c)
      /\ Current(c) \in State
  BY <1>1, SoloVisit DEF Visits
<1>3. shown'[c] = Current(c).consumed /\ \A d \in Claims \ {c} : shown'[d] = shown[d]
  BY <1>2 DEF Collect, CapInv, TypeOK
<1>4. shown \in [Claims -> Nat] /\ Current(c).consumed \in Nat
  BY <1>2 DEF CapInv, TypeOK, State
<1>5. \A d \in Claims : shown'[d] >= shown[d]
  BY <1>2, <1>3, <1>4 DEF ShownInv
<1>6. \A d \in Claims : IF by_claim'[d] = None THEN shown'[d] = 0
                                               ELSE shown'[d] <= Current(d)'.consumed
  <2>1. \A d \in Claims : Current(d)' = Current(d) /\ by_claim'[d] = by_claim[d]
    BY <1>1 DEF Current
  <2>. QED
    BY <1>2, <1>3, <1>4, <2>1 DEF ShownInv
<1>7. /\ worker'[w].pc = "find"
      /\ \A v \in Workers \ {w} : worker'[v] = worker[v]
  BY DEF Collect, CapInv, TypeOK, Local
<1>. QED
  BY <1>1, <1>5, <1>6, <1>7, SoloShows

\* A call begins, a claim is bought, or time goes by.
LEMMA OutsideKeepsShown ==
    ASSUME CapInv, ShownInv, ~overlapped,
           (\E w \in Workers : Begin(w)) \/ (\E c \in Claims : AppendClaim(c)) \/ Advance
    PROVE  ShownInv' /\ UNCHANGED shown
<1>1. UNCHANGED <<cell, by_claim, shown>>
  BY DEF Begin, AppendClaim, Advance
<1>2. \A w \in Workers : worker'[w].pc \in {"create", "store"} =>
          worker'[w] = worker[w] /\ Visited(w)' = Visited(w)
  <2>1. \A w \in Workers : worker[w].pc \in {"create", "store"} =>
            worker[w].next \in 1..Len(portfolio)
    BY WalkAssumption DEF CapInv, TypeOK, Local, Visits
  <2>2. \A n \in 1..Len(portfolio) : portfolio'[n] = portfolio[n]
    <3>1. portfolio \in Seq(Claims)
      BY DEF CapInv, TypeOK
    <3>2. portfolio' = portfolio \/ \E c \in Claims : portfolio' = Append(portfolio, c)
      BY DEF Begin, AppendClaim, Advance
    <3>. QED
      BY <3>1, <3>2
  <2>3. \A w \in Workers : worker'[w].pc \in {"create", "store"} => worker'[w] = worker[w]
    <3>1. ASSUME NEW v \in Workers, Begin(v)
          PROVE  worker'[v].pc = "find" /\ \A w \in Workers \ {v} : worker'[w] = worker[w]
      BY <3>1 DEF Begin, CapInv, TypeOK, Local
    <3>2. ((\E c \in Claims : AppendClaim(c)) \/ Advance) => worker' = worker
      BY DEF AppendClaim, Advance
    <3>. QED
      BY <3>1, <3>2
  <2>4. ASSUME NEW w \in Workers, worker'[w].pc \in {"create", "store"}
        PROVE  Visited(w)' = Visited(w)
    BY <2>1, <2>2, <2>3, <2>4 DEF Visited
  <2>. QED
    BY <2>3, <2>4
<1>. QED
  BY <1>1, <1>2 DEF ShownInv, Current

LEMMA NextShows ==
    CapInv /\ PaceInv /\ ShownInv /\ [Next]_vars
        => /\ ShownInv'
           /\ ~overlapped' => \A c \in Claims : shown'[c] >= shown[c]
<1>. SUFFICES ASSUME CapInv, PaceInv, ShownInv, [Next]_vars, ~overlapped'
              PROVE  ShownInv' /\ \A c \in Claims : shown'[c] >= shown[c]
  BY DEF ShownInv
<1>1. ~overlapped
  BY DEF Next, vars, Begin, Visit, Find, Create, Elapse, Compare, Add, Store, Stamp, Collect,
         Visiting, End, AppendClaim, Advance
<1>2. shown \in [Claims -> Nat]
  BY DEF CapInv, TypeOK
<1>3. ASSUME NEW w \in Workers, Visit(w) \/ End(w)
      PROVE  ShownInv' /\ \A c \in Claims : shown'[c] >= shown[c]
  <2>1. ASSUME Create(w) \/ Store(w) \/ Stamp(w)
        PROVE  ShownInv' /\ UNCHANGED shown
    <3>1. Visited(w) \in Claims
      BY <2>1, VisitTyped DEF Create, Store, Stamp, Visiting, Visits
    <3>. QED
      BY <1>1, <2>1, <3>1, WritesKeepShown
  <2>. QED
    BY <1>1, <1>2, <1>3, <2>1, ReadsKeepShown, CollectShows DEF Visit
<1>4. ASSUME (\E w \in Workers : Begin(w)) \/ (\E c \in Claims : AppendClaim(c)) \/ Advance
      PROVE  ShownInv' /\ \A c \in Claims : shown'[c] >= shown[c]
  BY <1>1, <1>2, <1>4, OutsideKeepsShown
<1>5. CASE UNCHANGED vars
  BY <1>2, <1>5 DEF vars, ShownInv, Current, Visited
<1>. QED
  BY <1>3, <1>4, <1>5 DEF Next

\* Without overlapping calls, what a claim is shown to have used never goes back.
THEOREM NeverGoesBack == Spec => NeverBack
<1>1. Init => ShownInv
  BY DEF Init, ShownInv, Idle
<1>2. CapInv /\ PaceInv /\ ShownInv /\ [Next]_vars
          => [~overlapped' => \A c \in Claims : shown'[c] >= shown[c]]_vars
  BY NextShows
<1>. QED
  BY <1>1, <1>2, NextShows, CapInvariant, PaceInvariant, PTL DEF Spec, NeverBack

-----------------------------------------------------------------------------
(* How often overlapping calls count one unit of time.  The k-th unit is   *)
(* between the times k and k + 1.                                          *)

\* w reads no time after k before its next call.
Behind(w, k) == Busy(w) /\ worker[w].now <= k

\* w has stamped the i-th claim of the portfolio.
Passed(w, i) ==
    i < worker[w].next \/ (i = worker[w].next /\ worker[w].pc = "collect")

\* w has read the time of the state that o made for c, and has yet to stamp it.
WorksOn(w, c, o) ==
    /\ worker[w].pc \in {"compare", "add", "store", "stamp"}
    /\ Visited(w) = c /\ worker[w].st = o

\* As things are, w does not count unit k for that state, or it has.
HasCounted(w, c, o, k) ==
    /\ ~Behind(w, k)
    /\ IF WorksOn(w, c, o)
       THEN worker[w].pc \in {"compare", "add"} => k < worker[w].now - worker[w].amount
       ELSE k < cell[c][o].last

\* Each thread may count a unit once.
Once(c, o) == {t \in (0..(clock - 1)) \X Workers : HasCounted(t[2], c, o, t[1])}

\* For each two, a visit of one that is behind a unit may set the state back, so
\* that the other counts the unit again: the visits of which that is over.
Again(c) ==
    {t \in (0..(clock - 1)) \X (PairsOf(Workers) \X (1..Len(portfolio))) :
        /\ portfolio[t[2][2]] = c
        /\ \A w \in t[2][1] : Behind(w, t[1]) => Passed(w, t[2][2])}

Tally(c, o) == Cardinality(Once(c, o)) + Cardinality(Again(c))

\* Calls read the clock, and have read no time that is not over.
Dated ==
    \A w \in Workers :
        /\ Busy(w) => worker[w].now <= clock
        /\ worker[w].pc \in {"compare", "add"} => worker[w].amount <= worker[w].now

\* Nobody works on a state that is yet to be made.
Owned ==
    \A w \in Workers :
        /\ worker[w].pc \in Visits \ {"create"} => by_claim[Visited(w)] # None
        /\ worker[w].pc = "create" =>
              /\ by_claim[Visited(w)] # w
              /\ \A v \in Workers :
                    worker[v].pc \in Visits \ {"create"} /\ Visited(v) = Visited(w)
                        => worker[v].st # w

\* What is consumed, or about to be, was counted at no more than the rate.
Tallied ==
    \A c \in Claims : \A o \in Workers :
        /\ cell[c][o].consumed <= MaxRate * Tally(c, o)
        /\ \A w \in Workers : WorksOn(w, c, o) /\ worker[w].pc = "store" =>
              worker[w].amount <= MaxRate * Tally(c, o)

RepeatInv == Dated /\ Owned /\ Tallied

LEMMA MoreAtRate == \A m, n \in Nat : m <= n => MaxRate * m <= MaxRate * n
<1>. SUFFICES ASSUME NEW m \in Nat, NEW n \in Nat, m <= n PROVE MaxRate * m <= MaxRate * n
  OBVIOUS
<1>1. PICK d \in Nat : n = m + d
  <2>1. n - m \in Nat /\ n = m + (n - m)
    OBVIOUS
  <2>. QED
    BY <2>1
<1>2. /\ MaxRate \in Nat /\ MaxRate * m \in Nat /\ MaxRate * d \in Nat
      /\ MaxRate * n = MaxRate * m + MaxRate * d
  BY <1>1, WalkAssumption
<1>. QED
  BY <1>2

LEMMA TokensAreFinite ==
    ASSUME NEW t \in Nat, NEW l \in Nat
    PROVE  /\ IsFiniteSet((0..(t - 1)) \X Workers)
           /\ IsFiniteSet((0..(t - 1)) \X (PairsOf(Workers) \X (1..l)))
<1>1. IsFiniteSet(Workers) /\ IsFiniteSet(0..(t - 1)) /\ IsFiniteSet(1..l)
  BY WalkAssumption, FS_Interval
<1>2. IsFiniteSet(PairsOf(Workers))
  BY <1>1, PairsCounted
<1>3. IsFiniteSet(PairsOf(Workers) \X (1..l))
  BY <1>1, <1>2, FS_Product
<1>. QED
  BY <1>1, <1>3, FS_Product

LEMMA TallyFinite ==
    ASSUME CapInv, NEW c, NEW o
    PROVE  IsFiniteSet(Once(c, o)) /\ IsFiniteSet(Again(c)) /\ Tally(c, o) \in Nat
<1>1. clock \in Nat /\ Len(portfolio) \in Nat
  BY WalkAssumption DEF CapInv, TypeOK
<1>2. IsFiniteSet(Once(c, o))
  BY <1>1, TokensAreFinite, FS_Subset DEF Once
<1>3. IsFiniteSet(Again(c))
  BY <1>1, TokensAreFinite, FS_Subset DEF Again
<1>. QED
  BY <1>2, <1>3, FS_CardinalityType DEF Tally

LEMMA TallyFiniteNext ==
    ASSUME CapInv', NEW c, NEW o
    PROVE  IsFiniteSet(Once(c, o)') /\ IsFiniteSet(Again(c)') /\ Tally(c, o)' \in Nat
<1>1. clock' \in Nat /\ Len(portfolio') \in Nat
  BY WalkAssumption DEF CapInv, TypeOK
<1>2. IsFiniteSet(Once(c, o)')
  BY <1>1, TokensAreFinite, FS_Subset DEF Once
<1>3. IsFiniteSet(Again(c)')
  BY <1>1, TokensAreFinite, FS_Subset DEF Again
<1>. QED
  BY <1>2, <1>3, FS_CardinalityType DEF Tally

LEMMA TallyGrows ==
    ASSUME CapInv, CapInv', NEW c, NEW o,
           Once(c, o) \subseteq Once(c, o)', Again(c) \subseteq Again(c)'
    PROVE  Tally(c, o) <= Tally(c, o)'
<1>1. /\ IsFiniteSet(Once(c, o)) /\ IsFiniteSet(Again(c))
      /\ IsFiniteSet(Once(c, o)') /\ IsFiniteSet(Again(c)')
  BY TallyFinite, TallyFiniteNext
<1>2. /\ Cardinality(Once(c, o)) <= Cardinality(Once(c, o)')
      /\ Cardinality(Again(c)) <= Cardinality(Again(c)')
  BY <1>1, FS_Subset
<1>3. /\ Cardinality(Once(c, o)) \in Nat /\ Cardinality(Again(c)) \in Nat
      /\ Cardinality(Once(c, o)') \in Nat /\ Cardinality(Again(c)') \in Nat
  BY <1>1, FS_CardinalityType
<1>4. Tally(c, o)' = Cardinality(Once(c, o)') + Cardinality(Again(c)')
  BY DEF Tally
<1>. QED
  BY <1>2, <1>3, <1>4 DEF Tally

\* A step that takes back nothing that was counted, and stores what was.
LEMMA StillTallied ==
    ASSUME CapInv, CapInv', Tallied,
           \A c \in Claims : \A o \in Workers :
              \/ Tally(c, o) <= Tally(c, o)'
              \/ cell'[c][o].consumed = 0 /\ \A w \in Workers : ~WorksOn(w, c, o)',
           \A c \in Claims : \A o \in Workers :
              \/ cell'[c][o].consumed \in {0, cell[c][o].consumed}
              \/ cell'[c][o].consumed <= MaxRate * Tally(c, o),
           \A w \in Workers : \A c \in Claims : \A o \in Workers :
              WorksOn(w, c, o)' /\ worker'[w].pc = "store" =>
                 \/ worker'[w].amount <= MaxRate * Tally(c, o)'
                 \/ worker'[w] = worker[w] /\ WorksOn(w, c, o)
    PROVE  Tallied'
<1>. SUFFICES ASSUME NEW c \in Claims, NEW o \in Workers
              PROVE  /\ cell'[c][o].consumed <= MaxRate * Tally(c, o)'
                     /\ \A w \in Workers : WorksOn(w, c, o)' /\ worker'[w].pc = "store" =>
                           worker'[w].amount <= MaxRate * Tally(c, o)'
  BY DEF Tallied
<1>1. Tally(c, o) \in Nat /\ Tally(c, o)' \in Nat
  BY TallyFinite, TallyFiniteNext
<1>2. MaxRate * Tally(c, o) \in Nat /\ MaxRate * Tally(c, o)' \in Nat
  BY <1>1, WalkAssumption
<1>3. Tally(c, o) <= Tally(c, o)' => MaxRate * Tally(c, o) <= MaxRate * Tally(c, o)'
  BY <1>1, MoreAtRate
<1>4. cell'[c][o].consumed <= MaxRate * Tally(c, o)'
  <2>1. cell[c][o].consumed <= MaxRate * Tally(c, o)
    BY DEF Tallied
  <2>2. cell[c][o].consumed \in Nat /\ cell'[c][o].consumed \in Nat
    BY DEF CapInv, TypeOK, State
  <2>. QED
    BY <1>2, <1>3, <2>1, <2>2
<1>5. ASSUME NEW w \in Workers, WorksOn(w, c, o)', worker'[w].pc = "store",
             worker'[w] = worker[w], WorksOn(w, c, o)
      PROVE  worker'[w].amount <= MaxRate * Tally(c, o)'
  <2>1. worker[w].amount <= MaxRate * Tally(c, o) /\ Tally(c, o) <= Tally(c, o)'
    BY <1>5 DEF Tallied
  <2>2. worker[w].amount \in Nat
    BY DEF CapInv, TypeOK, Local
  <2>. QED
    BY <1>2, <1>3, <1>5, <2>1, <2>2
<1>. QED
  BY <1>4, <1>5

\* A step of one thread changes what that thread has counted and passed.
LEMMA OnceKept ==
    ASSUME NEW w \in Workers, UNCHANGED <<clock, portfolio>>,
           \A v \in Workers \ {w} : worker'[v] = worker[v],
           NEW c, NEW o, cell'[c][o].last = cell[c][o].last,
           \A k \in 0..(clock - 1) : HasCounted(w, c, o, k) => HasCounted(w, c, o, k)'
    PROVE  Once(c, o) \subseteq Once(c, o)'
<1>1. ASSUME NEW v \in Workers \ {w}, NEW k, HasCounted(v, c, o, k)
      PROVE  HasCounted(v, c, o, k)'
  BY <1>1 DEF HasCounted, Behind, Busy, WorksOn, Visited
<1>2. ASSUME NEW t \in Once(c, o) PROVE t \in Once(c, o)'
  <2>1. /\ t \in (0..(clock - 1)) \X Workers /\ t[1] \in 0..(clock - 1) /\ t[2] \in Workers
        /\ HasCounted(t[2], c, o, t[1])
    BY DEF Once
  <2>2. HasCounted(t[2], c, o, t[1])'
    <3>. DEFINE v == t[2]
                k == t[1]
    <3>1. v \in Workers /\ k \in 0..(clock - 1) /\ HasCounted(v, c, o, k)
      BY <2>1
    <3>. HIDE DEF v, k
    <3>2. HasCounted(v, c, o, k)'
      BY <1>1, <3>1
    <3>. QED
      BY <3>2 DEF v, k
  <2>3. t \in (0..(clock' - 1)) \X Workers
    BY <2>1
  <2>. QED
    BY <2>2, <2>3 DEF Once
<1>. QED
  BY <1>2

\* Whether w stands in the way of the i-th claim being passed for unit k.
Blocks(w, k, i) == Behind(w, k) /\ ~Passed(w, i)

LEMMA AgainKept ==
    ASSUME NEW w \in Workers, UNCHANGED <<clock, portfolio>>,
           \A v \in Workers \ {w} : worker'[v] = worker[v],
           NEW c,
           \A k \in 0..(clock - 1), i \in 1..Len(portfolio) : Blocks(w, k, i)' => Blocks(w, k, i)
    PROVE  Again(c) \subseteq Again(c)'
<1>1. ASSUME NEW v \in Workers, NEW k \in 0..(clock - 1), NEW i \in 1..Len(portfolio),
             Blocks(v, k, i)'
      PROVE  Blocks(v, k, i)
  <2>1. CASE v = w
    BY <1>1, <2>1
  <2>2. CASE v # w
    BY <1>1, <2>2 DEF Blocks, Behind, Busy, Passed
  <2>. QED
    BY <2>1, <2>2
<1>2. ASSUME NEW t \in Again(c) PROVE t \in Again(c)'
  <2>. DEFINE k == t[1]
              e == t[2][1]
              i == t[2][2]
  <2>1. /\ t \in (0..(clock - 1)) \X (PairsOf(Workers) \X (1..Len(portfolio)))
        /\ k \in 0..(clock - 1) /\ i \in 1..Len(portfolio) /\ e \subseteq Workers
        /\ portfolio[i] = c /\ \A v \in e : ~Blocks(v, k, i)
    BY DEF Again, Blocks, PairsOf
  <2>2. \A v \in e : ~Blocks(v, k, i)'
    <3>. HIDE DEF k, e, i
    <3>. QED
      BY <1>1, <2>1
  <2>3. \A v \in e : Behind(v, k)' => Passed(v, i)'
    BY <2>2 DEF Blocks
  <2>4. /\ t \in (0..(clock' - 1)) \X (PairsOf(Workers) \X (1..Len(portfolio')))
        /\ portfolio'[i] = c
    BY <2>1
  <2>. QED
    BY <2>3, <2>4 DEF Again
<1>. QED
  BY <1>2

\* A step of one thread leaves the others, the clock and the portfolio alone.
LEMMA OneThread ==
    ASSUME CapInv, NEW w \in Workers, Begin(w) \/ Visit(w) \/ End(w)
    PROVE  /\ UNCHANGED <<clock, portfolio>>
           /\ \A v \in Workers \ {w} : worker'[v] = worker[v]
<1>1. UNCHANGED <<clock, portfolio>>
  BY DEF Begin, Visit, End, Find, Create, Elapse, Compare, Add, Store, Stamp, Collect, Visiting
<1>2. worker \in [Workers -> Local]
  BY DEF CapInv, TypeOK
<1>3. CASE Begin(w) \/ End(w)
  BY <1>1, <1>2, <1>3 DEF Begin, End
<1>4. CASE Find(w) \/ Create(w) \/ Elapse(w) \/ Compare(w)
  BY <1>1, <1>2, <1>4 DEF Find, Create, Elapse, Compare
<1>5. CASE Add(w) \/ Store(w) \/ Stamp(w) \/ Collect(w)
  BY <1>1, <1>2, <1>5 DEF Add, Store, Stamp, Collect
<1>. QED
  BY <1>1, <1>3, <1>4, <1>5 DEF Visit

\* What each step of a visit does to the thread that takes it.
LEMMA VisitStep ==
    ASSUME CapInv, NEW w \in Workers, Visit(w)
    PROVE  /\ worker[w] \in Local /\ worker[w].now \in Nat /\ worker[w].amount \in Nat
           /\ worker[w].next \in 1..Len(portfolio)
           /\ Busy(w) /\ Busy(w)' /\ worker'[w].now = worker[w].now
           /\ Visited(w) \in Claims
           /\ worker[w].pc # "collect" => worker'[w].next = worker[w].next
           /\ worker[w].pc \notin {"find", "create"} =>
                 /\ worker[w].st \in Workers
                 /\ StateOf(w) \in State
           /\ worker[w].pc \notin {"find", "create", "collect"} =>
                 worker'[w].st = worker[w].st
<1>1. /\ worker \in [Workers -> Local] /\ worker[w] \in Local
      /\ worker[w].now \in Nat /\ worker[w].amount \in Nat
  BY WalkAssumption DEF CapInv, TypeOK, Local
<1>2. worker[w].pc \in Visits \cup {"find"} /\ worker[w].next <= Len(portfolio)
  BY DEF Visit, Find, Create, Elapse, Compare, Add, Store, Stamp, Collect, Visiting, Visits
<1>3. worker[w].next \in 1..Len(portfolio)
  BY <1>1, <1>2, WalkAssumption DEF CapInv, TypeOK, Local
<1>4. Visited(w) \in Claims
  BY <1>3 DEF CapInv, TypeOK, Visited
<1>5. worker[w].pc \notin {"find", "create"} => worker[w].st \in Workers /\ StateOf(w) \in State
  BY <1>2, VisitTyped DEF CapInv, Visits
<1>6. ASSUME Find(w) \/ Create(w) \/ Elapse(w) \/ Compare(w)
      PROVE  /\ worker'[w].pc # "idle" /\ worker'[w].now = worker[w].now
             /\ worker[w].pc # "collect" /\ worker'[w].next = worker[w].next
             /\ worker[w].pc \notin {"find", "create", "collect"} =>
                   worker'[w].st = worker[w].st
  BY <1>1, <1>6 DEF Find, Create, Elapse, Compare, Visiting, Local
<1>7. ASSUME Add(w) \/ Store(w) \/ Stamp(w)
      PROVE  /\ worker'[w].pc # "idle" /\ worker'[w].now = worker[w].now
             /\ worker[w].pc # "collect" /\ worker'[w].next = worker[w].next
             /\ worker[w].pc \notin {"find", "create", "collect"} =>
                   worker'[w].st = worker[w].st
  BY <1>1, <1>7 DEF Add, Store, Stamp, Visiting, Local
<1>8. ASSUME Collect(w)
      PROVE  /\ worker'[w].pc # "idle" /\ worker'[w].now = worker[w].now
             /\ worker[w].pc = "collect"
  BY <1>1, <1>8 DEF Collect, Visiting, Local
<1>. QED
  BY <1>1, <1>2, <1>3, <1>4, <1>5, <1>6, <1>7, <1>8 DEF Visit, Busy, Visits

LEMMA NextDated ==
    ASSUME CapInv, Dated, [Next]_vars
    PROVE  Dated'
<1>0. /\ worker \in [Workers -> Local] /\ clock \in Nat
      /\ \A w \in Workers : worker[w].now \in Nat
  BY WalkAssumption DEF CapInv, TypeOK, Local
<1>1. ASSUME NEW w \in Workers, Begin(w) \/ Visit(w) \/ End(w)
      PROVE  Dated'
  <2>1. /\ UNCHANGED clock
        /\ \A v \in Workers \ {w} : worker'[v] = worker[v]
    BY <1>1, OneThread
  <2>2. /\ Busy(w)' => worker'[w].now <= clock
        /\ worker'[w].pc \in {"compare", "add"} => worker'[w].amount <= worker'[w].now
    <3>1. CASE Begin(w)
      BY <1>0, <3>1 DEF Begin, Local, Busy
    <3>2. CASE End(w)
      BY <1>0, <3>2 DEF End, Idle, Busy
    <3>3. CASE Visit(w)
      <4>1. Busy(w) /\ worker'[w].now = worker[w].now /\ worker[w].now <= clock
        BY <3>3, VisitStep DEF Dated
      <4>2. ASSUME worker'[w].pc \in {"compare", "add"}
            PROVE  worker'[w].amount <= worker[w].now
        <5>1. Elapse(w) \/ Compare(w)
          BY <1>0, <3>3, <4>2 DEF Visit, Find, Create, Add, Store, Stamp, Collect, Local
        <5>2. CASE Elapse(w)
          <6>1. StateOf(w).last \in Nat /\ worker[w].now \in Nat
            BY <3>3, <5>2, VisitStep DEF State, Elapse, Visiting
          <6>2. worker'[w].amount = worker[w].now - StateOf(w).last
            BY <1>0, <4>2, <5>2 DEF Elapse, Local
          <6>. QED
            BY <6>1, <6>2
        <5>3. CASE Compare(w)
          <6>1. worker[w].pc = "compare" /\ worker'[w].amount = worker[w].amount
            BY <1>0, <4>2, <5>3 DEF Compare, Visiting, Local
          <6>. QED
            BY <6>1 DEF Dated
        <5>. QED
          BY <5>1, <5>2, <5>3
      <4>. QED
        BY <4>1, <4>2
    <3>. QED
      BY <1>1, <3>1, <3>2, <3>3
  <2>. QED
    BY <2>1, <2>2 DEF Dated, Busy
<1>2. CASE (\E c \in Claims : AppendClaim(c)) \/ Advance \/ UNCHANGED vars
  <2>1. UNCHANGED worker /\ clock <= clock' /\ clock' \in Nat
    BY <1>0, <1>2 DEF AppendClaim, Advance, vars
  <2>. QED
    BY <1>0, <2>1 DEF Dated, Busy
<1>. QED
  BY <1>1, <1>2 DEF Next

\* A step of a visit that finds no state and makes none.
LEMMA OwnedByVisit ==
    ASSUME CapInv, Owned, NEW w \in Workers, UNCHANGED <<portfolio, by_claim>>,
           \A v \in Workers \ {w} : worker'[v] = worker[v],
           worker'[w].pc # "create",
           worker'[w].pc \in Visits =>
              /\ worker[w].pc \in Visits \ {"create"}
              /\ worker'[w].next = worker[w].next /\ worker'[w].st = worker[w].st
    PROVE  Owned'
<1>1. \A v \in Workers : worker'[v].pc \in Visits \ {"create"} =>
          /\ worker[v].pc \in Visits \ {"create"}
          /\ Visited(v)' = Visited(v) /\ worker'[v].st = worker[v].st
  BY DEF Visited
<1>2. \A v \in Workers : worker'[v].pc = "create" =>
          v # w /\ worker[v].pc = "create" /\ Visited(v)' = Visited(v)
  BY DEF Visited
<1>3. ASSUME NEW v \in Workers, worker'[v].pc \in Visits \ {"create"}
      PROVE  by_claim'[Visited(v)'] # None
  BY <1>1, <1>3 DEF Owned
<1>4. ASSUME NEW v \in Workers, worker'[v].pc = "create"
      PROVE  /\ by_claim'[Visited(v)'] # v
             /\ \A u \in Workers :
                   worker'[u].pc \in Visits \ {"create"} /\ Visited(u)' = Visited(v)'
                       => worker'[u].st # v
  BY <1>1, <1>2, <1>4 DEF Owned
<1>. QED
  BY <1>3, <1>4 DEF Owned

LEMMA FindOwned ==
    ASSUME CapInv, Owned, NEW w \in Workers, Find(w)
    PROVE  Owned'
<1>. DEFINE c == Visited(w)
<1>1. /\ UNCHANGED <<portfolio, by_claim>> /\ worker[w].pc = "find" /\ worker[w] \in Local
      /\ \A v \in Workers \ {w} : worker'[v] = worker[v] /\ Visited(v)' = Visited(v)
  <2>1. Visit(w) /\ UNCHANGED by_claim /\ worker[w].pc = "find"
    BY DEF Visit, Find, Visiting
  <2>. QED
    BY <2>1, OneThread, VisitStep DEF Visited
<1>2. Visited(w)' = c
  BY <1>1, VisitStep DEF Visit, Visited
<1>3. CASE by_claim[c] = None
  <2>1. worker'[w].pc = "create"
    BY <1>1, <1>3 DEF Find, CapInv, TypeOK, Local
  <2>2. \A v \in Workers \ {w} : worker[v].pc \in Visits \ {"create"} => Visited(v) # c
    BY <1>3 DEF Owned
  <2>3. w # None
    BY WalkAssumption
  <2>4. /\ by_claim'[c] # w
        /\ \A v \in Workers : worker'[v].pc \in Visits \ {"create"} => Visited(v)' # c
    BY <1>1, <1>3, <2>1, <2>2, <2>3
  <2>5. ASSUME NEW v \in Workers, worker'[v].pc \in Visits \ {"create"}
        PROVE  by_claim'[Visited(v)'] # None
    BY <1>1, <2>1, <2>5 DEF Owned
  <2>6. ASSUME NEW v \in Workers, worker'[v].pc = "create"
        PROVE  /\ by_claim'[Visited(v)'] # v
               /\ \A u \in Workers :
                     worker'[u].pc \in Visits \ {"create"} /\ Visited(u)' = Visited(v)'
                         => worker'[u].st # v
    <3>1. CASE v = w
      BY <1>2, <2>4, <3>1
    <3>2. CASE v # w
      BY <1>1, <2>1, <2>6, <3>2 DEF Owned
    <3>. QED
      BY <3>1, <3>2
  <2>. QED
    BY <2>5, <2>6 DEF Owned
<1>4. CASE by_claim[c] # None
  <2>1. worker'[w].pc = "elapse" /\ worker'[w].st = by_claim[c]
    BY <1>1, <1>4 DEF Find, CapInv, TypeOK, Local
  <2>2. ASSUME NEW v \in Workers, worker'[v].pc \in Visits \ {"create"}
        PROVE  by_claim'[Visited(v)'] # None
    BY <1>1, <1>2, <1>4, <2>2 DEF Owned
  <2>3. ASSUME NEW v \in Workers, worker'[v].pc = "create"
        PROVE  /\ by_claim'[Visited(v)'] # v
               /\ \A u \in Workers :
                     worker'[u].pc \in Visits \ {"create"} /\ Visited(u)' = Visited(v)'
                         => worker'[u].st # v
    <3>1. /\ v # w /\ worker[v].pc = "create" /\ Visited(v)' = Visited(v)
          /\ by_claim[Visited(v)] # v
      BY <1>1, <2>1, <2>3 DEF Owned
    <3>2. ASSUME NEW u \in Workers, worker'[u].pc \in Visits \ {"create"},
                 Visited(u)' = Visited(v)'
          PROVE  worker'[u].st # v
      BY <1>1, <1>2, <2>1, <3>1, <3>2 DEF Owned
    <3>. QED
      BY <1>1, <3>1, <3>2
  <2>. QED
    BY <2>2, <2>3 DEF Owned
<1>. QED
  BY <1>3, <1>4

LEMMA CreateOwned ==
    ASSUME CapInv, Owned, NEW w \in Workers, Create(w)
    PROVE  Owned'
<1>. DEFINE c == Visited(w)
<1>1. /\ UNCHANGED portfolio /\ worker[w].pc = "create"
      /\ \A v \in Workers \ {w} : worker'[v] = worker[v] /\ Visited(v)' = Visited(v)
      /\ Visited(w)' = c /\ c \in Claims
  <2>1. Visit(w) /\ worker[w].pc = "create"
    BY DEF Visit, Create, Visiting
  <2>. QED
    BY <2>1, OneThread, VisitStep DEF Visited
<1>2. /\ by_claim'[c] = w /\ w # None
      /\ \A d : d # c => by_claim'[d] = by_claim[d]
      /\ worker'[w].pc = "elapse" /\ worker'[w].st = w
  BY <1>1, WalkAssumption DEF Create, CapInv, TypeOK, Local
<1>3. ASSUME NEW v \in Workers, worker'[v].pc \in Visits \ {"create"}
      PROVE  by_claim'[Visited(v)'] # None
  BY <1>1, <1>2, <1>3 DEF Owned
<1>4. ASSUME NEW v \in Workers, worker'[v].pc = "create"
      PROVE  /\ by_claim'[Visited(v)'] # v
             /\ \A u \in Workers :
                   worker'[u].pc \in Visits \ {"create"} /\ Visited(u)' = Visited(v)'
                       => worker'[u].st # v
  <2>1. v # w /\ worker[v].pc = "create" /\ Visited(v)' = Visited(v)
    BY <1>1, <1>2, <1>4
  <2>2. by_claim'[Visited(v)] # v
    BY <1>2, <2>1 DEF Owned
  <2>3. ASSUME NEW u \in Workers, worker'[u].pc \in Visits \ {"create"},
               Visited(u)' = Visited(v)'
        PROVE  worker'[u].st # v
    BY <1>1, <1>2, <2>1, <2>3 DEF Owned
  <2>. QED
    BY <2>1, <2>2, <2>3
<1>. QED
  BY <1>3, <1>4 DEF Owned

\* A claim at the end of the list is not one that is being visited.
LEMMA AppendLeavesVisits ==
    ASSUME CapInv, NEW d \in Claims, AppendClaim(d)
    PROVE  /\ \A w \in Workers : worker[w].pc \in Visits => Visited(w)' = Visited(w)
           /\ Len(portfolio') = Len(portfolio) + 1
           /\ \A i \in 1..Len(portfolio) : portfolio'[i] = portfolio[i]
<1>1. portfolio \in Seq(Claims) /\ portfolio' = Append(portfolio, d) /\ UNCHANGED worker
  BY DEF CapInv, TypeOK, AppendClaim
<1>2. /\ Len(portfolio') = Len(portfolio) + 1
      /\ \A i \in 1..Len(portfolio) : portfolio'[i] = portfolio[i]
  BY <1>1
<1>3. \A w \in Workers : worker[w].pc \in Visits => worker[w].next \in 1..Len(portfolio)
  BY WalkAssumption DEF CapInv, TypeOK, Local
<1>. QED
  BY <1>1, <1>2, <1>3 DEF Visited

LEMMA NextOwned ==
    ASSUME CapInv, Owned, [Next]_vars
    PROVE  Owned'
<1>1. ASSUME NEW w \in Workers,
             Begin(w) \/ Elapse(w) \/ Compare(w) \/ Add(w) \/ Store(w) \/ Stamp(w)
                \/ Collect(w) \/ End(w)
      PROVE  Owned'
  <2>1. /\ UNCHANGED portfolio
        /\ \A v \in Workers \ {w} : worker'[v] = worker[v]
    BY <1>1, OneThread DEF Visit
  <2>2. /\ UNCHANGED by_claim /\ worker'[w].pc # "create"
        /\ worker'[w].pc \in Visits => worker[w].pc \in Visits \ {"create", "collect"}
    <3>1. CASE Begin(w) \/ End(w) \/ Collect(w)
      BY <3>1 DEF Begin, End, Collect, Idle, Visits, CapInv, TypeOK, Local
    <3>2. CASE Elapse(w) \/ Compare(w)
      BY <3>2 DEF Elapse, Compare, Visiting, Visits, CapInv, TypeOK, Local
    <3>3. CASE Add(w) \/ Store(w) \/ Stamp(w)
      BY <3>3 DEF Add, Store, Stamp, Visiting, Visits, CapInv, TypeOK, Local
    <3>. QED
      BY <1>1, <3>1, <3>2, <3>3
  <2>3. worker'[w].pc \in Visits =>
            /\ worker[w].pc \in Visits \ {"create"}
            /\ worker'[w].next = worker[w].next /\ worker'[w].st = worker[w].st
    <3>1. CASE Begin(w) \/ End(w)
      BY <3>1 DEF Begin, End, Idle, Visits, CapInv, TypeOK, Local
    <3>2. CASE Visit(w)
      BY <2>2, <3>2, VisitStep DEF Visits
    <3>. QED
      BY <1>1, <3>1, <3>2 DEF Visit
  <2>. QED
    BY <2>1, <2>2, <2>3, OwnedByVisit
<1>2. CASE UNCHANGED <<portfolio, by_claim, worker>>
  BY <1>2 DEF Owned, Visited
<1>3. ASSUME NEW d \in Claims, AppendClaim(d) PROVE Owned'
  <2>1. UNCHANGED <<by_claim, worker>>
    BY <1>3 DEF AppendClaim
  <2>2. \A w \in Workers : worker[w].pc \in Visits => Visited(w)' = Visited(w)
    BY <1>3, AppendLeavesVisits
  <2>. QED
    BY <2>1, <2>2 DEF Owned, Visits
<1>. QED
  BY <1>1, <1>2, <1>3, FindOwned, CreateOwned DEF Next, Visit, vars, Advance

\* A step of one thread that forgets nothing counted, and stores no more than that.
LEMMA KeepsTallied ==
    ASSUME CapInv, CapInv', Tallied, NEW w \in Workers,
           UNCHANGED <<clock, portfolio>>, \A v \in Workers \ {w} : worker'[v] = worker[v],
           \A c \in Claims : \A o \in Workers :
              \/ cell'[c][o].last = cell[c][o].last
              \/ Tally(c, o) <= Tally(c, o)'
              \/ cell'[c][o].consumed = 0 /\ \A v \in Workers : ~WorksOn(v, c, o)',
           \A c \in Claims : \A o \in Workers : \A k \in 0..(clock - 1) :
              HasCounted(w, c, o, k) /\ cell'[c][o].last = cell[c][o].last
                  => HasCounted(w, c, o, k)',
           \A k \in 0..(clock - 1), i \in 1..Len(portfolio) : Blocks(w, k, i)' => Blocks(w, k, i),
           \A c \in Claims : \A o \in Workers :
              \/ cell'[c][o].consumed \in {0, cell[c][o].consumed}
              \/ cell'[c][o].consumed <= MaxRate * Tally(c, o),
           worker'[w].pc = "store" => \A c \in Claims : \A o \in Workers :
              WorksOn(w, c, o)' => worker'[w].amount <= MaxRate * Tally(c, o)'
    PROVE  Tallied'
<1>1. ASSUME NEW c \in Claims, NEW o \in Workers, cell'[c][o].last = cell[c][o].last
      PROVE  Tally(c, o) <= Tally(c, o)'
  <2>1. Once(c, o) \subseteq Once(c, o)'
    BY <1>1, OnceKept
  <2>2. Again(c) \subseteq Again(c)'
    BY AgainKept
  <2>. QED
    BY <2>1, <2>2, TallyGrows
<1>2. \A c \in Claims : \A o \in Workers :
          \/ Tally(c, o) <= Tally(c, o)'
          \/ cell'[c][o].consumed = 0 /\ \A v \in Workers : ~WorksOn(v, c, o)'
  BY <1>1
<1>3. ASSUME NEW v \in Workers, NEW c \in Claims, NEW o \in Workers,
             WorksOn(v, c, o)', worker'[v].pc = "store"
      PROVE  \/ worker'[v].amount <= MaxRate * Tally(c, o)'
             \/ worker'[v] = worker[v] /\ WorksOn(v, c, o)
  BY <1>3 DEF WorksOn, Visited
<1>. QED
  BY <1>2, <1>3, StillTallied

\* A call that begins has read the time now, and one that ends stands in nobody's way.
LEMMA CallTallied ==
    ASSUME CapInv, CapInv', Dated, Tallied, NEW w \in Workers, Begin(w) \/ End(w)
    PROVE  Tallied'
<1>1. /\ UNCHANGED <<clock, portfolio, cell>> /\ clock \in Nat
      /\ \A v \in Workers \ {w} : worker'[v] = worker[v]
      /\ worker[w].pc \in {"idle", "find"} /\ worker'[w].pc \in {"idle", "find"}
      /\ worker'[w].pc = "find" => worker'[w].now = clock
  BY OneThread, WalkAssumption DEF Begin, End, Idle, CapInv, TypeOK, Local
<1>2. \A k \in 0..(clock - 1) : ~Behind(w, k)'
  BY <1>1 DEF Behind, Busy
<1>3. \A c \in Claims : \A o \in Workers : \A k \in 0..(clock - 1) :
          HasCounted(w, c, o, k) => HasCounted(w, c, o, k)'
  BY <1>1, <1>2 DEF HasCounted, WorksOn
<1>4. \A k \in 0..(clock - 1), i \in 1..Len(portfolio) : ~Blocks(w, k, i)'
  BY <1>2 DEF Blocks
<1>. QED
  BY <1>1, <1>3, <1>4, KeepsTallied

\* Where a step of a visit that is not its last leaves the thread.
LEMMA VisitBlocks ==
    ASSUME CapInv, NEW w \in Workers, Visit(w), NEW k, NEW i \in 1..Len(portfolio)
    PROVE  /\ Behind(w, k)' <=> Behind(w, k)
           /\ Blocks(w, k, i)' => Blocks(w, k, i)
<1>1. Behind(w, k)' <=> Behind(w, k)
  BY VisitStep DEF Behind
<1>2. Passed(w, i) => Passed(w, i)'
  <2>1. CASE worker[w].pc # "collect"
    <3>1. worker'[w].next = worker[w].next
      BY <2>1, VisitStep
    <3>. QED
      BY <2>1, <3>1 DEF Passed
  <2>2. CASE worker[w].pc = "collect"
    <3>1. worker'[w].next = worker[w].next + 1 /\ worker[w].next \in Nat
      <4>1. Collect(w)
        BY <2>2 DEF Visit, Find, Create, Elapse, Compare, Add, Store, Stamp, Visiting
      <4>. QED
        BY <4>1, VisitStep DEF Collect, CapInv, TypeOK, Local
    <3>. QED
      BY <3>1 DEF Passed
  <2>. QED
    BY <2>1, <2>2
<1>. QED
  BY <1>1, <1>2 DEF Blocks

\* Steps on local variables but the sum: what is elapsed is what was not counted.
LEMMA ReadsTallied ==
    ASSUME CapInv, CapInv', Dated, Tallied, NEW w \in Workers,
           Find(w) \/ Elapse(w) \/ Compare(w) \/ Collect(w)
    PROVE  Tallied'
<1>0. Visit(w)
  BY DEF Visit
<1>1. /\ UNCHANGED <<clock, portfolio, cell>>
      /\ \A v \in Workers \ {w} : worker'[v] = worker[v]
  BY <1>0, OneThread DEF Find, Elapse, Compare, Collect
<1>2. worker[w] \in Local /\ worker'[w] \in Local
  BY DEF CapInv, TypeOK
<1>3. ASSUME NEW c \in Claims, NEW o \in Workers, NEW k \in 0..(clock - 1),
             HasCounted(w, c, o, k)
      PROVE  HasCounted(w, c, o, k)'
  <2>1. ~Behind(w, k)'
    <3>1. Behind(w, k)' <=> Behind(w, k)
      BY <1>0, VisitStep DEF Behind
    <3>. QED
      BY <1>3, <3>1 DEF HasCounted
  <2>2. CASE Find(w) \/ Collect(w)
    <3>1. /\ worker[w].pc \in {"find", "collect"}
          /\ worker'[w].pc \in {"find", "create", "elapse"}
      BY <1>2, <2>2 DEF Find, Collect, Visiting, CapInv, TypeOK, Local
    <3>. QED
      BY <1>1, <1>3, <2>1, <3>1 DEF HasCounted, WorksOn
  <2>3. CASE Elapse(w)
    <3>1. /\ worker[w].pc = "elapse" /\ worker'[w].pc \in {"compare", "stamp"}
          /\ worker'[w].pc = "compare" => worker'[w].amount = worker[w].now - StateOf(w).last
      BY <1>2, <2>3 DEF Elapse, Visiting, CapInv, TypeOK, Local
    <3>2. k < cell[c][o].last
      BY <1>3, <3>1 DEF HasCounted, WorksOn
    <3>3. worker'[w].next = worker[w].next /\ worker'[w].st = worker[w].st
          /\ worker'[w].now = worker[w].now /\ worker[w].now \in Nat /\ StateOf(w).last \in Nat
      BY <1>0, <3>1, VisitStep DEF State
    <3>4. ASSUME WorksOn(w, c, o)', worker'[w].pc = "compare"
          PROVE  k < worker'[w].now - worker'[w].amount
      <4>1. Visited(w) = c /\ worker[w].st = o
        BY <1>1, <3>3, <3>4 DEF WorksOn, Visited
      <4>2. worker'[w].amount = worker[w].now - StateOf(w).last
        BY <3>1, <3>4
      <4>3. StateOf(w).last = cell[c][o].last
        BY <4>1 DEF StateOf
      <4>. QED
        BY <3>2, <3>3, <4>2, <4>3
    <3>. QED
      BY <1>1, <2>1, <3>1, <3>2, <3>4 DEF HasCounted
  <2>4. CASE Compare(w)
    <3>1. /\ worker[w].pc = "compare" /\ worker'[w].pc \in {"add", "stamp"}
          /\ worker'[w].pc = "add" => worker'[w].amount = worker[w].amount
      BY <1>2, <2>4 DEF Compare, Visiting, CapInv, TypeOK, Local
    <3>2. worker'[w].next = worker[w].next /\ worker'[w].st = worker[w].st
          /\ worker'[w].now = worker[w].now
      BY <1>0, <3>1, VisitStep
    <3>3. WorksOn(w, c, o)' <=> WorksOn(w, c, o)
      BY <1>1, <3>1, <3>2 DEF WorksOn, Visited
    <3>. QED
      BY <1>1, <1>3, <2>1, <3>1, <3>2, <3>3 DEF HasCounted
  <2>. QED
    BY <2>2, <2>3, <2>4
<1>4. \A k \in 0..(clock - 1), i \in 1..Len(portfolio) : Blocks(w, k, i)' => Blocks(w, k, i)
  BY <1>0, VisitBlocks
<1>5. worker'[w].pc # "store"
  BY <1>2 DEF Find, Elapse, Compare, Collect, CapInv, TypeOK, Local
<1>. QED
  BY <1>1, <1>3, <1>4, <1>5, KeepsTallied

\* What is stored was counted when it was computed.
LEMMA StoreTallied ==
    ASSUME CapInv, CapInv', Tallied, NEW w \in Workers, Store(w)
    PROVE  Tallied'
<1>. DEFINE d == Visited(w)
            u == worker[w].st
<1>0. Visit(w) /\ worker[w].pc = "store"
  BY DEF Visit, Store, Visiting
<1>1. /\ UNCHANGED <<clock, portfolio>>
      /\ \A v \in Workers \ {w} : worker'[v] = worker[v]
  BY <1>0, OneThread
<1>2. /\ d \in Claims /\ u \in Workers /\ worker'[w].pc = "stamp"
      /\ worker'[w].next = worker[w].next /\ worker'[w].st = u
  BY <1>0, VisitStep DEF Store, CapInv, TypeOK, Local
<1>3. ASSUME NEW c \in Claims, NEW o \in Workers
      PROVE  /\ cell'[c][o].last = cell[c][o].last
             /\ cell'[c][o].consumed = cell[c][o].consumed \/ (c = d /\ o = u)
  <2>1. cell' = [cell EXCEPT ![d][u].consumed = worker[w].amount]
    BY DEF Store
  <2>2. cell \in [Claims -> [Workers -> State]] /\ cell[c] \in [Workers -> State]
        /\ cell[c][o] \in State
    BY DEF CapInv, TypeOK
  <2>. HIDE DEF d, u
  <2>. QED
    BY <1>2, <2>1, <2>2 DEF State
<1>4. cell'[d][u].consumed <= MaxRate * Tally(d, u)
  <2>1. cell' = [cell EXCEPT ![d][u].consumed = worker[w].amount]
    BY DEF Store
  <2>2. WorksOn(w, d, u)
    BY <1>0 DEF WorksOn
  <2>3. worker[w].amount <= MaxRate * Tally(d, u)
    BY <1>0, <1>2, <2>2 DEF Tallied
  <2>4. cell \in [Claims -> [Workers -> State]] /\ cell[d] \in [Workers -> State]
        /\ cell[d][u] \in State
    BY <1>2 DEF CapInv, TypeOK
  <2>. HIDE DEF d, u
  <2>. QED
    BY <1>2, <2>1, <2>3, <2>4 DEF State
<1>5. ASSUME NEW c \in Claims, NEW o \in Workers, NEW k \in 0..(clock - 1),
             HasCounted(w, c, o, k)
      PROVE  HasCounted(w, c, o, k)'
  <2>1. ~Behind(w, k)'
    <3>1. Behind(w, k)' <=> Behind(w, k)
      BY <1>0, VisitStep DEF Behind
    <3>. QED
      BY <1>5, <3>1 DEF HasCounted
  <2>2. WorksOn(w, c, o)' <=> WorksOn(w, c, o)
    BY <1>0, <1>1, <1>2 DEF WorksOn, Visited
  <2>3. cell'[c][o].last = cell[c][o].last
    BY <1>3
  <2>. QED
    BY <1>2, <1>5, <2>1, <2>2, <2>3 DEF HasCounted
<1>6. \A k \in 0..(clock - 1), i \in 1..Len(portfolio) : Blocks(w, k, i)' => Blocks(w, k, i)
  BY <1>0, VisitBlocks
<1>7. \A c \in Claims : \A o \in Workers :
          \/ cell'[c][o].consumed \in {0, cell[c][o].consumed}
          \/ cell'[c][o].consumed <= MaxRate * Tally(c, o)
  <2>. HIDE DEF d, u
  <2>. QED
    BY <1>3, <1>4
<1>8. worker'[w].pc # "store"
  BY <1>2
<1>. QED
  BY <1>1, <1>3, <1>5, <1>6, <1>7, <1>8, KeepsTallied

\* As many units as have elapsed, each of them counted now by the thread that adds them.
LEMMA AddCounts ==
    ASSUME CapInv, CapInv', Dated, NEW w \in Workers, Add(w),
           NEW c \in Claims, NEW o \in Workers, WorksOn(w, c, o)
    PROVE  Tally(c, o) + worker[w].amount <= Tally(c, o)'
<1>. DEFINE now == worker[w].now
            amount == worker[w].amount
            units == (now - amount)..(now - 1)
            added == {<<k, w>> : k \in units}
<1>0. Visit(w) /\ worker[w].pc = "add" /\ UNCHANGED cell
  BY DEF Visit, Add, Visiting
<1>1. /\ UNCHANGED <<clock, portfolio>> /\ clock \in Nat
      /\ \A v \in Workers \ {w} : worker'[v] = worker[v]
  BY <1>0, OneThread, WalkAssumption DEF CapInv, TypeOK
<1>2. /\ now \in Nat /\ amount \in Nat /\ amount <= now /\ now <= clock
      /\ Busy(w) /\ Busy(w)' /\ worker'[w].now = now
  BY <1>0, VisitStep DEF Dated
<1>3. worker'[w].pc = "store" /\ WorksOn(w, c, o)'
  <2>1. worker'[w].pc = "store"
    BY <1>0 DEF Add, CapInv, TypeOK, Local
  <2>2. worker'[w].next = worker[w].next /\ worker'[w].st = worker[w].st
    BY <1>0, VisitStep
  <2>. QED
    BY <1>1, <2>1, <2>2 DEF WorksOn, Visited
<1>4. \A k \in units : /\ k \in 0..(clock - 1) /\ ~HasCounted(w, c, o, k)
                       /\ HasCounted(w, c, o, k)'
  <2>1. ASSUME NEW k \in units PROVE k \in 0..(clock - 1) /\ k < now /\ ~(k < now - amount)
    BY <1>1, <1>2
  <2>2. ASSUME NEW k \in units PROVE ~HasCounted(w, c, o, k)
    BY <1>0, <2>1 DEF HasCounted
  <2>3. ASSUME NEW k \in units PROVE ~Behind(w, k)'
    BY <1>2, <2>1 DEF Behind
  <2>. HIDE DEF units
  <2>4. ASSUME NEW k \in units PROVE HasCounted(w, c, o, k)'
    BY <1>3, <2>3 DEF HasCounted
  <2>. QED
    BY <2>1, <2>2, <2>4
<1>5. Once(c, o) \subseteq Once(c, o)'
  <2>1. ASSUME NEW k \in 0..(clock - 1), HasCounted(w, c, o, k)
        PROVE  HasCounted(w, c, o, k)'
    <3>1. ~Behind(w, k)'
      BY <1>2, <2>1 DEF HasCounted, Behind
    <3>. QED
      BY <1>3, <3>1 DEF HasCounted
  <2>. QED
    BY <1>0, <1>1, <2>1, OnceKept
<1>6. Again(c) \subseteq Again(c)'
  <2>1. \A k \in 0..(clock - 1), i \in 1..Len(portfolio) : Blocks(w, k, i)' => Blocks(w, k, i)
    BY <1>0, VisitBlocks
  <2>. QED
    BY <1>1, <2>1, AgainKept
<1>7. added \subseteq Once(c, o)' /\ added \cap Once(c, o) = {}
  <2>. HIDE DEF units
  <2>1. \A k \in units : <<k, w>> \in Once(c, o)'
    BY <1>1, <1>4 DEF Once
  <2>2. \A k \in units : <<k, w>> \notin Once(c, o)
    BY <1>4 DEF Once
  <2>. QED
    BY <2>1, <2>2
<1>8. IsFiniteSet(added) /\ Cardinality(added) = amount
  <2>1. IsFiniteSet(units) /\ Cardinality(units) = amount
    <3>1. now - amount \in Int /\ now - 1 \in Int
      BY <1>2
    <3>2. /\ IsFiniteSet(units)
          /\ Cardinality(units) = IF now - amount > now - 1 THEN 0
                                                           ELSE (now - 1) - (now - amount) + 1
      BY <3>1, FS_Interval
    <3>. HIDE DEF units
    <3>. QED
      BY <1>2, <3>2
  <2>. HIDE DEF units
  <2>2. ExistsBijection(units, added)
    <3>. DEFINE f == [k \in units |-> <<k, w>>]
    <3>1. f \in [units -> added]
      OBVIOUS
    <3>2. \A j, k \in units : f[j] = f[k] => j = k
      OBVIOUS
    <3>3. \A t \in added : \E k \in units : f[k] = t
      OBVIOUS
    <3>4. f \in Bijection(units, added)
      BY <3>1, <3>2, <3>3 DEF Bijection, Injection, Surjection, IsInjective
    <3>. QED
      BY <3>4 DEF ExistsBijection
  <2>. HIDE DEF added
  <2>. QED
    BY <2>1, <2>2, FS_Bijection
<1>9. /\ IsFiniteSet(Once(c, o)) /\ IsFiniteSet(Again(c))
      /\ IsFiniteSet(Once(c, o)') /\ IsFiniteSet(Again(c)')
  BY TallyFinite, TallyFiniteNext
<1>. HIDE DEF added
<1>10. Cardinality(Once(c, o)) + amount <= Cardinality(Once(c, o)')
  <2>1. Cardinality(Once(c, o) \cup added) = Cardinality(Once(c, o)) + amount
    BY <1>7, <1>8, <1>9, DisjointUnion
  <2>2. Once(c, o) \cup added \subseteq Once(c, o)'
    BY <1>5, <1>7
  <2>3. Cardinality(Once(c, o) \cup added) <= Cardinality(Once(c, o)')
    BY <1>9, <2>2, FS_Subset
  <2>. QED
    BY <2>1, <2>3
<1>11. Cardinality(Again(c)) <= Cardinality(Again(c)')
  BY <1>6, <1>9, FS_Subset
<1>12. /\ Cardinality(Once(c, o)) \in Nat /\ Cardinality(Again(c)) \in Nat
       /\ Cardinality(Once(c, o)') \in Nat /\ Cardinality(Again(c)') \in Nat
  BY <1>9, FS_CardinalityType
<1>13. Tally(c, o)' = Cardinality(Once(c, o)') + Cardinality(Again(c)')
  BY DEF Tally
<1>14. amount \in Nat
  BY <1>2
<1>. HIDE DEF amount
<1>15. Tally(c, o) + amount <= Tally(c, o)'
  BY <1>10, <1>11, <1>12, <1>13, <1>14 DEF Tally
<1>. QED
  BY <1>15 DEF amount

\* The draw is at most the greatest rate for the units that are added.
LEMMA AddTallied ==
    ASSUME CapInv, CapInv', Dated, Tallied, NEW w \in Workers, Add(w)
    PROVE  Tallied'
<1>0. Visit(w) /\ worker[w].pc = "add" /\ UNCHANGED cell
  BY DEF Visit, Add, Visiting
<1>1. /\ UNCHANGED <<clock, portfolio>>
      /\ \A v \in Workers \ {w} : worker'[v] = worker[v]
  BY <1>0, OneThread
<1>2. /\ worker'[w].pc = "store"
      /\ worker'[w].next = worker[w].next /\ worker'[w].st = worker[w].st
  <2>1. worker'[w].pc = "store"
    BY <1>0 DEF Add, CapInv, TypeOK, Local
  <2>. QED
    BY <1>0, <2>1, VisitStep
<1>3. \A c, o : WorksOn(w, c, o)' <=> WorksOn(w, c, o)
  BY <1>0, <1>1, <1>2 DEF WorksOn, Visited
<1>4. ASSUME NEW c \in Claims, NEW o \in Workers, WorksOn(w, c, o)
      PROVE  worker'[w].amount <= MaxRate * Tally(c, o)'
  <2>. DEFINE amount == worker[w].amount
              before == Tally(c, o)
              after == Tally(c, o)'
  <2>1. PICK delta \in (MinRate * amount)..(MaxRate * amount) :
            worker' = [worker EXCEPT
                          ![w].pc = "store",
                          ![w].amount = Least(GB[Visited(w)], StateOf(w).consumed + delta)]
    BY DEF Add
  <2>2. /\ amount \in Nat /\ StateOf(w) = cell[c][o] /\ StateOf(w).consumed \in Nat
        /\ GB[Visited(w)] \in Nat
    BY <1>0, <1>4, VisitStep, WalkAssumption DEF WorksOn, StateOf, State
  <2>3. MinRate * amount \in Nat /\ MaxRate * amount \in Nat
    BY <2>2, WalkAssumption
  <2>4. delta \in Nat /\ delta <= MaxRate * amount
    BY <2>3
  <2>5. worker'[w].amount = Least(GB[Visited(w)], StateOf(w).consumed + delta)
    BY <2>1 DEF CapInv, TypeOK, Local
  <2>6. worker'[w].amount <= StateOf(w).consumed + delta
    BY <2>2, <2>4, <2>5 DEF Least
  <2>7. cell[c][o].consumed <= MaxRate * before
    BY DEF Tallied
  <2>8. before \in Nat /\ after \in Nat /\ before + amount <= after
    BY <1>4, TallyFinite, TallyFiniteNext, AddCounts
  <2>9. worker'[w].amount \in Nat
    BY DEF CapInv, TypeOK, Local
  <2>. HIDE DEF amount, before, after
  <2>10. /\ MaxRate * before \in Nat /\ MaxRate * (before + amount) \in Nat
         /\ MaxRate * after \in Nat
         /\ MaxRate * (before + amount) = MaxRate * before + MaxRate * amount
    BY <2>2, <2>8, WalkAssumption
  <2>11. MaxRate * (before + amount) <= MaxRate * after
    BY <2>2, <2>8, MoreAtRate
  <2>12. worker'[w].amount <= MaxRate * after
    BY <2>2, <2>3, <2>4, <2>6, <2>7, <2>9, <2>10, <2>11
  <2>. QED
    BY <2>12 DEF after
<1>5. ASSUME NEW c \in Claims, NEW o \in Workers, NEW k \in 0..(clock - 1),
             HasCounted(w, c, o, k)
      PROVE  HasCounted(w, c, o, k)'
  <2>1. ~Behind(w, k)'
    <3>1. Behind(w, k)' <=> Behind(w, k)
      BY <1>0, VisitStep DEF Behind
    <3>. QED
      BY <1>5, <3>1 DEF HasCounted
  <2>. QED
    BY <1>0, <1>2, <1>3, <1>5, <2>1 DEF HasCounted
<1>6. \A k \in 0..(clock - 1), i \in 1..Len(portfolio) : Blocks(w, k, i)' => Blocks(w, k, i)
  BY <1>0, VisitBlocks
<1>7. \A c \in Claims : \A o \in Workers :
          WorksOn(w, c, o)' => worker'[w].amount <= MaxRate * Tally(c, o)'
  BY <1>3, <1>4
<1>8. \A c \in Claims : \A o \in Workers : /\ cell'[c][o].last = cell[c][o].last
                                          /\ cell'[c][o].consumed = cell[c][o].consumed
  BY <1>0
<1>. QED
  BY <1>1, <1>5, <1>6, <1>7, <1>8, KeepsTallied

\* A visit that sets the time of its state back: each unit that another thread
\* may count again is one for which the two are now done with this place.
LEMMA StampRepays ==
    ASSUME CapInv, CapInv', NEW w \in Workers, Stamp(w),
           NEW c \in Claims, NEW o \in Workers, WorksOn(w, c, o)
    PROVE  Tally(c, o) <= Tally(c, o)'
<1>. SUFFICES ASSUME NEW now, now = worker[w].now, NEW i, i = worker[w].next
              PROVE  Tally(c, o) <= Tally(c, o)'
  OBVIOUS
<1>. DEFINE A == Once(c, o)
            A2 == Once(c, o)'
            B == Again(c)
            B2 == Again(c)'
            f == [t \in A \ A2 |-> <<t[1], <<{t[2], w}, i>>>>]
<1>0. Visit(w) /\ worker[w].pc = "stamp"
  BY DEF Visit, Stamp, Visiting
<1>1. /\ UNCHANGED <<clock, portfolio>>
      /\ \A v \in Workers \ {w} : worker'[v] = worker[v]
  BY <1>0, OneThread
<1>2. /\ now \in Nat /\ i \in 1..Len(portfolio) /\ portfolio[i] = c
      /\ worker[w].st = o /\ Busy(w) /\ Busy(w)'
      /\ worker'[w].now = now /\ worker'[w].next = i /\ worker'[w].pc = "collect"
  <2>1. worker'[w].pc = "collect"
    BY <1>0 DEF Stamp, CapInv, TypeOK, Local
  <2>. QED
    BY <1>0, <2>1, VisitStep DEF WorksOn, Visited
<1>3. cell'[c][o].last = now
  <2>1. cell' = [cell EXCEPT ![c][o].last = now]
    BY DEF Stamp, WorksOn
  <2>2. /\ cell \in [Claims -> [Workers -> State]] /\ cell[c] \in [Workers -> State]
        /\ cell[c][o] \in State
    BY DEF CapInv, TypeOK
  <2>. QED
    BY <2>1, <2>2 DEF State
<1>4. ASSUME NEW u \in Workers, NEW k \in 0..(clock - 1),
             HasCounted(u, c, o, k), ~HasCounted(u, c, o, k)'
      PROVE  u # w /\ now <= k /\ ~Behind(u, k)
  <2>1. ~WorksOn(w, c, o)' /\ ~Passed(w, i)
    BY <1>0, <1>2 DEF WorksOn, Passed
  <2>2. ASSUME u = w PROVE FALSE
    <3>1. ~Behind(w, k) /\ ~Behind(w, k)'
      BY <1>2, <1>4, <2>2 DEF HasCounted, Behind
    <3>2. k < now
      BY <1>2, <3>1 DEF Behind
    <3>. QED
      BY <1>3, <1>4, <2>1, <2>2, <3>1, <3>2 DEF HasCounted
  <2>3. /\ ~Behind(u, k) /\ Behind(u, k)' = Behind(u, k)
        /\ WorksOn(u, c, o)' = WorksOn(u, c, o) /\ worker'[u] = worker[u]
    BY <1>1, <1>4, <2>2 DEF HasCounted, Behind, Busy, WorksOn, Visited
  <2>4. ~(k < now)
    BY <1>3, <1>4, <2>3 DEF HasCounted
  <2>. QED
    BY <1>2, <2>2, <2>3, <2>4
<1>5. ASSUME NEW t \in A \ A2
      PROVE  /\ t = <<t[1], t[2]>> /\ t[2] \in Workers \ {w}
             /\ f[t] \in B2 \ B
  <2>. DEFINE k == t[1]
              u == t[2]
  <2>1. /\ t = <<k, u>> /\ k \in 0..(clock - 1) /\ u \in Workers
        /\ HasCounted(u, c, o, k) /\ ~HasCounted(u, c, o, k)'
    BY <1>1 DEF Once
  <2>. HIDE DEF k, u
  <2>2. u # w /\ now <= k /\ ~Behind(u, k)
    BY <1>4, <2>1
  <2>3. {u, w} \in PairsOf(Workers)
    <3>1. Cardinality({w}) = 1 /\ IsFiniteSet({w}) /\ u \notin {w}
      BY <2>2, FS_Singleton
    <3>2. Cardinality({w} \cup {u}) = Cardinality({w}) + 1
      BY <3>1, FS_AddElement
    <3>3. {w} \cup {u} = {u, w}
      OBVIOUS
    <3>. QED
      BY <2>1, <3>1, <3>2, <3>3 DEF PairsOf
  <2>4. Behind(w, k) /\ ~Passed(w, i)
    BY <1>0, <1>2, <2>2 DEF Behind, Passed
  <2>5. Passed(w, i)' /\ ~Behind(u, k)'
    BY <1>1, <1>2, <2>1, <2>2 DEF Passed, Behind, Busy
  <2>6. <<k, <<{u, w}, i>>>> \in B2
    BY <1>1, <1>2, <2>1, <2>3, <2>5 DEF Again
  <2>7. <<k, <<{u, w}, i>>>> \notin B
    BY <2>4 DEF Again
  <2>. QED
    BY <2>1, <2>2, <2>6, <2>7 DEF k, u
<1>6. f \in Injection(A \ A2, B2 \ B)
  <2>1. f \in [A \ A2 -> B2 \ B]
    BY <1>5
  <2>2. ASSUME NEW s \in A \ A2, NEW t \in A \ A2, f[s] = f[t] PROVE s = t
    <3>1. s[1] = t[1] /\ {s[2], w} = {t[2], w}
      BY <2>2
    <3>2. s = <<s[1], s[2]>> /\ t = <<t[1], t[2]>> /\ s[2] # w /\ t[2] # w
      BY <1>5
    <3>3. s[2] = t[2]
      BY <3>1, <3>2
    <3>. QED
      BY <3>1, <3>2, <3>3
  <2>. QED
    BY <2>1, <2>2 DEF Injection, IsInjective
<1>7. IsFiniteSet(A) /\ IsFiniteSet(A2) /\ IsFiniteSet(B2)
  BY TallyFinite, TallyFiniteNext
<1>8. B \subseteq B2
  <2>1. \A k \in 0..(clock - 1), j \in 1..Len(portfolio) : Blocks(w, k, j)' => Blocks(w, k, j)
    BY <1>0, VisitBlocks
  <2>. QED
    BY <1>1, <2>1, AgainKept
<1>9. Tally(c, o) = Cardinality(A) + Cardinality(B)
      /\ Tally(c, o)' = Cardinality(A2) + Cardinality(B2)
  BY DEF Tally
<1>. HIDE DEF A, A2, B, B2, f
<1>. QED
  BY <1>6, <1>7, <1>8, <1>9, Exchange

LEMMA StampTallied ==
    ASSUME CapInv, CapInv', Tallied, NEW w \in Workers, Stamp(w)
    PROVE  Tallied'
<1>. SUFFICES ASSUME NEW d, d = Visited(w), NEW u, u = worker[w].st
              PROVE  Tallied'
  OBVIOUS
<1>0. Visit(w) /\ worker[w].pc = "stamp"
  BY DEF Visit, Stamp, Visiting
<1>1. /\ UNCHANGED <<clock, portfolio>>
      /\ \A v \in Workers \ {w} : worker'[v] = worker[v]
  BY <1>0, OneThread
<1>2. d \in Claims /\ u \in Workers /\ worker'[w].pc = "collect" /\ WorksOn(w, d, u)
  <2>1. worker'[w].pc = "collect"
    BY <1>0 DEF Stamp, CapInv, TypeOK, Local
  <2>. QED
    BY <1>0, <2>1, VisitStep DEF WorksOn
<1>3. Tally(d, u) <= Tally(d, u)'
  BY <1>2, StampRepays
<1>4. ASSUME NEW c \in Claims, NEW o \in Workers
      PROVE  /\ cell'[c][o].last = cell[c][o].last \/ (c = d /\ o = u)
             /\ cell'[c][o].consumed = cell[c][o].consumed
  <2>1. cell' = [cell EXCEPT ![d][u].last = worker[w].now]
    BY DEF Stamp
  <2>2. cell[c] \in [Workers -> State] /\ cell[c][o] \in State
        /\ cell \in [Claims -> [Workers -> State]]
    BY DEF CapInv, TypeOK
  <2>. QED
    BY <1>2, <2>1, <2>2 DEF State
<1>5. ASSUME NEW c \in Claims, NEW o \in Workers, NEW k \in 0..(clock - 1),
             HasCounted(w, c, o, k), cell'[c][o].last = cell[c][o].last
      PROVE  HasCounted(w, c, o, k)'
  <2>1. ~Behind(w, k) /\ ~Behind(w, k)'
    <3>1. Behind(w, k)' <=> Behind(w, k)
      BY <1>0, VisitStep DEF Behind
    <3>. QED
      BY <1>5, <3>1 DEF HasCounted
  <2>2. ~WorksOn(w, c, o)'
    BY <1>2 DEF WorksOn
  <2>3. CASE WorksOn(w, c, o)
    <3>1. c = d /\ o = u
      BY <2>3 DEF WorksOn
    <3>2. cell'[c][o].last = worker[w].now
      <4>1. cell' = [cell EXCEPT ![c][o].last = worker[w].now]
        BY <3>1 DEF Stamp
      <4>2. /\ cell \in [Claims -> [Workers -> State]] /\ cell[c] \in [Workers -> State]
            /\ cell[c][o] \in State
        BY DEF CapInv, TypeOK
      <4>. QED
        BY <4>1, <4>2 DEF State
    <3>3. k < worker[w].now
      BY <1>0, <2>1, VisitStep DEF Behind
    <3>. QED
      BY <2>1, <2>2, <3>2, <3>3 DEF HasCounted
  <2>4. CASE ~WorksOn(w, c, o)
    BY <1>5, <2>1, <2>2, <2>4 DEF HasCounted
  <2>. QED
    BY <2>3, <2>4
<1>6. \A k \in 0..(clock - 1), i \in 1..Len(portfolio) : Blocks(w, k, i)' => Blocks(w, k, i)
  BY <1>0, VisitBlocks
<1>7. \A c \in Claims : \A o \in Workers :
          /\ cell'[c][o].last = cell[c][o].last \/ Tally(c, o) <= Tally(c, o)'
          /\ cell'[c][o].consumed = cell[c][o].consumed
  BY <1>3, <1>4
<1>. QED
  BY <1>1, <1>2, <1>5, <1>6, <1>7, KeepsTallied

\* A new state is one that nobody works on yet.
LEMMA CreateTallied ==
    ASSUME CapInv, CapInv', Owned, Tallied, NEW w \in Workers, Create(w)
    PROVE  Tallied'
<1>. SUFFICES ASSUME NEW d, d = Visited(w) PROVE Tallied'
  OBVIOUS
<1>0. Visit(w) /\ worker[w].pc = "create"
  BY DEF Visit, Create, Visiting
<1>1. /\ UNCHANGED <<clock, portfolio>>
      /\ \A v \in Workers \ {w} : worker'[v] = worker[v]
  BY <1>0, OneThread
<1>2. d \in Claims /\ worker'[w].pc = "elapse"
  <2>1. worker'[w].pc = "elapse"
    BY <1>0 DEF Create, CapInv, TypeOK, Local
  <2>. QED
    BY <1>0, <2>1, VisitStep
<1>3. ASSUME NEW c \in Claims, NEW o \in Workers
      PROVE  \/ cell'[c][o] = cell[c][o]
             \/ c = d /\ o = w /\ cell'[c][o].consumed = 0
  <2>1. cell' = [cell EXCEPT ![d][w] = NewState(worker[w].now)]
    BY DEF Create
  <2>2. cell[c] \in [Workers -> State] /\ cell \in [Claims -> [Workers -> State]]
    BY DEF CapInv, TypeOK
  <2>. QED
    BY <1>2, <2>1, <2>2 DEF NewState
<1>4. ASSUME NEW v \in Workers PROVE ~WorksOn(v, d, w)'
  <2>1. CASE v = w
    BY <1>2, <2>1 DEF WorksOn
  <2>2. CASE v # w
    <3>1. worker'[v] = worker[v] /\ Visited(v)' = Visited(v)
      BY <1>1, <2>2 DEF Visited
    <3>2. ~(worker[v].pc \in Visits \ {"create"} /\ Visited(v) = d /\ worker[v].st = w)
      BY <1>0 DEF Owned
    <3>3. ~(/\ worker'[v].pc \in {"compare", "add", "store", "stamp"}
            /\ Visited(v)' = d /\ worker'[v].st = w)
      BY <3>1, <3>2 DEF Visits
    <3>. QED
      BY <3>3 DEF WorksOn
  <2>. QED
    BY <2>1, <2>2
<1>5. \A c \in Claims : \A o \in Workers :
          \/ cell'[c][o] = cell[c][o]
          \/ cell'[c][o].consumed = 0 /\ \A v \in Workers : ~WorksOn(v, c, o)'
  BY <1>3, <1>4
<1>6. ASSUME NEW c \in Claims, NEW o \in Workers, NEW k \in 0..(clock - 1),
             HasCounted(w, c, o, k), cell'[c][o].last = cell[c][o].last
      PROVE  HasCounted(w, c, o, k)'
  <2>1. ~Behind(w, k)'
    <3>1. Behind(w, k)' <=> Behind(w, k)
      BY <1>0, VisitStep DEF Behind
    <3>. QED
      BY <1>6, <3>1 DEF HasCounted
  <2>2. ~WorksOn(w, c, o) /\ ~WorksOn(w, c, o)'
    BY <1>0, <1>2 DEF WorksOn
  <2>. QED
    BY <1>6, <2>1, <2>2 DEF HasCounted
<1>7. \A k \in 0..(clock - 1), i \in 1..Len(portfolio) : Blocks(w, k, i)' => Blocks(w, k, i)
  BY <1>0, VisitBlocks
<1>. QED
  BY <1>1, <1>2, <1>5, <1>6, <1>7, KeepsTallied

\* A claim is bought, or time goes by: there are more places, or more units.
LEMMA OutsideTallied ==
    ASSUME CapInv, CapInv', Tallied,
           (\E d \in Claims : AppendClaim(d)) \/ Advance \/ UNCHANGED vars
    PROVE  Tallied'
<1>1. UNCHANGED <<cell, worker>>
  BY DEF AppendClaim, Advance, vars
<1>2. /\ \A w \in Workers : worker[w].pc \in Visits => Visited(w)' = Visited(w)
      /\ Len(portfolio) \in Nat /\ Len(portfolio) <= Len(portfolio')
      /\ Len(portfolio') \in Nat
      /\ \A i \in 1..Len(portfolio) : portfolio'[i] = portfolio[i]
  <2>1. portfolio \in Seq(Claims) /\ Len(portfolio) \in Nat
    BY DEF CapInv, TypeOK
  <2>2. CASE \E d \in Claims : AppendClaim(d)
    BY <2>1, <2>2, AppendLeavesVisits
  <2>3. CASE Advance \/ UNCHANGED vars
    BY <1>1, <2>1, <2>3 DEF Advance, vars, Visited
  <2>. QED
    BY <2>2, <2>3
<1>3. clock \in Nat /\ clock' \in Nat /\ clock <= clock'
  BY WalkAssumption DEF AppendClaim, Advance, vars, CapInv, TypeOK
<1>4. ASSUME NEW w \in Workers, NEW c, NEW o PROVE WorksOn(w, c, o)' <=> WorksOn(w, c, o)
  BY <1>1, <1>2 DEF WorksOn, Visits
<1>5. ASSUME NEW w \in Workers, NEW c, NEW o, NEW k, HasCounted(w, c, o, k)
      PROVE  HasCounted(w, c, o, k)'
  <2>1. /\ ~Behind(w, k)' /\ (WorksOn(w, c, o)' <=> WorksOn(w, c, o))
        /\ worker'[w] = worker[w] /\ cell'[c][o] = cell[c][o]
    BY <1>1, <1>4, <1>5 DEF HasCounted, Behind, Busy
  <2>. QED
    BY <1>5, <2>1 DEF HasCounted
<1>6. 0..(clock - 1) \subseteq 0..(clock' - 1) /\ 1..Len(portfolio) \subseteq 1..Len(portfolio')
  <2>1. \A m, n \in Nat : m <= n => 0..(m - 1) \subseteq 0..(n - 1) /\ 1..m \subseteq 1..n
    OBVIOUS
  <2>. QED
    BY <1>2, <1>3, <2>1
<1>7. ASSUME NEW c \in Claims, NEW o \in Workers
      PROVE  Tally(c, o) <= Tally(c, o)'
  <2>1. ASSUME NEW t \in Once(c, o) PROVE t \in Once(c, o)'
    <3>1. /\ t \in (0..(clock - 1)) \X Workers /\ t[2] \in Workers
          /\ HasCounted(t[2], c, o, t[1])
      BY DEF Once
    <3>2. HasCounted(t[2], c, o, t[1])'
      <4>. DEFINE k == t[1]
                  w == t[2]
      <4>1. w \in Workers /\ HasCounted(w, c, o, k)
        BY <3>1
      <4>. HIDE DEF k, w
      <4>2. HasCounted(w, c, o, k)'
        BY <1>5, <4>1
      <4>. QED
        BY <4>2 DEF k, w
    <3>3. t \in (0..(clock' - 1)) \X Workers
      BY <1>6, <3>1
    <3>. QED
      BY <3>2, <3>3 DEF Once
  <2>2. ASSUME NEW t \in Again(c) PROVE t \in Again(c)'
    <3>. DEFINE k == t[1]
                e == t[2][1]
                i == t[2][2]
    <3>1. /\ t \in (0..(clock - 1)) \X (PairsOf(Workers) \X (1..Len(portfolio)))
          /\ i \in 1..Len(portfolio) /\ portfolio[i] = c
          /\ \A w \in e : Behind(w, k) => Passed(w, i)
      BY DEF Again
    <3>2. /\ t \in (0..(clock' - 1)) \X (PairsOf(Workers) \X (1..Len(portfolio')))
          /\ portfolio'[i] = c
      <4>1. portfolio'[i] = c
        BY <1>2, <3>1
      <4>2. t \in (0..(clock' - 1)) \X (PairsOf(Workers) \X (1..Len(portfolio')))
        BY <1>6, <3>1
      <4>. QED
        BY <4>1, <4>2
    <3>3. \A w \in e : Behind(w, k)' => Passed(w, i)'
      <4>1. \A w, l, j : (Behind(w, l)' <=> Behind(w, l)) /\ (Passed(w, j)' <=> Passed(w, j))
        BY <1>1 DEF Behind, Busy, Passed
      <4>. HIDE DEF k, e, i
      <4>. QED
        BY <3>1, <4>1
    <3>. QED
      BY <3>2, <3>3 DEF Again
  <2>. QED
    BY <2>1, <2>2, TallyGrows
<1>. QED
  BY <1>1, <1>4, <1>7, StillTallied

\* Nothing is consumed and no unit is over.
LEMMA InitRepeat == Init => RepeatInv
<1>. SUFFICES ASSUME Init PROVE RepeatInv
  OBVIOUS
<1>1. \A w \in Workers : worker[w].pc = "idle"
  BY DEF Init, Idle
<1>2. Dated /\ Owned
  BY <1>1 DEF Dated, Owned, Busy, Visits
<1>3. ASSUME NEW c \in Claims, NEW o \in Workers
      PROVE  cell[c][o].consumed <= MaxRate * Tally(c, o)
  <2>1. cell[c][o].consumed = 0
    BY DEF Init, NewState
  <2>2. Tally(c, o) \in Nat
    BY InitCap, TallyFinite
  <2>3. MaxRate * Tally(c, o) \in Nat
    BY <2>2, WalkAssumption
  <2>. QED
    BY <2>1, <2>3
<1>. QED
  BY <1>1, <1>2, <1>3 DEF RepeatInv, Tallied

LEMMA NextRepeat == CapInv /\ CapInv' /\ RepeatInv /\ [Next]_vars => RepeatInv'
<1>. SUFFICES ASSUME CapInv, CapInv', Dated, Owned, Tallied, [Next]_vars PROVE RepeatInv'
  BY DEF RepeatInv
<1>1. Dated' /\ Owned'
  BY NextDated, NextOwned
<1>2. Tallied'
  BY CallTallied, ReadsTallied, AddTallied, StoreTallied, StampTallied, CreateTallied,
     OutsideTallied DEF Next, Visit
<1>. QED
  BY <1>1, <1>2 DEF RepeatInv

\* Calls are dated, no two make one state, and what is consumed was counted, by
\* one thread or again by a pair, however many threads there are.
THEOREM RepeatInvariant == Spec => []RepeatInv
<1>. QED
  BY InitRepeat, NextRepeat, CapInvariant, PTL DEF Spec

\* No more can be counted than each unit once by each thread, and once more for
\* each pair of threads at each place of the claim.
LEMMA TallyBounded ==
    ASSUME CapInv, NEW c \in Claims, NEW o \in Workers
    PROVE  /\ Repeats(c) \in Nat
           /\ Tally(c, o) <= Repeats(c) * clock
<1>. DEFINE n == Cardinality(Workers)
            places == {i \in DOMAIN portfolio : portfolio[i] = c}
            held == Cardinality(places)
            pairs == (n * (n - 1)) \div 2
            units == 0..(clock - 1)
<1>1. clock \in Nat /\ Len(portfolio) \in Nat /\ DOMAIN portfolio = 1..Len(portfolio)
  BY WalkAssumption DEF CapInv, TypeOK
<1>2. /\ IsFiniteSet(units) /\ Cardinality(units) = clock
      /\ IsFiniteSet(places)
  <2>1. IsFiniteSet(0..(clock - 1)) /\ IsFiniteSet(1..Len(portfolio))
    BY <1>1, FS_Interval
  <2>2. Cardinality(0..(clock - 1)) = clock
    BY <1>1, FS_Interval
  <2>3. IsFiniteSet(places)
    BY <1>1, <2>1, FS_Subset
  <2>. QED
    BY <2>1, <2>2, <2>3
<1>3. n \in Nat /\ held \in Nat /\ IsFiniteSet(Workers)
  BY <1>2, WalkAssumption, FS_CardinalityType
<1>4. IsFiniteSet(PairsOf(Workers)) /\ Cardinality(PairsOf(Workers)) = pairs /\ pairs \in Nat
  BY <1>3, PairsCounted, FS_CardinalityType
<1>. HIDE DEF n, places, held, pairs, units
<1>5. Cardinality(Once(c, o)) <= clock * n
  <2>1. Once(c, o) \subseteq units \X Workers
    BY DEF Once, units
  <2>2. IsFiniteSet(units \X Workers) /\ Cardinality(units \X Workers) = clock * n
    BY <1>2, <1>3, FS_Product DEF n
  <2>. QED
    BY <2>1, <2>2, FS_Subset
<1>6. Cardinality(Again(c)) <= clock * (pairs * held)
  <2>1. Again(c) \subseteq units \X (PairsOf(Workers) \X places)
    BY <1>1 DEF Again, units, places
  <2>2. /\ IsFiniteSet(PairsOf(Workers) \X places)
        /\ Cardinality(PairsOf(Workers) \X places) = pairs * held
    BY <1>2, <1>4, FS_Product DEF held
  <2>3. /\ IsFiniteSet(units \X (PairsOf(Workers) \X places))
        /\ Cardinality(units \X (PairsOf(Workers) \X places)) = clock * (pairs * held)
    BY <1>2, <2>2, FS_Product
  <2>. QED
    BY <2>1, <2>3, FS_Subset
<1>7. Repeats(c) = n + held * pairs
  BY DEF Repeats, n, held, pairs, places
<1>8. /\ clock * n \in Nat /\ clock * (pairs * held) \in Nat /\ held * pairs \in Nat
      /\ (n + held * pairs) * clock = clock * n + clock * (pairs * held)
  BY <1>1, <1>3, <1>4
<1>9. Cardinality(Once(c, o)) \in Nat /\ Cardinality(Again(c)) \in Nat
  BY TallyFinite, FS_CardinalityType
<1>. QED
  BY <1>3, <1>5, <1>6, <1>7, <1>8, <1>9 DEF Tally

\* However many threads serve however many calls at once, a claim is used up at
\* no more than the greatest rate times what its threads and places may repeat.
THEOREM BoundedPaceHolds == Spec => []BoundedPace
<1>1. ASSUME CapInv, RepeatInv PROVE BoundedPace
  <2>. SUFFICES ASSUME NEW c \in Claims, NEW st \in InUse(c)
                PROVE  st.consumed <= Repeats(c) * MaxRate * clock
    BY DEF BoundedPace
  <2>1. by_claim[c] \in Workers /\ st = cell[c][by_claim[c]]
    BY <1>1 DEF InUse, CapInv, TypeOK
  <2>2. PICK o \in Workers : st = cell[c][o]
    BY <2>1
  <2>3. st.consumed <= MaxRate * Tally(c, o) /\ st.consumed \in Nat
    BY <1>1, <2>2 DEF RepeatInv, Tallied, CapInv, TypeOK, State
  <2>. DEFINE tally == Tally(c, o)
              repeats == Repeats(c)
  <2>4. tally \in Nat /\ repeats \in Nat /\ tally <= repeats * clock
    BY <1>1, TallyFinite, TallyBounded
  <2>5. clock \in Nat /\ MaxRate \in Nat
    BY <1>1, WalkAssumption DEF CapInv, TypeOK
  <2>. HIDE DEF tally, repeats
  <2>6. repeats * clock \in Nat /\ MaxRate * tally \in Nat
    BY <2>4, <2>5
  <2>7. MaxRate * tally <= MaxRate * (repeats * clock)
    BY <2>4, <2>6, MoreAtRate
  <2>8. /\ MaxRate * (repeats * clock) \in Nat
        /\ MaxRate * (repeats * clock) = repeats * MaxRate * clock
    BY <2>4, <2>5, <2>6
  <2>9. st.consumed <= repeats * MaxRate * clock
    BY <2>3, <2>6, <2>7, <2>8 DEF tally
  <2>. QED
    BY <2>9 DEF repeats
<1>. QED
  BY <1>1, RepeatInvariant, CapInvariant, PTL
=============================================================================
