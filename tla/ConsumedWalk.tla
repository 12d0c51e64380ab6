---------------------------- MODULE ConsumedWalk ----------------------------
(***************************************************************************)
(* The simulated consumption of the claims (user_agent/consumed_walk.py),  *)
(* which GET /local/portfolio advances.  FastAPI runs that handler in      *)
(* worker threads: there is no lock, and a thread may be interrupted       *)
(* between any read and the next write.  Amounts are in units of which an  *)
(* uninterrupted call adds MinRate to MaxRate per unit of elapsed time.    *)
(***************************************************************************)
EXTENDS Integers, Sequences, FiniteSets

CONSTANTS
    Workers,        \* worker threads that serve GET /local/portfolio
    Claims,         \* claim identifiers
    GB,             \* GB[c]: payload.gb_purchased
    MinRate,        \* _MIN_FRAC_PER_MIN of the purchase
    MaxRate,        \* _MAX_FRAC_PER_MIN of the purchase
    MaxTime,        \* bound on the clock
    MaxHeld         \* bound on the portfolio

None == "none"

ASSUME WalkAssumption ==
    /\ MinRate \in Nat /\ MaxRate \in Nat /\ MinRate <= MaxRate
    /\ MaxTime \in Nat /\ MaxHeld \in Nat
    /\ IsFiniteSet(Workers)
    /\ GB \in [Claims -> Nat]
    /\ None \notin Workers

VARIABLES
    clock,          \* monotonic_fn
    portfolio,      \* the claim_ids in agent.portfolio; equal claims share one
    cell,           \* cell[c][w]: the _ClaimWalkState that w created for c
    by_claim,       \* _by_claim: by claim, who created the state in use, or None
    worker,         \* the call that each worker serves
    shown,          \* history: what the last call found of each claim
    overlapped      \* history: two calls were served at once

vars == <<clock, portfolio, cell, by_claim, worker, shown, overlapped>>

Least(a, b) == IF a < b THEN a ELSE b

\* `born' is a history: when the state was created.
NewState(t) == [consumed |-> 0, last |-> t, born |-> t]

\* What a call holds in its local variables: amount is the elapsed time, and
\* then the sum of which consumed_gb becomes.
Idle == [pc |-> "idle", now |-> 0, next |-> 1, st |-> None, amount |-> 0]

Init ==
    /\ clock = 0
    /\ portfolio = <<>>
    /\ cell = [c \in Claims |-> [w \in Workers |-> NewState(0)]]
    /\ by_claim = [c \in Claims |-> None]
    /\ worker = [w \in Workers |-> Idle]
    /\ shown = [c \in Claims |-> 0]
    /\ overlapped = FALSE

-----------------------------------------------------------------------------

\* `now' is read before anything else.
Begin(w) ==
    /\ worker[w].pc = "idle"
    /\ worker' = [worker EXCEPT ![w].pc = "find", ![w].now = clock]
    /\ overlapped' = (overlapped \/ \E v \in Workers \ {w} : worker[v].pc # "idle")
    /\ UNCHANGED <<clock, portfolio, cell, by_claim, shown>>

\* The claim that w visits: the list is walked as it is now.
Visited(w) == portfolio[worker[w].next]

\* The state that w works on.
StateOf(w) == cell[Visited(w)][worker[w].st]

Visiting(w, pc) ==
    /\ worker[w].pc = pc
    /\ worker[w].next <= Len(portfolio)
    /\ UNCHANGED <<clock, portfolio, overlapped>>

Find(w) ==
    /\ Visiting(w, "find")
    /\ worker' = IF by_claim[Visited(w)] = None
                 THEN [worker EXCEPT ![w].pc = "create"]
                 ELSE [worker EXCEPT ![w].pc = "elapse", ![w].st = by_claim[Visited(w)]]
    /\ UNCHANGED <<cell, by_claim, shown>>

\* The state that another worker has stored in the meantime is replaced.
Create(w) ==
    /\ Visiting(w, "create")
    /\ cell' = [cell EXCEPT ![Visited(w)][w] = NewState(worker[w].now)]
    /\ by_claim' = [by_claim EXCEPT ![Visited(w)] = w]
    /\ worker' = [worker EXCEPT ![w].pc = "elapse", ![w].st = w]
    /\ UNCHANGED shown

\* Mutant: the difference is not cut off at zero.
ElapseUnclamped(w) ==
    /\ Visiting(w, "elapse")
    /\ worker' = [worker EXCEPT ![w].pc = "compare",
                                ![w].amount = worker[w].now - StateOf(w).last]
    /\ UNCHANGED <<cell, by_claim, shown>>

\* elapsed_s, and whether it is worth going on.
Elapse(w) ==
    /\ Visiting(w, "elapse")
    /\ LET elapsed == worker[w].now - StateOf(w).last
       IN  worker' = IF elapsed > 0
                     THEN [worker EXCEPT ![w].pc = "compare", ![w].amount = elapsed]
                     ELSE [worker EXCEPT ![w].pc = "stamp"]
    /\ UNCHANGED <<cell, by_claim, shown>>

Compare(w) ==
    /\ Visiting(w, "compare")
    /\ worker' = IF StateOf(w).consumed < GB[Visited(w)]
                 THEN [worker EXCEPT ![w].pc = "add"]
                 ELSE [worker EXCEPT ![w].pc = "stamp", ![w].amount = 0]
    /\ UNCHANGED <<cell, by_claim, shown>>

\* Mutant: what was purchased is no limit.
AddUncapped(w) ==
    /\ Visiting(w, "add")
    /\ \E delta \in (MinRate * worker[w].amount)..(MaxRate * worker[w].amount) :
          worker' = [worker EXCEPT ![w].pc = "store",
                                   ![w].amount = StateOf(w).consumed + delta]
    /\ UNCHANGED <<cell, by_claim, shown>>

\* Mutant: what was consumed before is forgotten.
AddToNothing(w) ==
    /\ Visiting(w, "add")
    /\ \E delta \in (MinRate * worker[w].amount)..(MaxRate * worker[w].amount) :
          worker' = [worker EXCEPT ![w].pc = "store",
                                   ![w].amount = Least(GB[Visited(w)], delta)]
    /\ UNCHANGED <<cell, by_claim, shown>>

\* The state is read, and the draw is added to it.
Add(w) ==
    /\ Visiting(w, "add")
    /\ \E delta \in (MinRate * worker[w].amount)..(MaxRate * worker[w].amount) :
          worker' = [worker EXCEPT
                        ![w].pc = "store",
                        ![w].amount = Least(GB[Visited(w)], StateOf(w).consumed + delta)]
    /\ UNCHANGED <<cell, by_claim, shown>>

Store(w) ==
    /\ Visiting(w, "store")
    /\ cell' = [cell EXCEPT ![Visited(w)][worker[w].st].consumed = worker[w].amount]
    /\ worker' = [worker EXCEPT ![w].pc = "stamp", ![w].amount = 0]
    /\ UNCHANGED <<by_claim, shown>>

\* Mutant: the time of the update is not kept.
StampNothing(w) ==
    /\ Visiting(w, "stamp")
    /\ worker' = [worker EXCEPT ![w].pc = "collect"]
    /\ UNCHANGED <<cell, by_claim, shown>>

Stamp(w) ==
    /\ Visiting(w, "stamp")
    /\ cell' = [cell EXCEPT ![Visited(w)][worker[w].st].last = worker[w].now]
    /\ worker' = [worker EXCEPT ![w].pc = "collect"]
    /\ UNCHANGED <<by_claim, shown>>

\* The result of a claim, of which nothing changes it but a second visit.
Collect(w) ==
    /\ Visiting(w, "collect")
    /\ shown' = [shown EXCEPT ![Visited(w)] = StateOf(w).consumed]
    /\ worker' = [worker EXCEPT ![w].pc = "find", ![w].next = @ + 1, ![w].st = None]
    /\ UNCHANGED <<cell, by_claim>>

\* The end of the list: the answer is sent.
End(w) ==
    /\ worker[w].pc = "find" /\ worker[w].next > Len(portfolio)
    /\ worker' = [worker EXCEPT ![w] = Idle]
    /\ UNCHANGED <<clock, portfolio, cell, by_claim, shown, overlapped>>

\* A purchase; two in one second on one SLA have one claim_id.
AppendClaim(c) ==
    /\ Len(portfolio) < MaxHeld
    /\ portfolio' = Append(portfolio, c)
    /\ UNCHANGED <<clock, cell, by_claim, worker, shown, overlapped>>

Advance ==
    /\ clock < MaxTime
    /\ clock' = clock + 1
    /\ UNCHANGED <<portfolio, cell, by_claim, worker, shown, overlapped>>

Visit(w) ==
    \/ Find(w) \/ Create(w) \/ Elapse(w) \/ Compare(w) \/ Add(w) \/ Store(w)
    \/ Stamp(w) \/ Collect(w)

Next ==
    \/ \E w \in Workers : Begin(w) \/ Visit(w) \/ End(w)
    \/ \E c \in Claims : AppendClaim(c)
    \/ Advance

Spec == Init /\ [][Next]_vars

-----------------------------------------------------------------------------
(* Properties                                                              *)

State == [consumed : Nat, last : Nat, born : Nat]

Local == [pc : {"idle", "find", "create", "elapse", "compare", "add", "store", "stamp",
                "collect"},
          now : 0..MaxTime, next : 1..(MaxHeld + 1), st : Workers \cup {None}, amount : Nat]

\* Type correctness.
TypeOK ==
    /\ clock \in 0..MaxTime
    /\ portfolio \in Seq(Claims) /\ Len(portfolio) <= MaxHeld
    /\ cell \in [Claims -> [Workers -> State]]
    /\ by_claim \in [Claims -> Workers \cup {None}]
    /\ worker \in [Workers -> Local]
    /\ shown \in [Claims -> Nat]
    /\ overlapped \in BOOLEAN

\* However the threads interleave, no claim is shown or held as consumed beyond
\* what was purchased ("capped at gb_purchased").
Capped ==
    \A c \in Claims : /\ shown[c] <= GB[c]
                      /\ \A w \in Workers : cell[c][w].consumed <= GB[c]

\* The states that have a claim in them.
InUse(c) == IF by_claim[c] = None THEN {} ELSE {cell[c][by_claim[c]]}

\* Calls that do not overlap consume between the least and the greatest rate
\* for the time since the first of them, however often they come and however
\* often a claim is in the portfolio ("short polls don't over-advance").
InPace ==
    (~overlapped /\ \A w \in Workers : worker[w].pc \in {"idle", "find", "elapse"}) =>
        \A c \in Claims : \A st \in InUse(c) :
            /\ st.consumed <= MaxRate * (st.last - st.born)
            /\ st.consumed >= Least(GB[c], MinRate * (st.last - st.born))

\* How often calls that overlap may count one unit of time for a claim: each
\* thread once, and each two of them once more for every time that it is held.
Repeats(c) ==
    LET n == Cardinality(Workers)
        held == Cardinality({i \in DOMAIN portfolio : portfolio[i] = c})
    IN  n + held * ((n * (n - 1)) \div 2)

\* However calls overlap, the time they count again is bounded by the number of
\* threads and of equal claims, and not by the number of polls ("so short polls
\* don't over-advance").
BoundedPace ==
    \A c \in Claims : \A st \in InUse(c) :
        st.consumed <= Repeats(c) * MaxRate * clock

\* What is shown of a claim never decreases while calls do not overlap.
NeverBack == [][~overlapped' => \A c \in Claims : shown'[c] >= shown[c]]_vars
=============================================================================
