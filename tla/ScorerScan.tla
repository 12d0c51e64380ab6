----------------------------- MODULE ScorerScan -----------------------------
(***************************************************************************)
(* The loop of compute_violation_events (scorer/scorer.py) over the sorted *)
(* complaints of one SLA and one metric: one step per iteration of         *)
(* `for i, c in enumerate(ordered)'.                                       *)
(***************************************************************************)
EXTENDS Scorer

CONSTANT Logs       \* the sorted logs a scan may be started on

ASSUME LogsAssumption ==
    \A l \in Logs : l \in Seq(Complaint) /\ SortedByTime(l)

VARIABLES
    ordered,        \* the list the loop walks; never changes
    i,              \* complaints visited so far (the loop index, from 1)
    window_start,   \* window_start_idx
    triggered,      \* triggered_complainants; {} stands for None
    events,         \* the ViolationEvents emitted so far
    fired           \* history: the position at which each of them was emitted

vars == <<ordered, i, window_start, triggered, events, fired>>

TypeOK ==
    /\ ordered \in Seq(Complaint)
    /\ SortedByTime(ordered)
    /\ i \in 0..Len(ordered)
    /\ window_start \in 1..(i + 1)
    /\ i > 0 => window_start <= i
    /\ triggered \subseteq Complainants
    /\ events \in Seq(ViolationEvent)
    /\ fired \in Seq(Nat)
    /\ \A n \in DOMAIN fired : fired[n] \in 1..i
    /\ Len(fired) = Len(events)

Init ==
    /\ ordered \in Logs
    /\ i = 0
    /\ window_start = 1
    /\ triggered = {}
    /\ events = <<>>
    /\ fired = <<>>

-----------------------------------------------------------------------------

Age(n, m) == ordered[n].observed_at - ordered[m].observed_at

\* Mutant: `if' for `while': one complaint leaves the window at most.
SlidOnce(s) ==
    /\ s \in window_start..(i + 1)
    /\ s = IF Age(i + 1, window_start) > W THEN window_start + 1 ELSE window_start

(***************************************************************************)
(* The while loop of this iteration, the visit of position i + 1, leaves   *)
(* window_start_idx at s: the first position from where it was that is not *)
(* older than W.                                                           *)
(***************************************************************************)
SlidTo(s) ==
    /\ s \in window_start..(i + 1)
    /\ s = i + 1 \/ Age(i + 1, s) <= W
    /\ \A m \in window_start..(s - 1) : Age(i + 1, m) > W

InWindow(s) == {ordered[j].complainant : j \in s..(i + 1)}

\* Mutant: the triggering cohort is not remembered.
CohortForgotten(s) == {}

\* Mutant: the triggering cohort never ages out.
CohortNeverAges(s) == triggered

(***************************************************************************)
(* triggered_complainants once the iteration has asked whether anyone of   *)
(* the triggering cohort is still in the window.                           *)
(***************************************************************************)
Cohort(s) == IF triggered \cap InWindow(s) = {} THEN {} ELSE triggered

Visit(s) ==
    /\ i < Len(ordered)
    /\ SlidTo(s)
    /\ i' = i + 1
    /\ window_start' = s
    /\ UNCHANGED ordered

\* The cohort has not aged out: `continue'.
Suppress(s) ==
    /\ Visit(s)
    /\ Cohort(s) # {}
    /\ triggered' = Cohort(s)
    /\ UNCHANGED <<events, fired>>

\* Too few distinct complainants in the window.
Quiet(s) ==
    /\ Visit(s)
    /\ Cohort(s) = {}
    /\ ~(Cardinality(InWindow(s)) >= K)
    /\ triggered' = {}
    /\ UNCHANGED <<events, fired>>

Emit(s) ==
    /\ Visit(s)
    /\ Cohort(s) = {}
    /\ Cardinality(InWindow(s)) >= K
    /\ triggered' = InWindow(s)
    /\ events' = Append(events,
                        [window_end |-> ordered[i + 1].observed_at,
                         complainants |-> InWindow(s)])
    /\ fired' = Append(fired, i + 1)

Next == \E s \in 1..Len(ordered) : Suppress(s) \/ Quiet(s) \/ Emit(s)

Spec == Init /\ [][Next]_vars

-----------------------------------------------------------------------------
(* Correctness.                                                            *)

(***************************************************************************)
(* No event without corroboration: at least K complainants, each with a    *)
(* complaint of its own no older than W when the event was emitted.  It is *)
(* what the sliding window and the set of distinct complainants are for.   *)
(***************************************************************************)
Corroborated ==
    \A n \in DOMAIN events :
        /\ Cardinality(events[n].complainants) >= K
        /\ \A c \in events[n].complainants :
              \E m \in 1..fired[n] :
                  /\ ordered[m].complainant = c
                  /\ events[n].window_end - W <= ordered[m].observed_at
                  /\ ordered[m].observed_at <= events[n].window_end

(***************************************************************************)
(* No complaint is paid for twice: the windows of two events are disjoint, *)
(* although the window only slides and the cohort is forgotten and formed  *)
(* again at positions that have nothing to do with the window's edges.     *)
(***************************************************************************)
DisjointEvidence ==
    \A m, n \in DOMAIN events :
        m < n => events[n].window_end - events[m].window_end > W

(***************************************************************************)
(* Nothing is missed: wherever K complainants stand in the window, an event*)
(* has been emitted there or an earlier event's cohort has kept the group  *)
(* suppressed without interruption since.                                  *)
(***************************************************************************)
NothingMissed ==
    \A n \in 1..i :
        Cardinality(Window(ordered, n)) >= K =>
            \E e \in DOMAIN events :
                fired[e] <= n /\ Persists(ordered, fired[e], n)

(***************************************************************************)
(* The incremental loop computes the reference definition: it fires exactly*)
(* at the positions Fires names, with the events they describe.            *)
(***************************************************************************)
LoopComputesFires ==
    /\ {fired[n] : n \in DOMAIN fired} = Fires(ordered) \cap 1..i
    /\ \A n \in DOMAIN events : events[n] = EventAt(ordered, fired[n])

\* A scan implements the abstract promise of separate, corroborated reports.
Cohorts == {c \in SUBSET Complainants : Cardinality(c) >= K}
Promise == INSTANCE Episodes
PromiseSpec == Promise!Spec

-----------------------------------------------------------------------------
(***************************************************************************)
(* Why it is correct: window_start separates the complaints older than W   *)
(* from the others, each event is the window of the position that fired it,*)
(* and `triggered' tells the past apart: while it is set, its cohort has   *)
(* persisted, and once it is None every event is older than W.             *)
(***************************************************************************)
WindowIsTight ==
    i > 0 => \A m \in 1..i : m < window_start <=> Age(i, m) > W

EventsAreWindows ==
    \A n \in DOMAIN events :
        /\ events[n] = EventAt(ordered, fired[n])
        /\ Cardinality(Window(ordered, fired[n])) >= K

CohortPersists ==
    triggered # {} =>
        /\ events # <<>>
        /\ triggered = Window(ordered, fired[Len(fired)])
        /\ Persists(ordered, fired[Len(fired)], i)

NoneMeansAged ==
    triggered = {} => \A n \in DOMAIN events : Age(i, fired[n]) > W

ScanInv ==
    /\ TypeOK
    /\ WindowIsTight
    /\ EventsAreWindows
    /\ CohortPersists
    /\ NoneMeansAged
    /\ DisjointEvidence
    /\ NothingMissed
=============================================================================
