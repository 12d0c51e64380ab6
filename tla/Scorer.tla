------------------------------- MODULE Scorer -------------------------------
(***************************************************************************)
(* What the reputation scorer (scorer/scorer.py) computes, stated without  *)
(* its loop.  A log is the sequence of violating complaints filed against  *)
(* one SLA for one metric, in the order the scan visits them: sorted by    *)
(* observed_at, ties in arrival order.  A complaint is a record whose      *)
(* fields `complainant' and `observed_at' are the only ones the scan       *)
(* reads.  Timestamps are integers (minutes).                              *)
(***************************************************************************)
EXTENDS Integers, Sequences, FiniteSets

CONSTANTS
    Complainants,   \* the ASes that may file complaints
    K,              \* ScoringConfig.k: distinct complainants an event needs
    W               \* ScoringConfig.window_minutes

ASSUME ScorerAssumption ==
    /\ K \in Int
    /\ W \in Nat

Complaint == [complainant : Complainants, observed_at : Int]

SortedByTime(log) ==
    \A m, n \in DOMAIN log : m <= n => log[m].observed_at <= log[n].observed_at

(***************************************************************************)
(* The complainants with a complaint in the window [t_n - W, t_n] that     *)
(* ends at the log's n-th complaint.                                       *)
(***************************************************************************)
Window(log, n) ==
    {log[j].complainant :
        j \in {m \in 1..n : log[n].observed_at - log[m].observed_at <= W}}

(***************************************************************************)
(* The cohort of the window ending at f has kept complaining up to n: every*)
(* window in between still holds a complaint by one of its members.        *)
(***************************************************************************)
Persists(log, f, n) ==
    \A m \in f..n : Window(log, m) \cap Window(log, f) # {}

(***************************************************************************)
(* The positions whose complaint takes the log over the threshold: the     *)
(* reference definition of compute_violation_events.                       *)
(***************************************************************************)
Fires(log) ==
    LET fires[n \in 1..Len(log)] ==
            /\ Cardinality(Window(log, n)) >= K
            /\ \A f \in 1..(n - 1) : fires[f] => ~Persists(log, f, n)
    IN  {n \in 1..Len(log) : fires[n]}

(***************************************************************************)
(* ViolationEvent of one group: window_end and complainants.  The other    *)
(* fields (sla_id, metric, attributed_to) are the group's own constants.   *)
(***************************************************************************)
ViolationEvent == [window_end : Int, complainants : SUBSET Complainants]

EventAt(log, n) ==
    [window_end |-> log[n].observed_at, complainants |-> Window(log, n)]
=============================================================================
