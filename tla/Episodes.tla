------------------------------ MODULE Episodes ------------------------------
(***************************************************************************)
(* What compute_violation_events promises the ASes it scores, with no word *)
(* of complaints, windows or suppression: the events of one SLA and one    *)
(* metric are reported one at a time, each on the word of a cohort that is *)
(* large enough, and two reports are always more than W minutes apart.     *)
(***************************************************************************)
EXTENDS Integers, Sequences

CONSTANTS
    Cohorts,    \* the sets of complainants that corroborate an event
    W           \* the window, in minutes

VARIABLE events

Init == events = <<>>

Report(e) ==
    /\ e.complainants \in Cohorts
    /\ \A n \in DOMAIN events : e.window_end - events[n].window_end > W
    /\ events' = Append(events, e)

\* Any time may be reported: the new event is read off the step itself.
Next == events' # <<>> /\ Report(events'[Len(events')])

Spec == Init /\ [][Next]_events
=============================================================================
