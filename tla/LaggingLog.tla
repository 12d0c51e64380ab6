----------------------------- MODULE LaggingLog -----------------------------
(***************************************************************************)
(* What the user agent's state file promises its operator about the        *)
(* portfolio, with no word of threads: the file holds some earlier state of*)
(* the portfolio, never a claim that was not in it and never one out of    *)
(* order, and a restart goes on from the file.                             *)
(***************************************************************************)
EXTENDS Naturals, Sequences

VARIABLES
    log,        \* the claims in memory, oldest first
    saved       \* the claims in the file

Init == log = <<>> /\ saved = <<>>

Grow ==
    /\ \E claim \in {log'[n] : n \in DOMAIN log'} : log' = Append(log, claim)
    /\ UNCHANGED saved

Save ==
    /\ saved' \in {SubSeq(log, 1, n) : n \in 0..Len(log)}
    /\ UNCHANGED log

Restart ==
    /\ log' = saved
    /\ UNCHANGED saved

Next == Grow \/ Save \/ Restart

Spec == Init /\ [][Next]_<<log, saved>>
=============================================================================
