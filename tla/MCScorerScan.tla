---------------------------- MODULE MCScorerScan ----------------------------
(***************************************************************************)
(* A small instance of ScorerScan for TLC.  Complainants are numbers so    *)
(* that of the logs that differ only in who is who one is enough.          *)
(***************************************************************************)
EXTENDS ScorerScan

CONSTANT MaxLength      \* bound on the complaints of one log

(***************************************************************************)
(* Every sorted log of at most MaxLength complaints, up to renaming the    *)
(* complainants and shifting time.  Between two complaints at most W + 1   *)
(* minutes pass: a longer gap empties the window just the same.            *)
(***************************************************************************)
MCLogs ==
    LET Who(l) == {c \in Complainants :
                      \A d \in 1..(c - 1) : \E n \in DOMAIN l : l[n].complainant = d}
        When(l) == IF l = <<>> THEN {0}
                   ELSE {l[Len(l)].observed_at + gap : gap \in 0..(W + 1)}
        sorted[n \in 0..MaxLength] ==
            IF n = 0 THEN {<<>>}
            ELSE UNION {{Append(l, [complainant |-> c, observed_at |-> t]) :
                            c \in Who(l), t \in When(l)} :
                        l \in sorted[n - 1]}
    IN  UNION {sorted[n] : n \in 0..MaxLength}
=============================================================================
