---------------------------- MODULE MCAggregator ----------------------------
(***************************************************************************)
(* Small markets for TLC.  SLA s1 is signed by A and B, s2 by B and C, and *)
(* s3 visits A twice; X, Y and Z only buy and complain.                    *)
(***************************************************************************)
EXTENDS Aggregator

CONSTANTS
    asA, asB, asC, asX, asY, asZ,
    s1, s2, s3,
    Offered,        \* the SLAs clients post
    Observed,       \* the timestamps of complaints
    Claimants,      \* the ASes that try to buy
    AlsoHarmless    \* whether clients also complain of what is no violation

MCASes == {asA, asB, asC, asX, asY, asZ}

MCCosigners == (s1 :> <<asA, asB>>) @@ (s2 :> <<asB, asC>>) @@ (s3 :> <<asA, asB, asA>>)
MCPath == MCCosigners
MCValidFrom == [s \in SLAs |-> 0]
MCValidUntil == [s \in SLAs |-> IF MaxTime = 0 THEN 1 ELSE MaxTime]
MCPricePerGB == [s \in SLAs |-> 2]
MCBound == [s \in SLAs |-> IF s = s2 THEN Bandwidth :> 5 ELSE "latency_ms" :> 5]

\* Halves every minute, as tau = 0.025 h roughly does, and starts at 10.
MCPenalty ==
    [dt \in -5..5 |-> IF dt < 0 THEN 10 ELSE IF dt = 0 THEN 10 ELSE IF dt = 1 THEN 5 ELSE 2]

Signed(as) == [isd_as |-> as, verifies |-> TRUE]

\* Nobody but the set of complainants knows X, Y and Z in agg_order.
Symmetry == Permutations(Complainants)

MCSLABodies ==
    LET good(s) == [sla |-> s, sla_id |-> s, well_formed |-> TRUE,
                    signatures |-> [n \in DOMAIN Cosigners[s] |-> Signed(Cosigners[s][n])]]
    IN  {good(s) : s \in Offered}
        \cup {[good(s1) EXCEPT !.sla_id = s2],
              [good(s1) EXCEPT !.signatures[2].verifies = FALSE],
              [good(s1) EXCEPT !.signatures = <<Signed(asA), Signed(asA)>>]}

MCClaimBodies ==
    {[sla |-> s, claimant |-> as, gb |-> gb, paid |-> 2, well_formed |-> TRUE,
      signer |-> as, verifies |-> TRUE] :
        s \in Offered, as \in Claimants, gb \in {0, 1}}

MCComplaintBodies ==
    LET bodies ==
            {[sla |-> s, complainant |-> as, metric |-> m, measured |-> v,
              observed_at |-> t, path_used |-> Path[s], well_formed |-> TRUE,
              signer |-> as, verifies |-> TRUE] :
                s \in Offered, as \in Complainants, m \in Metrics,
                v \in {4, 6}, t \in Observed}
    IN  {body \in bodies :
            AlsoHarmless \/ body.metric \notin DOMAIN Bound[body.sla] \/ IsViolation(body)}
=============================================================================
