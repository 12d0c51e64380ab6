----------------------------- MODULE MCRouting -----------------------------
(***************************************************************************)
(* A market around one destination for TLC.  Two paths lead from A to D;   *)
(* SLAs 1, 2 and 4 cover parts of the first one, 3 and 5 all of it at one  *)
(* price, 6 its ASes over other interfaces, and 7 all of the second path.  *)
(***************************************************************************)
EXTENDS Routing, TLC

Hop(as, in, out) == [isd_as |-> as, ingress |-> in, egress |-> out]

MCPath1 == <<Hop("A", 0, 1), Hop("B", 2, 3), Hop("C", 4, 5), Hop("D", 6, 0)>>
MCPath2 == <<Hop("A", 0, 7), Hop("E", 8, 9), Hop("D", 10, 0)>>
MCRealPaths == <<MCPath1, MCPath2>>

MCPathOf ==
    <<SubSeq(MCPath1, 1, 2), SubSeq(MCPath1, 3, 4), MCPath1, SubSeq(MCPath1, 2, 3), MCPath1,
      [MCPath1 EXCEPT ![2].ingress = 20], MCPath2>>

MCCosigners == [s \in SLAs |-> ASesOf(MCPathOf[s])]

Bounds(latency, loss, bandwidth) ==
    "latency_ms" :> latency @@ "loss_ppm" :> loss @@ "bandwidth_kbps" :> bandwidth

MCBound ==
    <<Bounds(10, 3, 50), "latency_ms" :> 4, Bounds(20, 5, 40), Bounds(6, 1, 30),
      Bounds(30, 5, 40), "bandwidth_kbps" :> 60, Bounds(15, 2, 40)>>

MCPricePerGB == <<2, 3, 4, 1, 4, 1, 4>>

MCPolicies ==
    LET any == [max_price |-> 5, floor |-> 0, required |-> <<>>, alpha |-> 1, beta |-> 10]
    IN  {any, [any EXCEPT !.floor = 60], [any EXCEPT !.required = "latency_ms" :> 25]}

\* Nobody was reported, or B was, and D less often.
MCScoreTables == {<<>>, "B" :> 50 @@ "D" :> 80}
=============================================================================
