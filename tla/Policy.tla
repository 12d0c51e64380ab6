------------------------------- MODULE Policy -------------------------------
(***************************************************************************)
(* What an agent makes of an SLA (agent/policy.py) and of a sample of its  *)
(* quality (agent/simulated_quality.py).  SLAs are numbered in the order   *)
(* of their identifiers.  A bound that is None is no member of the domain: *)
(* Bound[s] is a function of the metrics that s commits to.  Scores are in *)
(* hundredths and a policy's weights are integers.                         *)
(***************************************************************************)
EXTENDS Integers, SequencesExt, FiniteSetsExt

CONSTANTS
    SLAs,           \* SLA payloads, as numbers from 1 in the order of sla_id
    Cosigners,      \* Cosigners[s]: payload.cosigners, a sequence of ASes
    Bound,          \* Bound[s]: the bounds that are not None, by metric
    PricePerGB,     \* PricePerGB[s]
    Metrics,        \* latency_ms, loss_ppm, bandwidth_kbps
    Bandwidth       \* the metric whose bound is a minimum

ASSUME PolicyAssumption ==
    /\ SLAs \subseteq Nat \ {0} /\ IsFiniteSet(SLAs)
    /\ Bandwidth \in Metrics
    /\ \A s \in SLAs : /\ PricePerGB[s] \in Int
                       /\ DOMAIN Bound[s] \subseteq Metrics
                       /\ \A m \in DOMAIN Bound[s] : Bound[s][m] \in Nat

NoSLA == 0

\* A value that is as strict as a bound, or stricter.
Within(m, value, bound) == IF m = Bandwidth THEN value >= bound ELSE value <= bound

-----------------------------------------------------------------------------
(* Complaints: a metric, its bound, and what was measured.                 *)

Sensitivities == {"strict", "moderate", "tolerant"}

\* Over-bound multipliers, in hundredths.
ComplaintMultiplier == [strict |-> 110, moderate |-> 125, tolerant |-> 175]

ShouldFileComplaint(sensitivity, m, bound, measured) ==
    LET multiplier == ComplaintMultiplier[sensitivity]
    IN  IF m = Bandwidth THEN measured * multiplier < 100 * bound
                         ELSE 100 * measured > bound * multiplier

SampleViolates(m, bound, measured) == ~Within(m, measured, bound)

-----------------------------------------------------------------------------
(* Acceptance and choice.  A policy is a record [max_price, floor,         *)
(* required, alpha, beta]; `scores' holds the scores that were read.       *)

\* An AS that no score was listed for has the best one.
ScoreOf(a, scores) == IF a \in DOMAIN scores THEN scores[a] ELSE 100

CosignerScores(s, scores) == [n \in DOMAIN Cosigners[s] |-> ScoreOf(Cosigners[s][n], scores)]

MinCosignerScore(s, scores) == Min(ToSet(CosignerScores(s, scores)))

MeetsRequired(bounds, required) ==
    \A m \in DOMAIN required :
        m \in DOMAIN bounds /\ Within(m, bounds[m], required[m])

PolicyAccepts(policy, s, scores) ==
    /\ PricePerGB[s] <= policy.max_price
    /\ MinCosignerScore(s, scores) >= policy.floor
    /\ MeetsRequired(Bound[s], policy.required)

\* Consortia have up to four ASes: twelfths of a hundredth make means integers.
MeanCosignerScore(s, scores) ==
    LET total == FoldLeft(+, 0, CosignerScores(s, scores))
    IN  (12 * total) \div Len(Cosigners[s])

Utility(policy, s, scores) ==
    policy.alpha * MeanCosignerScore(s, scores) - 12 * policy.beta * PricePerGB[s]

\* sorted(): each member of a finite set at the place that it has in an order.
SortedBy(S, Before(_, _)) ==
    LET place(x) == Cardinality({y \in S : y = x \/ Before(y, x)})
    IN  [n \in 1..Cardinality(S) |-> CHOOSE x \in S : place(x) = n]

\* Highest utility, the first by sla_id of equals; NoSLA for None.
ChooseBest(policy, pool, scores) ==
    LET acceptable == SortedBy({s \in pool : PolicyAccepts(policy, s, scores)}, <)
        Better(best, s) ==
            IF Utility(policy, s, scores) > Utility(policy, best, scores) THEN s ELSE best
    IN  IF acceptable = <<>> THEN NoSLA
        ELSE FoldLeft(Better, Head(acceptable), Tail(acceptable))

-----------------------------------------------------------------------------
(* The guarantee of a route of several SLAs, in a sequence: a metric that  *)
(* one of them does not bound is unknown.                                  *)

ComposeBounds(parts) ==
    LET known == {m \in Metrics : \A n \in DOMAIN parts : m \in DOMAIN Bound[parts[n]]}
    IN  IF parts = <<>> THEN <<>>
        ELSE [m \in known |->
                 IF m = Bandwidth
                 THEN Min({Bound[parts[n]][m] : n \in DOMAIN parts})
                 ELSE MapThenSumSet(LAMBDA n : Bound[parts[n]][m], DOMAIN parts)]
=============================================================================
