------------------------------- MODULE Routing -------------------------------
(***************************************************************************)
(* How the route to one destination is found and set: the candidates of    *)
(* GET /local/candidate_routes (user_agent/routing.py), the PUT of one of  *)
(* them (user_agent/app.py), and the agent's own choice (agent.py,         *)
(* choose_route).  One worker serves the calls; each asks the aggregator   *)
(* several times, while other workers buy claims and the aggregator is     *)
(* reset and filled again.  The aggregator is external here.               *)
(***************************************************************************)
EXTENDS Policy, PathDiscovery

CONSTANTS
    PathOf,         \* PathOf[s]: payload.path, whose ASes are the cosigners
    Policies,       \* the policies an agent may have
    ScoreTables,    \* what GET /scores may answer
    ClaimIds,       \* claim identifiers, as numbers in their order
    Claimable,      \* the SLAs that are bought
    MaxClaims,      \* bound on the portfolio
    MaxSchemes,     \* MAX_SCHEMES
    Expirable,      \* the SLAs whose time in force may be over
    Reposted        \* the SLAs that are posted again after a reset

ASSUME RoutingAssumption ==
    /\ MaxSchemes \in Nat /\ MaxClaims \in Nat
    /\ ClaimIds \subseteq Nat
    /\ Claimable \subseteq SLAs /\ Expirable \subseteq SLAs /\ Reposted \subseteq SLAs
    /\ \A s \in SLAs : /\ PathOf[s] \in Seq(PathHop) \ {<<>>}
                       /\ Cosigners[s] = [n \in DOMAIN PathOf[s] |-> PathOf[s][n].isd_as]
    /\ \A policy \in Policies : policy.alpha \in Int /\ policy.beta \in Int
    /\ \A scores \in ScoreTables : \A a \in DOMAIN scores : scores[a] \in Int

Claim == [id : ClaimIds, sla : SLAs]

VARIABLES
    market,         \* external: the SLAs that the aggregator stores
    portfolio,      \* agent.portfolio
    call            \* the call that is being served

vars == <<market, portfolio, call>>

Idle == [at |-> "idle"]

ASesOf(path) == [n \in DOMAIN path |-> path[n].isd_as]

Init ==
    /\ market = SLAs
    /\ portfolio = <<>>
    /\ call = Idle

-----------------------------------------------------------------------------
(* Placements: where on a path a claim can apply.  The end is exclusive,   *)
(* and positions count from 1.                                             *)

Before(p, q) ==
    \/ p.start < q.start
    \/ p.start = q.start /\ p.end < q.end
    \/ p.start = q.start /\ p.end = q.end /\ p.id < q.id

\* Mutant: a claim applies wherever it starts.
PlacedByStart(path, claim) ==
    {[start |-> n, end |-> n + Len(Cosigners[claim.sla]), id |-> claim.id, sla |-> claim.sla] :
        n \in {n \in DOMAIN path : path[n].isd_as = Cosigners[claim.sla][1]}}

Placed(path, claim) ==
    LET cosigners == Cosigners[claim.sla]
        starts == {n \in 1..(Len(path) - Len(cosigners) + 1) :
                      SubSeq(ASesOf(path), n, n + Len(cosigners) - 1) = cosigners}
    IN  {[start |-> n, end |-> n + Len(cosigners), id |-> claim.id, sla |-> claim.sla] :
            n \in starts}

\* A claim that is held twice is placed twice: n is where it is held.
Placements(path, claims, resolved) ==
    LET usable == {n \in DOMAIN claims : claims[n].sla \in resolved}
        marks == UNION {Placed(path, claims[n]) \X {n} : n \in usable}
        Ahead(x, y) == Before(x[1], y[1]) \/ (x[1] = y[1] /\ x[2] < y[2])
        order == SortedBy(marks, Ahead)
    IN  [i \in DOMAIN order |-> order[i][1]]

Hops(p) == p.start..(p.end - 1)

Disjoint(p, q) == Hops(p) \cap Hops(q) = {}

-----------------------------------------------------------------------------
(* Schemes: sets of placements, named by their positions in the list.      *)

\* Mutant: the cap is passed by one.
EnumeratePastCap(places) ==
    LET last == Len(places)
        Free(i, chosen) == \A j \in chosen : Disjoint(places[i], places[j])
        rec[i \in 1..(last + 1)] ==
            [chosen \in SUBSET (1..last) |-> [out \in Seq(SUBSET (1..last)) |->
                IF Len(out) > MaxSchemes THEN out
                ELSE IF i > last THEN (IF chosen = {} THEN out ELSE Append(out, chosen))
                ELSE LET without == rec[i + 1][chosen][out]
                     IN  IF Free(i, chosen) THEN rec[i + 1][chosen \cup {i}][without]
                                            ELSE without]]
    IN  rec[1][{}][<<>>]

\* Mutant: the hops of a placement are not looked at before it is included.
EnumerateAny(places) ==
    LET last == Len(places)
        rec[i \in 1..(last + 1)] ==
            [chosen \in SUBSET (1..last) |-> [out \in Seq(SUBSET (1..last)) |->
                IF Len(out) >= MaxSchemes THEN out
                ELSE IF i > last THEN (IF chosen = {} THEN out ELSE Append(out, chosen))
                ELSE rec[i + 1][chosen \cup {i}][rec[i + 1][chosen][out]]]]
    IN  rec[1][{}][<<>>]

\* Each placement is first skipped, then included if its hops are free.
EnumerateSchemes(places) ==
    LET last == Len(places)
        Free(i, chosen) == \A j \in chosen : Disjoint(places[i], places[j])
        rec[i \in 1..(last + 1)] ==
            [chosen \in SUBSET (1..last) |-> [out \in Seq(SUBSET (1..last)) |->
                IF Len(out) >= MaxSchemes THEN out
                ELSE IF i > last THEN (IF chosen = {} THEN out ELSE Append(out, chosen))
                ELSE LET without == rec[i + 1][chosen][out]
                     IN  IF Free(i, chosen) THEN rec[i + 1][chosen \cup {i}][without]
                                            ELSE without]]
    IN  rec[1][{}][<<>>]

SLAsOf(scheme) == [n \in DOMAIN scheme |-> scheme[n].sla]

\* Mutant: the minimum starts from zero, like the sums.
AggregateBoundsFromZero(parts) ==
    LET bounding(m) == {n \in DOMAIN parts : m \in DOMAIN Bound[parts[n]]}
    IN  [m \in Metrics |->
            IF m = Bandwidth THEN Min({0} \cup {Bound[parts[n]][m] : n \in bounding(m)})
            ELSE MapThenSumSet(LAMBDA n : Bound[parts[n]][m], bounding(m))]

\* Sums and minimum over the SLAs that have the bound, whoever has not; the
\* minimum over none is None.
AggregateBounds(parts) ==
    LET bounding(m) == {n \in DOMAIN parts : m \in DOMAIN Bound[parts[n]]}
        known == {m \in Metrics : m # Bandwidth \/ bounding(m) # {}}
    IN  [m \in known |->
            IF m = Bandwidth THEN Min({Bound[parts[n]][m] : n \in bounding(m)})
            ELSE MapThenSumSet(LAMBDA n : Bound[parts[n]][m], bounding(m))]

\* Mutant: the hops up to where the last placement ends.
CoveredHopsByReach(scheme) == Max({scheme[n].end : n \in DOMAIN scheme}) - 1

CoveredHops(scheme) == MapThenSumSet(LAMBDA n : scheme[n].end - scheme[n].start, DOMAIN scheme)

\* The reputation of a scheme that covers the path; {} for None.
Reputation(scheme, path, scores) ==
    IF CoveredHops(scheme) # Len(path) THEN {}
    ELSE {Min(UNION {ToSet(CosignerScores(scheme[n].sla, scores)) : n \in DOMAIN scheme})}

Option(scheme, path, scores) ==
    [scheme |-> scheme,
     bounds |-> AggregateBounds(SLAsOf(scheme)),
     price |-> MapThenSumSet(LAMBDA n : PricePerGB[scheme[n].sla], DOMAIN scheme),
     reputation |-> Reputation(scheme, path, scores),
     covered_hops |-> CoveredHops(scheme)]

\* chosen: the positions of a scheme's placements.
Scheme(places, chosen) ==
    LET order == SortedBy(chosen, <)
    IN  [n \in DOMAIN order |-> places[order[n]]]

CoverageOptions(path, claims, resolved, scores) ==
    LET places == Placements(path, claims, resolved)
        schemes == EnumerateSchemes(places)
    IN  [n \in DOMAIN schemes |-> Option(Scheme(places, schemes[n]), path, scores)]

-----------------------------------------------------------------------------
(* GET /local/candidate_routes.  It walks the live portfolio, asking for   *)
(* the SLA of each claim, and once more for each path.                     *)

GetCandidates ==
    /\ call = Idle
    /\ \E paths \in PathsFrom(LocalAS) :
          call' = [at |-> "resolve", paths |-> paths, next |-> 1, resolved |-> {}, lost |-> {}]
    /\ UNCHANGED <<market, portfolio>>

GetSLA ==
    /\ call.at = "resolve" /\ call.next <= Len(portfolio)
    /\ LET s == portfolio[call.next].sla
       IN  call' = [call EXCEPT !.next = @ + 1,
                                !.resolved = IF s \in market THEN @ \cup {s} ELSE @]
    /\ UNCHANGED <<market, portfolio>>

GetScores ==
    /\ call.at = "resolve" /\ call.next > Len(portfolio)
    /\ \E scores \in ScoreTables :
          call' = [at |-> "compose", paths |-> call.paths, resolved |-> call.resolved,
                   scores |-> scores, candidates |-> <<>>, seen |-> <<>>, lost |-> call.lost]
    /\ UNCHANGED <<market, portfolio>>

\* `seen' is a history: the portfolio that the candidate was made from.
ComposeNext ==
    /\ call.at = "compose" /\ Len(call.candidates) < Len(call.paths)
    /\ LET path == call.paths[Len(call.candidates) + 1]
           options == CoverageOptions(path, portfolio, call.resolved, call.scores)
       IN  call' = [call EXCEPT
                       !.candidates = Append(@, [path |-> path, options |-> options]),
                       !.seen = Append(@, portfolio)]
    /\ UNCHANGED <<market, portfolio>>

AnswerCandidates ==
    /\ call.at = "compose" /\ Len(call.candidates) = Len(call.paths)
    /\ call' = [call EXCEPT !.at = "offered"]
    /\ UNCHANGED <<market, portfolio>>

-----------------------------------------------------------------------------
(* PUT /local/routing/{dst}, with an offered scheme or with nothing.       *)

\* External: the hops of each placement, as the response lists them.
AppliedBy(scheme) ==
    [h \in UNION {Hops(scheme[n]) : n \in DOMAIN scheme} |->
        LET n == CHOOSE n \in DOMAIN scheme : h \in Hops(scheme[n])
        IN  [id |-> scheme[n].id, sla |-> scheme[n].sla]]

PutRouting ==
    /\ call.at = "offered"
    /\ \/ call' = Idle
       \/ \E c \in ToSet(call.candidates) : \E option \in ToSet(c.options) :
              call' = [at |-> "validate", lost |-> call.lost,
                       path |-> c.path, applied |-> AppliedBy(option.scheme),
                       held |-> ToSet(portfolio), todo |-> DOMAIN AppliedBy(option.scheme)]
    /\ UNCHANGED <<market, portfolio>>

\* The checks of one hop: the claim is held, the hop is on the path, the
\* aggregator has the SLA, and the SLA has the AS.
HopIsCovered(h) ==
    LET claim == call.applied[h]
    IN  /\ claim \in call.held
        /\ h \in DOMAIN call.path
        /\ claim.sla \in market
        /\ call.path[h].isd_as \in ToSet(ASesOf(PathOf[claim.sla]))

ValidateHop ==
    /\ call.at = "validate"
    /\ \E h \in call.todo :
          call' = IF HopIsCovered(h)
                  THEN [call EXCEPT !.todo = @ \ {h}]
                  ELSE [at |-> "refused", applied |-> call.applied, lost |-> call.lost]
    /\ UNCHANGED <<market, portfolio>>

SetRouting ==
    /\ call.at = "validate" /\ call.todo = {}
    /\ call' = [at |-> "decided", path |-> call.path, applied |-> call.applied, manual |-> TRUE]
    /\ UNCHANGED <<market, portfolio>>

-----------------------------------------------------------------------------
(* choose_route: the best SLA of each path, and the best of these.         *)

ChooseRoute ==
    /\ call = Idle
    /\ \E paths \in PathsFrom(LocalAS), policy \in Policies :
          call' = IF paths = <<>> THEN Idle
                  ELSE [at |-> "market", paths |-> paths, policy |-> policy]
    /\ UNCHANGED <<market, portfolio>>

ListActive ==
    /\ call.at = "market"
    /\ \E expired \in SUBSET Expirable, scores \in ScoreTables :
          call' = [at |-> "choose", paths |-> call.paths, policy |-> call.policy,
                   pool |-> market \ expired, scores |-> scores, next |-> 1, best |-> NoSLA]
    /\ UNCHANGED <<market, portfolio>>

\* Mutant: a path without an acceptable SLA ends the search.
ComparePathOrStop ==
    /\ call.at = "choose" /\ call.next <= Len(call.paths)
    /\ LET onPath == {s \in call.pool : PathOf[s] = call.paths[call.next]}
           choice == ChooseBest(call.policy, onPath, call.scores)
           U(s) == Utility(call.policy, s, call.scores)
       IN  call' = [call EXCEPT
                       !.next = IF choice = NoSLA THEN Len(call.paths) + 1 ELSE @ + 1,
                       !.best = IF choice # NoSLA /\ (@ = NoSLA \/ U(choice) > U(@))
                                THEN choice ELSE @]
    /\ UNCHANGED <<market, portfolio>>

ComparePath ==
    /\ call.at = "choose" /\ call.next <= Len(call.paths)
    /\ LET onPath == {s \in call.pool : PathOf[s] = call.paths[call.next]}
           choice == ChooseBest(call.policy, onPath, call.scores)
           U(s) == Utility(call.policy, s, call.scores)
       IN  call' = [call EXCEPT
                       !.next = @ + 1,
                       !.best = IF choice # NoSLA /\ (@ = NoSLA \/ U(choice) > U(@))
                                THEN choice ELSE @]
    /\ UNCHANGED <<market, portfolio>>

\* Every hop is mapped to the SLA, in place of a claim.
Decide ==
    /\ call.at = "choose" /\ call.next > Len(call.paths)
    /\ call' = IF call.best = NoSLA THEN Idle
               ELSE [at |-> "decided", path |-> PathOf[call.best], manual |-> FALSE,
                     applied |-> [h \in DOMAIN PathOf[call.best] |-> call.best]]
    /\ UNCHANGED <<market, portfolio>>

-----------------------------------------------------------------------------

\* A call of the worker's raises: the request is answered 500.  paths_from is
\* the first; it raises if the command is missing or prints a malformed token,
\* and leaves nothing of the request to be seen.
CallFails ==
    /\ call.at \in {"idle", "resolve", "market", "validate"}
    /\ call' = Idle
    /\ UNCHANGED <<market, portfolio>>

\* The decision is in routing_decisions, or the request was refused.
Answer ==
    /\ call.at \in {"decided", "refused"}
    /\ call' = Idle
    /\ UNCHANGED <<market, portfolio>>

\* Another worker buys; claims in one second on one SLA are one claim.
AppendClaim(claim) ==
    /\ Len(portfolio) < MaxClaims
    /\ claim.sla \in market \cap Claimable
    /\ \A held \in ToSet(portfolio) : held.id = claim.id => held = claim
    /\ portfolio' = Append(portfolio, claim)
    /\ UNCHANGED <<market, call>>

Losing(slas) ==
    IF "lost" \in DOMAIN call THEN [call EXCEPT !.lost = @ \cup slas] ELSE call

\* External: POST /admin/reset, and an SLA that is posted again.
Wipe ==
    /\ market # {}
    /\ market' = {}
    /\ call' = Losing(market)
    /\ UNCHANGED portfolio

Post(s) ==
    /\ s \in Reposted \ market
    /\ market' = market \cup {s}
    /\ UNCHANGED <<portfolio, call>>

Next ==
    \/ GetCandidates \/ GetSLA \/ GetScores \/ ComposeNext \/ AnswerCandidates
    \/ PutRouting \/ ValidateHop \/ SetRouting
    \/ ChooseRoute \/ ListActive \/ ComparePath \/ Decide
    \/ CallFails \/ Answer
    \/ \E claim \in Claim : AppendClaim(claim)
    \/ Wipe
    \/ \E s \in SLAs : Post(s)

Spec == Init /\ [][Next]_vars
-----------------------------------------------------------------------------
(* Properties                                                              *)

\* Type correctness, with the bound on the number of schemes.
TypeOK ==
    /\ market \subseteq SLAs
    /\ portfolio \in BoundedSeq(Claim, MaxClaims)
    /\ call.at \in {"idle", "resolve", "compose", "offered", "validate", "refused",
                    "market", "choose", "decided"}
    /\ "candidates" \in DOMAIN call =>
          \A c \in ToSet(call.candidates) : Len(c.options) <= MaxSchemes

\* Whichever way the command describes a path, what is read is the path: its
\* ASes in order, with the interfaces that the traffic enters and leaves by
\* (_parse_sequence and _parse_hops_array are inverses of one description).
PathsParsed == "paths" \in DOMAIN call => call.paths \in {<<>>, RealPaths}

\* The candidates of a complete answer.
Composed == IF call.at = "offered" THEN DOMAIN call.candidates ELSE {}

SchemesOffered(n) ==
    [i \in DOMAIN call.candidates[n].options |-> call.candidates[n].options[i].scheme]

\* a is tried before b: of the first placement on which they differ, without it.
Sooner(a, b) == \E i \in b \ a : \A j \in 1..(i - 1) : j \in a <=> j \in b

\* _enumerate_schemes: the schemes are all the nonempty sets of placements that
\* share no hop, each once, those first that leave out the earlier placements,
\* and the cap cuts the rest off: what is offered is a prefix of that order.
OffersInOrder ==
    \A n \in Composed :
        LET places == Placements(call.candidates[n].path, call.seen[n], call.resolved)
            schemes == {chosen \in (SUBSET (1..Len(places))) \ {{}} :
                           \A i, j \in chosen : i # j => Disjoint(places[i], places[j])}
            order == SortedBy(schemes, Sooner)
        IN  SchemesOffered(n) =
                [i \in 1..Min({MaxSchemes, Len(order)}) |-> Scheme(places, order[i])]

Options == UNION {ToSet(call.candidates[n].options) : n \in Composed}

\* The planner's aggregate and the policy's compose_bounds are two programs for
\* one rule: they agree on every metric that each SLA of the scheme bounds.
AggregatesCompose ==
    \A option \in Options :
        LET composed == ComposeBounds(SLAsOf(option.scheme))
        IN  \A m \in DOMAIN composed :
                m \in DOMAIN option.bounds /\ option.bounds[m] = composed[m]

\* Expected to fail.  compose_bounds: "A ``None`` field in any hop yields
\* ``None`` in the aggregate (unknown)".
UnknownIsUnknown ==
    \A option \in Options :
        DOMAIN option.bounds \subseteq DOMAIN ComposeBounds(SLAsOf(option.scheme))

\* The reputation of an offer is the least score among the ASes of the whole
\* path, and there is one just when each hop of the path is covered.
ReputationOfChain ==
    \A n \in Composed :
        LET path == call.candidates[n].path
        IN  \A option \in ToSet(call.candidates[n].options) :
                option.reputation =
                    IF UNION {Hops(p) : p \in ToSet(option.scheme)} = DOMAIN path
                    THEN {Min({ScoreOf(a, call.scores) : a \in ToSet(ASesOf(path))})}
                    ELSE {}

\* An offer that is put as it was offered passes every check of
\* _validate_routing, unless the aggregator forgot one of its SLAs after the
\* candidates were asked for.
RefusalsAreResets ==
    call.at = "refused" => \E h \in DOMAIN call.applied : call.applied[h].sla \in call.lost

\* choose_route decides for an SLA that the policy accepts and that none of the
\* acceptable ones on any of the paths exceeds; of equals, for one on the first
\* path and there for the least identifier; for none if none is acceptable.
ChoiceIsBest ==
    (call.at = "choose" /\ call.next > Len(call.paths)) =>
        LET U(s) == Utility(call.policy, s, call.scores)
            Index(s) == Min({n \in DOMAIN call.paths : call.paths[n] = PathOf[s]})
            acceptable == {s \in call.pool :
                              /\ PathOf[s] \in ToSet(call.paths)
                              /\ PolicyAccepts(call.policy, s, call.scores)}
            Ahead(s, t) == \/ U(s) > U(t)
                           \/ U(s) = U(t) /\ Index(s) < Index(t)
                           \/ U(s) = U(t) /\ Index(s) = Index(t) /\ s <= t
        IN  IF acceptable = {} THEN call.best = NoSLA
            ELSE call.best \in acceptable /\ \A t \in acceptable : Ahead(call.best, t)
=============================================================================
