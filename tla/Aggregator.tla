----------------------------- MODULE Aggregator -----------------------------
(***************************************************************************)
(* The aggregator (aggregator/app.py, storage.py, scoring.py).  The POST   *)
(* handlers are coroutines that never await after reading their body: the  *)
(* event loop serves them one at a time.  POST /admin/reset and the GETs   *)
(* are plain functions, which the framework runs in worker threads: they   *)
(* interleave with the event loop between any two of its accesses to the   *)
(* storage.  One worker runs the reset and another one a GET /scores.      *)
(***************************************************************************)
EXTENDS Scorer, Validation

CONSTANTS
    ASes,           \* every AS of the market
    Metrics,        \* latency_ms, loss_ppm, bandwidth_kbps
    Bandwidth,      \* the metric whose bound is a minimum
    Penalty,        \* Penalty[dt]: hundredths an event of age dt costs
    TickerMax,      \* TICKER_MAXLEN
    SLABodies,      \* the submissions clients may post
    ClaimBodies,
    ComplaintBodies,
    MaxTime,        \* bound on the clock
    MaxClaims,      \* bound on the claims stored
    MaxComplaints,  \* bound on the complaints stored
    MaxResets,      \* bound on the resets
    MaxReads        \* bound on the GET /scores calls: 0 or 1

ASSUME AggregatorAssumption ==
    /\ DedupWindow \in Nat
    /\ TickerMax \in Nat
    /\ MaxTime \in Nat /\ MaxResets \in Nat
    /\ Cosigners \in [SLAs -> Seq(ASes)]
    /\ \A s \in SLAs : IsFiniteSet(DOMAIN Bound[s])
    /\ \A b \in SLABodies :
          /\ b.sla \in SLAs
          /\ b.signatures \in Seq([isd_as : ASes, verifies : BOOLEAN])
    /\ \A b \in ClaimBodies : b.sla \in SLAs /\ b.claimant \in ASes
    /\ \A b \in ComplaintBodies :
          /\ b.sla \in SLAs /\ b.complainant \in Complainants
          /\ b.metric \in Metrics /\ b.measured \in Int /\ b.observed_at \in Int
          /\ \A t \in 0..MaxTime : Penalty[t - b.observed_at] \in Nat

\* What POST /sla, /claim and /complaint store; `looked' dates the validation.
SLARecord == [sla : SLAs, looked : Nat]

ClaimRecord == [sla : SLAs, claimant : ASes, looked : Nat]

ComplaintRecord ==
    [sla : SLAs, complainant : Complainants, metric : Metrics, measured : Int,
     observed_at : Int, at : Nat, looked : Nat]

TickerLine ==
    [type : {"sla_signed", "claim", "complaint", "reputation_change"},
     subject : SLARecord \cup ClaimRecord \cup ComplaintRecord \cup ASes,
     looked : Nat]

VARIABLES
    now,            \* datetime.now
    slas,           \* storage.slas; slas[s]: `wipes' when s was validated
    claims,         \* storage.claims
    complaints,     \* storage.complaints
    ticker,         \* storage.ticker_events, oldest first
    pc,             \* where the event loop is in the request it serves
    request,        \* what that request adds to the storage
    affected,       \* post_complaint: the ASes whose score may change
    scoring,        \* post_complaint: their scores before and after
    told,           \* post_complaint: how many of them are dealt with
    wiper,          \* the field a reset clears next; 0: no reset is running
    resets,         \* the resets begun
    wipes,          \* history: fields cleared so far, over all resets
    reader          \* the worker that serves GET /scores

store == <<slas, claims, complaints, ticker>>
loop == <<pc, request, affected, scoring, told>>
reset == <<wiper, resets, wipes>>
vars == <<now, store, loop, reset, reader>>

-----------------------------------------------------------------------------
(* Scores.                                                                 *)

IsViolation(c) ==
    IF c.metric = Bandwidth THEN c.measured < Bound[c.sla][c.metric]
                            ELSE c.measured > Bound[c.sla][c.metric]

\* Mutant: newest first.
SortedNewestFirst(log, of) ==
    LET Before(m, n) ==
            \/ log[m].observed_at > log[n].observed_at
            \/ log[m].observed_at = log[n].observed_at /\ m <= n
        place(n) == Cardinality({m \in of : Before(m, n)})
    IN  [p \in 1..Cardinality(of) |-> log[CHOOSE n \in of : place(n) = p]]

\* sorted(..., key=observed_at) of the entries of a log at some positions:
\* stable, ties stay in arrival order.
Sorted(log, of) ==
    LET Before(m, n) ==
            \/ log[m].observed_at < log[n].observed_at
            \/ log[m].observed_at = log[n].observed_at /\ m <= n
        place(n) == Cardinality({m \in of : Before(m, n)})
    IN  [p \in 1..Cardinality(of) |-> log[CHOOSE n \in of : place(n) = p]]

\* The complaints that the scan of one SLA and one metric walks.
Relevant(log, s, m) ==
    {n \in DOMAIN log : log[n].sla = s /\ log[n].metric = m /\ IsViolation(log[n])}

Ordered(log, s, m) == Sorted(log, Relevant(log, s, m))

EventsOfSLA(log, s) ==
    UNION {LET ordered == Ordered(log, s, m)
           IN  {[sla |-> s, metric |-> m, window_end |-> ordered[n].observed_at] :
                   n \in Fires(ordered)} :
           m \in DOMAIN Bound[s]}

AttributedTo(events, a) ==
    {e \in events : a \in ToSet(Cosigners[e.sla])}

AllEvents(known, log) == UNION {EventsOfSLA(log, s) : s \in known}

\* What each AS is held to account for.
Ledger(known, log) ==
    LET events == AllEvents(known, log)
    IN  [a \in ASes |-> AttributedTo(events, a)]

\* score_for_as and compute_score at time t, in hundredths.
Score(events, t) ==
    LET total == MapThenSumSet(LAMBDA e : Penalty[t - e.window_end], events)
    IN  IF total > 100 THEN 0 ELSE 100 - total

\* scores_for_all files an event under every entry of its attributed_to.
ScoreForAll(a, events, t) ==
    LET Entries(e) == Cardinality({n \in DOMAIN Cosigners[e.sla] :
                                      Cosigners[e.sla][n] = a})
        total == MapThenSumSet(LAMBDA e : Entries(e) * Penalty[t - e.window_end], events)
    IN  IF total > 100 THEN 0 ELSE 100 - total

-----------------------------------------------------------------------------

Known == DOMAIN slas

Nothing == [looked |-> 0]
NoScores == [before |-> <<>>, after |-> <<>>, walk |-> {}]
NoRead == [pc |-> "off"]

Init ==
    /\ now = 0
    /\ slas = <<>> /\ claims = <<>> /\ complaints = <<>> /\ ticker = <<>>
    /\ pc = "idle" /\ request = Nothing
    /\ affected = <<>> /\ scoring = NoScores /\ told = 0
    /\ wiper = 0 /\ resets = 0 /\ wipes = 0
    /\ reader = NoRead

Tick ==
    /\ now < MaxTime
    /\ now' = now + 1
    /\ UNCHANGED <<store, loop, reset, reader>>

\* The event loop has accepted a request; `looked' dates its validation.
Accept(next, r) ==
    /\ pc' = next
    /\ request' = r
    /\ UNCHANGED <<now, store, affected, scoring, told, reset, reader>>

Respond ==
    /\ pc' = "idle" /\ request' = Nothing
    /\ affected' = <<>> /\ scoring' = NoScores /\ told' = 0

\* Mutant: a deque without a maximal length.
PushUnbounded(line) == ticker' = Append(ticker, line)

\* deque(maxlen = TickerMax).
Push(line) ==
    LET all == Append(ticker, line)
    IN  ticker' = IF Len(all) > TickerMax THEN Tail(all) ELSE all

Line(type, subject) ==
    [type |-> type, subject |-> subject, looked |-> request.looked]

\* History: the ledgers the storage holds while GET /scores runs.
Witness(known, log) ==
    reader' = IF reader.pc \in {"events", "cosigners"} /\ reader.undisturbed
              THEN [reader EXCEPT !.moments = @ \cup {Ledger(known, log)}]
              ELSE reader

-----------------------------------------------------------------------------
(* POST /sla.                                                              *)

PostSLA(b) ==
    /\ pc = "idle"
    /\ ValidSLA(b) /\ b.sla \notin Known
    /\ Accept("add_sla", [sla |-> b.sla, looked |-> wipes])

AddSLA ==
    /\ pc = "add_sla" /\ pc' = "sla_line"
    /\ slas' = [s \in Known \cup {request.sla} |->
                   IF s = request.sla THEN request.looked ELSE slas[s]]
    /\ Witness(DOMAIN slas', complaints)
    /\ UNCHANGED <<now, claims, complaints, ticker, request, affected, scoring, told, reset>>

SLALine ==
    /\ pc = "sla_line"
    /\ Push(Line("sla_signed", request))
    /\ Respond
    /\ UNCHANGED <<now, slas, claims, complaints, reset, reader>>

-----------------------------------------------------------------------------
(* POST /claim.  Nothing looks for a claim that is stored already.         *)

PostClaim(b) ==
    /\ pc = "idle"
    /\ Len(claims) < MaxClaims
    /\ ValidClaim(b, Known, now)
    /\ Accept("add_claim", [sla |-> b.sla, claimant |-> b.claimant, looked |-> wipes])

AddClaim ==
    /\ pc = "add_claim" /\ pc' = "claim_line"
    /\ claims' = Append(claims, request)
    /\ UNCHANGED <<now, slas, complaints, ticker, request, affected, scoring, told, reset, reader>>

ClaimLine ==
    /\ pc = "claim_line"
    /\ Push(Line("claim", request))
    /\ Respond
    /\ UNCHANGED <<now, slas, claims, complaints, reset, reader>>

-----------------------------------------------------------------------------
(* POST /complaint.                                                        *)

PostComplaint(b) ==
    /\ pc = "idle"
    /\ Len(complaints) < MaxComplaints
    /\ ValidComplaint(b, Known, now)
    /\ Accept("dedup", [sla |-> b.sla, complainant |-> b.complainant,
                        metric |-> b.metric, measured |-> b.measured,
                        observed_at |-> b.observed_at, at |-> now,
                        looked |-> wipes])

\* Answered 200 {"dedup": true}.
RefuseDuplicate ==
    /\ pc = "dedup"
    /\ DuplicateComplaint(request, complaints)
    /\ Respond
    /\ UNCHANGED <<now, store, reset, reader>>

PassDedup ==
    /\ pc = "dedup" /\ pc' = "affected"
    /\ ~DuplicateComplaint(request, complaints)
    /\ UNCHANGED <<now, store, request, affected, scoring, told, reset, reader>>

\* A second get_sla finds who is affected: nobody if the SLA is gone.
FindAffected ==
    /\ pc = "affected" /\ pc' = "before"
    /\ affected' = IF request.sla \in Known THEN Cosigners[request.sla] ELSE <<>>
    /\ scoring' = [NoScores EXCEPT !.walk = Known]
    /\ UNCHANGED <<now, store, request, told, reset, reader>>

\* score_for_as of the next affected AS, in the dict `before' or `after'.
ScoreNext(dict) ==
    /\ pc = dict
    /\ Len(scoring[dict]) < Len(affected)
    /\ LET a == affected[Len(scoring[dict]) + 1]
           score == Score(AttributedTo(AllEvents(Known, complaints), a), request.at)
       IN  scoring' = [scoring EXCEPT ![dict] = Append(@, score), !.walk = Known]
    /\ UNCHANGED <<now, store, pc, request, affected, told, reset, reader>>

\* A reset emptied storage.slas under the walk over its values: RuntimeError,
\* answered 500.
ScoreRaises ==
    /\ pc \in {"before", "after"}
    /\ Len(scoring[pc]) < Len(affected)
    /\ Cardinality(scoring.walk) # Cardinality(Known)
    /\ Respond
    /\ UNCHANGED <<now, store, reset, reader>>

AddComplaint ==
    /\ pc = "before" /\ pc' = "complaint_line"
    /\ Len(scoring.before) = Len(affected)
    /\ complaints' = Append(complaints, request)
    /\ Witness(Known, complaints')
    /\ UNCHANGED <<now, slas, claims, ticker, request, affected, scoring, told, reset>>

ComplaintLine ==
    /\ pc = "complaint_line" /\ pc' = "after"
    /\ Push(Line("complaint", request))
    /\ scoring' = [scoring EXCEPT !.walk = Known]
    /\ UNCHANGED <<now, slas, claims, complaints, request, affected, told, reset, reader>>

\* A line for each score that moved by REPUTATION_CHANGE_THRESHOLD, 0.01.
Announce ==
    /\ pc = "after"
    /\ Len(scoring.after) = Len(affected) /\ told < Len(affected)
    /\ IF scoring.after[told + 1] # scoring.before[told + 1]
       THEN Push(Line("reputation_change", affected[told + 1]))
       ELSE UNCHANGED ticker
    /\ told' = told + 1
    /\ UNCHANGED <<now, slas, claims, complaints, pc, request, affected, scoring,
                   reset, reader>>

Accepted ==
    /\ pc = "after" /\ told = Len(affected)
    /\ Respond
    /\ UNCHANGED <<now, store, reset, reader>>

-----------------------------------------------------------------------------
(* POST /admin/reset: AggregatorStorage.reset clears one field after the   *)
(* other (sla_ingestion_times, which nothing reads, is left out).          *)

BeginReset ==
    /\ wiper = 0 /\ resets < MaxResets
    /\ wiper' = 1 /\ resets' = resets + 1
    /\ UNCHANGED <<now, store, loop, wipes, reader>>

\* Mutant: the reset forgets the complaints.
ClearedButComplaints(field, value) ==
    IF wiper = field /\ field # 3 THEN <<>> ELSE value

Cleared(field, value) == IF wiper = field THEN <<>> ELSE value

Clear ==
    /\ wiper > 0
    /\ slas' = Cleared(1, slas)
    /\ claims' = Cleared(2, claims)
    /\ complaints' = Cleared(3, complaints)
    /\ ticker' = Cleared(4, ticker)
    /\ wiper' = (wiper + 1) % 5
    /\ wipes' = wipes + 1
    /\ reader' = IF reader.pc \in {"events", "cosigners"}
                 THEN [reader EXCEPT !.undisturbed = FALSE, !.moments = {}]
                 ELSE reader
    /\ UNCHANGED <<now, loop, resets>>

-----------------------------------------------------------------------------
(* GET /scores: scores_for_all copies the complaints, walks the SLAs to    *)
(* collect their events, and walks them again to list the cosigners.       *)

ReadComplaints ==
    /\ reader = NoRead /\ MaxReads > 0
    /\ reader' = [pc |-> "events", copy |-> complaints, walk |-> Known,
                  seen |-> {}, events |-> {},
                  moments |-> {Ledger(Known, complaints)},
                  undisturbed |-> \A n \in DOMAIN complaints :
                                      complaints[n].sla \in Known]
    /\ UNCHANGED <<now, store, loop, reset>>

\* The walk may start any time after the copy was made.
StartWalk ==
    /\ reader.pc = "events" /\ reader.seen = {} /\ reader.walk # Known
    /\ reader' = [reader EXCEPT !.walk = Known]
    /\ UNCHANGED <<now, store, loop, reset>>

\* A dict iterator only compares the dict's size with the one it began with.
SameSize == Cardinality(reader.walk) = Cardinality(Known)

\* Mutant: the walk scores the live complaints, not the copy.
WalkLive ==
    /\ reader.pc = "events" /\ SameSize
    /\ \E s \in Known \ reader.seen :
          reader' = [reader EXCEPT !.seen = @ \cup {s},
                                   !.events = @ \cup EventsOfSLA(complaints, s)]
    /\ UNCHANGED <<now, store, loop, reset>>

WalkNext ==
    /\ reader.pc = "events" /\ SameSize
    /\ \E s \in Known \ reader.seen :
          reader' = [reader EXCEPT !.seen = @ \cup {s},
                                   !.events = @ \cup EventsOfSLA(reader.copy, s)]
    /\ UNCHANGED <<now, store, loop, reset>>

WalkEnds ==
    /\ reader.pc = "events" /\ SameSize
    /\ Known \subseteq reader.seen \/ reader.walk # Known
    /\ reader' = [reader EXCEPT !.pc = "cosigners", !.walk = Known]
    /\ UNCHANGED <<now, store, loop, reset>>

\* "dictionary changed size during iteration": answered 500.
WalkRaises ==
    /\ reader.pc \in {"events", "cosigners"} /\ ~SameSize
    /\ reader' = [pc |-> "failed"]
    /\ UNCHANGED <<now, store, loop, reset>>

\* An AS is listed with the events it is scored by.
Listing ==
    [a \in UNION {ToSet(Cosigners[s]) : s \in Known} |-> AttributedTo(reader.events, a)]

AnswerScores ==
    /\ reader.pc = "cosigners"
    /\ reader' = [pc |-> "done"]
    /\ UNCHANGED <<now, store, loop, reset>>

-----------------------------------------------------------------------------

Next ==
    \/ Tick
    \/ \E b \in SLABodies : PostSLA(b)
    \/ AddSLA \/ SLALine
    \/ \E b \in ClaimBodies : PostClaim(b)
    \/ AddClaim \/ ClaimLine
    \/ \E b \in ComplaintBodies : PostComplaint(b)
    \/ RefuseDuplicate \/ PassDedup \/ FindAffected
    \/ ScoreNext("before") \/ ScoreNext("after") \/ ScoreRaises
    \/ AddComplaint \/ ComplaintLine \/ Announce \/ Accepted
    \/ BeginReset \/ Clear
    \/ ReadComplaints \/ StartWalk \/ WalkNext \/ WalkEnds
    \/ WalkRaises \/ AnswerScores

Spec == Init /\ [][Next]_vars

-----------------------------------------------------------------------------
(* Correctness.                                                            *)

Complaining == {"dedup", "affected", "before", "complaint_line", "after"}

TypeOK ==
    /\ now \in 0..MaxTime
    /\ slas \in [Known -> Nat] /\ Known \subseteq SLAs
    /\ claims \in Seq(ClaimRecord)
    /\ complaints \in Seq(ComplaintRecord)
    /\ ticker \in Seq(TickerLine) /\ Len(ticker) <= TickerMax
    /\ pc \in {"idle", "add_sla", "sla_line", "add_claim", "claim_line"} \cup Complaining
    /\ pc \in {"add_sla", "sla_line"} => request \in SLARecord
    /\ pc \in {"add_claim", "claim_line"} => request \in ClaimRecord
    /\ pc \in Complaining => request \in ComplaintRecord
    /\ affected \in Seq(ASes) /\ told \in Nat
    /\ told > 0 => pc = "after"
    /\ wiper \in 0..4 /\ resets \in 0..MaxResets /\ wipes \in Nat

(***************************************************************************)
(* Two complaints of one AS against one SLA and metric are more than the   *)
(* dedup window apart, in whatever order they arrived and whatever a reset *)
(* cleared meanwhile: the check and the append are not one step, and the   *)
(* timestamps are the clients'.                                            *)
(***************************************************************************)
DedupApart ==
    \A m, n \in DOMAIN complaints :
        m < n /\ SameVoice(complaints[m], complaints[n]) =>
            Apart(complaints[m].observed_at, complaints[n].observed_at) > DedupWindow

\* Why: from the check to the append nobody else appends.
PendingApart ==
    pc \in {"affected", "before"} => ~DuplicateComplaint(request, complaints)

AggregatorInv == TypeOK /\ DedupApart /\ PendingApart

(***************************************************************************)
(* So no complainant speaks twice in a window of the scorer, and a cohort  *)
(* of K complainants is a cohort of K complaints, as long as the dedup     *)
(* window is at least the scorer's.                                        *)
(***************************************************************************)
OneVoicePerWindow ==
    DedupWindow >= W =>
        \A s \in SLAs, m \in Metrics :
            LET log == Ordered(complaints, s, m)
            IN  \A p, q \in DOMAIN log :
                    /\ p < q
                    /\ log[q].observed_at - log[p].observed_at <= W
                    => log[p].complainant # log[q].complainant

(***************************************************************************)
(* What the storage and the ticker hold refers to what the storage holds,  *)
(* unless a reset cleared a field after the request was validated.         *)
(***************************************************************************)
ReferencesHold ==
    LET Recent(r) == r.looked = wipes
    IN  /\ \A c \in ToSet(claims) \cup ToSet(complaints) :
              Recent(c) => c.sla \in Known
        /\ \A l \in ToSet(ticker) :
              Recent(l) =>
                  CASE l.type = "sla_signed" -> l.subject.sla \in Known
                    [] l.type = "claim" -> l.subject \in ToSet(claims)
                    [] l.type = "complaint" -> l.subject \in ToSet(complaints)
                    [] OTHER -> \E s \in Known : l.subject \in ToSet(Cosigners[s])

(***************************************************************************)
(* A reset leaves at most one record behind of all the requests that were  *)
(* validated before it began to clear: the one the event loop was serving. *)
(***************************************************************************)
AtMostOneSurvivor ==
    LET Old(r) == r.looked <= 4 * (resets - 1)
        Count(log) == Cardinality({n \in DOMAIN log : Old(log[n])})
    IN  resets > 0 /\ wiper = 0 =>
            Cardinality({s \in Known : slas[s] <= 4 * (resets - 1)})
              + Count(claims) + Count(complaints) <= 1

(***************************************************************************)
(* GET /score/{isd_as} and GET /scores, which add the events up in two     *)
(* ways, agree on every AS: no AS stands twice on the path of an SLA.      *)
(***************************************************************************)
ScoreEndpointsAgree ==
    LET events == AllEvents(Known, complaints)
    IN  \A a \in ASes :
            ScoreForAll(a, events, now) = Score(AttributedTo(events, a), now)

(***************************************************************************)
(* GET /scores walks a storage that changes under it, and still lists no   *)
(* AS with a score that it did not have at some moment of the call, unless *)
(* a reset came in between or had left complaints without their SLA.       *)
(***************************************************************************)
ScoresOfAMoment ==
    [][AnswerScores /\ reader.undisturbed =>
        \A a \in DOMAIN Listing :
            \E m \in reader.moments : Listing[a] = m[a]]_vars

(***************************************************************************)
(* A complaint observed after all the others of its SLA and metric adds at *)
(* most one event and takes none back: what was announced stands unless    *)
(* complaints arrive out of order.                                         *)
(***************************************************************************)
InOrderNeverRetracts ==
    [][AddComplaint =>
        LET s == request.sla
            latest == \A n \in DOMAIN complaints :
                          /\ complaints[n].sla = s
                          /\ complaints[n].metric = request.metric
                          => complaints[n].observed_at <= request.observed_at
            old == EventsOfSLA(complaints, s)
            new == EventsOfSLA(complaints', s)
        IN  latest => old \subseteq new /\ Cardinality(new \ old) <= 1]_vars
=============================================================================
