------------------------------ MODULE Simulator ------------------------------
(***************************************************************************)
(* The simulator process (simulator/): the live loop of the main thread    *)
(* ticks, and worker threads serve the presenter's scenarios.  Both act on *)
(* the same dictionaries and lists without a lock.  The aggregator they    *)
(* call is external here: it keeps what it is sent until it is wiped.      *)
(***************************************************************************)
EXTENDS Integers, FiniteSets, SequencesExt

CONSTANTS
    Workers,        \* the threads that serve /scenarios requests
    Loop,           \* the main thread
    AgentList,      \* the simulated ASes, the keys of orchestrator.agents in order
    Buyers,         \* those whose role lets them buy
    TemplateList,   \* the configured SLA templates, in order
    Bargain,        \* the template that cloud_bargain makes up
    Cosigners,      \* Cosigners[t]: the ASes on the path of template t
    Foreign,        \* the template of what another process published
    PreSeed,        \* initial_sla_count
    ReSeed,         \* the preseed_count of a reset request
    ClaimMax,       \* claim_max_per_tick
    Scenarios,      \* the requests that presenters make
    MaxSLAs,        \* bound on the SLAs published
    MaxTicks,       \* bound on the ticks
    MaxRequests,    \* bound on the requests
    MaxFaults       \* bound on the calls that fail

Threads == Workers \cup {Loop}
Agents == Range(AgentList)
Templates == Range(TemplateList) \cup {Bargain}

ASSUME SimulatorAssumption ==
    /\ Loop \notin Workers
    /\ AgentList \in Seq(Agents) /\ AgentList # <<>> /\ IsInjective(AgentList)
    /\ Buyers \subseteq Agents
    /\ TemplateList \in Seq(Templates) /\ TemplateList # <<>>
    /\ Foreign \notin Templates /\ Bargain \notin Range(TemplateList)
    /\ Cosigners[Bargain] = Cosigners[TemplateList[1]]
    /\ {PreSeed, ReSeed, ClaimMax, MaxSLAs, MaxTicks, MaxRequests, MaxFaults}
           \subseteq Nat
    /\ PreSeed <= MaxSLAs
    /\ Scenarios \subseteq {"reset", "hospital", "cloud", "degrade", "fix"}

\* An SLA is told apart by its nonce; its template stands for its payload.
Alien == [nonce |-> 0, template |-> Foreign]
SLA == [nonce : 1..MaxSLAs, template : Templates] \cup {Alien}

\* A QualityModel: the template's profile, or violating whatever it samples.
Quality == {"nominal", "violating"}

VARIABLES
    alive,          \* the process runs
    models,         \* orchestrator.quality_models
    bounds,         \* the keys of orchestrator.sla_bounds
    live,           \* orchestrator.live_sla_ids
    portfolio,      \* portfolio[a]: the SLAs of the claims that agent a holds
    thread,         \* what each thread is about to do
    stored,         \* external: the SLAs the aggregator stores
    claims,         \* external: the claims it stores, by claimant and SLA
    nonces,         \* history: how many nonces were drawn
    ticks,          \* history: how many ticks were begun
    requests,       \* history: how many requests were taken
    faults,         \* history: how many calls failed
    filed,          \* history: the complaints of the current tick, in order
    clash           \* history: threads disturbed each other (see Disturbs)

orchestrator == <<models, bounds, live, portfolio>>
aggregator == <<stored, claims>>
counters == <<nonces, ticks, requests, faults>>
vars == <<alive, orchestrator, thread, aggregator, counters, filed, clash>>

-----------------------------------------------------------------------------
(* Threads.                                                                *)

Steps ==
    {"idle", "post", "model", "bounds", "list",
     "market", "shop", "claim", "append", "sample", "measure", "get", "file",
     "wipe", "clear_models", "clear_bounds", "clear_live", "clear_agents",
     "visit", "check", "write", "done", "failed"}

Jobs == {"seed", "tick"} \cup Scenarios

\* plan: the SLAs to publish; sla, who: the ones at hand; todo: a list it
\* walks; agents: the agents it walks; rest: the buyers left; made: its claims;
\* bad: whether the agent at hand would complain of the sample; scope: a
\* history, the SLAs that were live when a request copied the list.
Thread ==
    [pc : Steps, job : Jobs, plan : Seq(SLA), sla : SLA, who : Agents,
     todo : Seq(SLA), agents : Seq(Agents), market : SUBSET SLA,
     rest : SUBSET Agents, made : 0..ClaimMax, bad : BOOLEAN,
     scope : SUBSET SLA]

Start(job, pc) ==
    [pc |-> pc, job |-> job, plan |-> <<>>, sla |-> Alien,
     who |-> AgentList[1], todo |-> <<>>, agents |-> <<>>, market |-> {},
     rest |-> {}, made |-> 0, bad |-> FALSE, scope |-> {}]

Idle == Start("tick", "idle")

At(t, pc) == alive /\ thread[t].pc = pc
Goto(t, next) == thread' = [thread EXCEPT ![t] = next]
Moved(t, pc) == [thread[t] EXCEPT !.pc = pc]

\* Draws the nonces of the SLAs that the thread is about to publish.
Drawn(templates) ==
    [i \in DOMAIN templates |->
        [nonce |-> nonces + i, template |-> templates[i]]]

Draw(templates) ==
    /\ nonces + Len(templates) <= MaxSLAs
    /\ nonces' = nonces + Len(templates)

\* pre_seed goes round the templates.
Seeds(count) ==
    [i \in 1..count |-> TemplateList[((i - 1) % Len(TemplateList)) + 1]]

Init ==
    /\ alive = TRUE
    /\ models = <<>> /\ bounds = {} /\ live = <<>>
    /\ portfolio = [a \in Agents |-> <<>>]
    /\ thread = [t \in Threads |->
                    IF t = Loop /\ PreSeed > 0
                    THEN [Start("seed", "post") EXCEPT !.plan =
                            [i \in 1..PreSeed |->
                                [nonce |-> i, template |-> Seeds(PreSeed)[i]]]]
                    ELSE Idle]
    /\ stored = {Alien} /\ claims = {}
    /\ nonces = PreSeed /\ ticks = 0 /\ requests = 0 /\ faults = 0
    /\ filed = <<>> /\ clash = FALSE

-----------------------------------------------------------------------------
(* _publish_template, by whichever thread runs it.                         *)

Published(t) == Head(thread[t].plan)

\* The answer is not looked at.
PostSLA(t) ==
    /\ At(t, "post")
    /\ stored' = stored \cup {Published(t)}
    /\ Goto(t, Moved(t, "model"))
    /\ UNCHANGED <<alive, orchestrator, claims, counters, filed>>

\* quality_models[sla_id] = ...
WithModel(s, q) ==
    [x \in DOMAIN models \cup {s} |-> IF x = s THEN q ELSE models[x]]

PutModel(t) ==
    /\ At(t, "model")
    /\ models' = WithModel(Published(t), "nominal")
    /\ Goto(t, Moved(t, "bounds"))
    /\ UNCHANGED <<alive, bounds, live, portfolio, aggregator, counters, filed>>

PutBounds(t) ==
    /\ At(t, "bounds")
    /\ bounds' = bounds \cup {Published(t)}
    /\ Goto(t, Moved(t, "list"))
    /\ UNCHANGED <<alive, models, live, portfolio, aggregator, counters, filed>>

\* Mutant: pre_seed counts one SLA too many.
AfterPublishingOneMore(t) ==
    [Moved(t, "post") EXCEPT !.plan = Tail(@)]

\* The next SLA of a pre-seed; or the thread is done publishing.
AfterPublishing(t) ==
    LET left == Tail(thread[t].plan)
        pc == IF left # <<>> THEN "post"
              ELSE CASE thread[t].job = "seed" -> "idle"
                     [] thread[t].job = "tick" -> "market"
                     [] OTHER -> "done"
    IN IF pc = "idle" THEN Idle ELSE [Moved(t, pc) EXCEPT !.plan = left]

ListLive(t) ==
    /\ At(t, "list")
    /\ live' = Append(live, Published(t))
    /\ Goto(t, AfterPublishing(t))
    /\ UNCHANGED <<alive, models, bounds, portfolio, aggregator, counters, filed>>

-----------------------------------------------------------------------------
(* tick.                                                                   *)

\* The loop comes back after its pause; the tick may begin with a publication.
StartTick ==
    /\ At(Loop, "idle") /\ ticks < MaxTicks
    /\ ticks' = ticks + 1
    /\ filed' = <<>>
    /\ \/ /\ Goto(Loop, Start("tick", "market"))
          /\ UNCHANGED nonces
       \/ \E template \in Range(TemplateList) :
            /\ Draw(<<template>>)
            /\ Goto(Loop, [Start("tick", "post") EXCEPT
                              !.plan = Drawn(<<template>>)])
    /\ UNCHANGED <<alive, orchestrator, aggregator, requests, faults>>

\* get_scores and list_active_slas, over the buyers that were shuffled.
ReadMarket ==
    /\ At(Loop, "market")
    /\ Goto(Loop, [Moved(Loop, "shop") EXCEPT !.market = stored, !.rest = Buyers])
    /\ UNCHANGED <<alive, orchestrator, aggregator, counters, filed>>

\* Mutant: the buyer's portfolio is not looked at.
AcceptableAgain(a) ==
    {s \in thread[Loop].market : a \notin Cosigners[s.template]}

\* What a buyer's policy is asked about.
Acceptable(a) ==
    {s \in thread[Loop].market :
        a \notin Cosigners[s.template] /\ s \notin Range(portfolio[a])}

MoreClaims == thread[Loop].made < ClaimMax /\ thread[Loop].rest # {}

\* The policy takes one of them, or none.
Shop(a) ==
    /\ At(Loop, "shop") /\ MoreClaims
    /\ a \in thread[Loop].rest
    /\ \/ \E s \in Acceptable(a) :
            Goto(Loop, [Moved(Loop, "claim") EXCEPT
                           !.sla = s, !.who = a, !.rest = @ \ {a}])
       \/ Goto(Loop, [thread[Loop] EXCEPT !.rest = @ \ {a}])
    /\ UNCHANGED <<alive, orchestrator, aggregator, counters, filed>>

\* External: an unknown SLA is refused.  The answer is not looked at.
PostClaim ==
    /\ At(Loop, "claim")
    /\ claims' = claims \cup ({<<thread[Loop].who, thread[Loop].sla>>}
                                 \cap (Agents \X stored))
    /\ Goto(Loop, Moved(Loop, "append"))
    /\ UNCHANGED <<alive, orchestrator, stored, counters, filed>>

AppendClaim ==
    /\ At(Loop, "append")
    /\ portfolio' = [portfolio EXCEPT ![thread[Loop].who] =
                        Append(@, thread[Loop].sla)]
    /\ Goto(Loop, [Moved(Loop, "shop") EXCEPT !.made = @ + 1])
    /\ UNCHANGED <<alive, models, bounds, live, aggregator, counters, filed>>

EndShopping ==
    /\ At(Loop, "shop") /\ ~MoreClaims
    /\ Goto(Loop, [Start("tick", "sample") EXCEPT !.agents = AgentList])
    /\ UNCHANGED <<alive, orchestrator, aggregator, counters, filed>>

\* The next agent: its portfolio is copied before it is walked.
NextAgent ==
    /\ At(Loop, "sample") /\ thread[Loop].todo = <<>>
    /\ Goto(Loop, IF thread[Loop].agents = <<>> THEN Idle
                  ELSE LET a == Head(thread[Loop].agents)
                       IN [thread[Loop] EXCEPT !.agents = Tail(@), !.who = a,
                                               !.todo = portfolio[a]])
    /\ UNCHANGED <<alive, orchestrator, aggregator, counters, filed>>

\* Is the quality of the claim's SLA simulated here?
NextClaim ==
    /\ At(Loop, "sample") /\ thread[Loop].todo # <<>>
    /\ LET s == Head(thread[Loop].todo) IN
        Goto(Loop, [thread[Loop] EXCEPT
                       !.sla = s, !.todo = Tail(@),
                       !.pc = IF s \in DOMAIN models THEN "measure" ELSE @])
    /\ UNCHANGED <<alive, orchestrator, aggregator, counters, filed>>

\* Nothing catches a KeyError of the tick: the process ends.
Die ==
    /\ alive' = FALSE
    /\ UNCHANGED <<orchestrator, thread, aggregator, filed>>

\* A violating model is bad enough for every agent, a nominal one may be.
Measure ==
    /\ At(Loop, "measure")
    /\ LET s == thread[Loop].sla IN
        IF s \in DOMAIN models /\ s \in bounds
        THEN /\ \E bad \in BOOLEAN :
                    /\ models[s] = "violating" => bad
                    /\ Goto(Loop, [Moved(Loop, "get") EXCEPT !.bad = bad])
             /\ UNCHANGED <<alive, orchestrator, aggregator, filed>>
        ELSE Die
    /\ UNCHANGED counters

GetSLA ==
    /\ At(Loop, "get")
    /\ Goto(Loop, [Moved(Loop, IF thread[Loop].sla \in stored /\ thread[Loop].bad
                               THEN "file" ELSE "sample") EXCEPT !.bad = FALSE])
    /\ UNCHANGED <<alive, orchestrator, aggregator, counters, filed>>

\* One complaint: the other metrics of the sample are left alone.
FileComplaint ==
    /\ At(Loop, "file")
    /\ filed' = Append(filed, <<thread[Loop].who, thread[Loop].sla>>)
    /\ Goto(Loop, Moved(Loop, "sample"))
    /\ UNCHANGED <<alive, orchestrator, aggregator, counters>>

-----------------------------------------------------------------------------
(* Scenarios.                                                              *)

\* The API is started when the market has been seeded.
Serving == alive /\ thread[Loop].job # "seed"

Request(w, scenario) ==
    /\ Serving /\ thread[w].pc = "idle"
    /\ scenario \in Scenarios /\ requests < MaxRequests
    /\ requests' = requests + 1
    /\ UNCHANGED <<alive, orchestrator, aggregator, ticks, faults, filed>>

\* The nonces are drawn when the SLAs are published; only their names matter.
Reset(w) ==
    /\ Request(w, "reset")
    /\ Draw(Seeds(ReSeed))
    /\ Goto(w, [Start("reset", "wipe") EXCEPT !.plan = Drawn(Seeds(ReSeed))])

\* The SLA that is named, or else the latest; a KeyError is a 404.
HospitalReshops(w) ==
    /\ Request(w, "hospital")
    /\ \/ \E s \in stored \cup Range(live) :
            Goto(w, [Start("hospital", "check") EXCEPT !.sla = s])
       \/ /\ live # <<>>
          /\ Goto(w, [Start("hospital", "check") EXCEPT !.sla = Last(live)])
       \/ live = <<>> /\ Goto(w, Start("hospital", "failed"))
    /\ UNCHANGED nonces

CloudBargain(w) ==
    /\ Request(w, "cloud")
    /\ Draw(<<Bargain>>)
    /\ Goto(w, [Start("cloud", "post") EXCEPT !.plan = Drawn(<<Bargain>>)])

\* Both walk a copy of live_sla_ids.
ChangeAS(w, scenario, a) ==
    /\ scenario \in {"degrade", "fix"}
    /\ Request(w, scenario)
    /\ Goto(w, [Start(scenario, "visit") EXCEPT
                   !.who = a, !.todo = live, !.scope = Range(live)])
    /\ UNCHANGED nonces

\* on_reset: the answer is not looked at, and a failure is only logged.
Wipe(w) ==
    /\ At(w, "wipe")
    /\ \/ stored' = {} /\ claims' = {} /\ UNCHANGED faults
       \/ faults < MaxFaults /\ faults' = faults + 1 /\ UNCHANGED aggregator
    /\ Goto(w, Moved(w, "clear_models"))
    /\ UNCHANGED <<alive, orchestrator, nonces, ticks, requests, filed>>

ClearModels(w) ==
    /\ At(w, "clear_models")
    /\ models' = <<>>
    /\ Goto(w, Moved(w, "clear_bounds"))
    /\ UNCHANGED <<alive, bounds, live, portfolio, aggregator, counters, filed>>

\* Mutant: a reset leaves the bounds of the SLAs it forgets.
ClearNoBounds(w) ==
    /\ At(w, "clear_bounds")
    /\ Goto(w, Moved(w, "clear_live"))
    /\ UNCHANGED <<alive, orchestrator, aggregator, counters, filed>>

ClearBounds(w) ==
    /\ At(w, "clear_bounds")
    /\ bounds' = {}
    /\ Goto(w, Moved(w, "clear_live"))
    /\ UNCHANGED <<alive, models, live, portfolio, aggregator, counters, filed>>

ClearLive(w) ==
    /\ At(w, "clear_live")
    /\ live' = <<>>
    /\ Goto(w, [Moved(w, "clear_agents") EXCEPT !.agents = AgentList])
    /\ UNCHANGED <<alive, models, bounds, portfolio, aggregator, counters, filed>>

\* Mutant: a reset leaves the portfolios.
ClearNoAgent(w) ==
    /\ At(w, "clear_agents")
    /\ Goto(w, Moved(w, IF thread[w].plan = <<>> THEN "done" ELSE "post"))
    /\ UNCHANGED <<alive, orchestrator, aggregator, counters, filed>>

\* One agent after the other; the market is seeded after the last.
ClearAgent(w) ==
    /\ At(w, "clear_agents")
    /\ LET left == Tail(thread[w].agents)
           pc == IF left # <<>> THEN "clear_agents"
                 ELSE IF thread[w].plan = <<>> THEN "done" ELSE "post"
       IN /\ portfolio' = [portfolio EXCEPT ![Head(thread[w].agents)] = <<>>]
          /\ Goto(w, [Moved(w, pc) EXCEPT !.agents = left])
    /\ UNCHANGED <<alive, models, bounds, live, aggregator, counters, filed>>

\* Mutant: the search for the template gives up after the first one.
HasFirstTemplate(s) == s.template = Head(TemplateList)

\* The template with the same path and bounds, among the configured ones.
HasTemplate(s) == s.template \in Range(TemplateList)

\* The next SLA of the copy: it must be known, cosigned by the AS and, to be
\* restored, made from a configured template.
Visit(w) ==
    /\ At(w, "visit")
    /\ IF thread[w].todo = <<>>
       THEN Goto(w, Moved(w, "done"))
       ELSE LET s == Head(thread[w].todo)
                pc == IF s \notin stored \/ thread[w].who \notin Cosigners[s.template]
                      THEN "visit"
                      ELSE IF thread[w].job = "degrade" THEN "check"
                      ELSE IF HasTemplate(s) THEN "write" ELSE "visit"
            IN Goto(w, [Moved(w, pc) EXCEPT !.sla = s, !.todo = Tail(@)])
    /\ UNCHANGED <<alive, orchestrator, aggregator, counters, filed>>

\* Mutant: hospital_reshops and degrade_as take any sla_id.
CheckNothing(w) ==
    /\ At(w, "check")
    /\ Goto(w, Moved(w, "write"))
    /\ UNCHANGED <<alive, orchestrator, aggregator, counters, filed>>

\* sla_bounds[sla_id]; a KeyError gives up what is left of the copy.
CheckBounds(w) ==
    /\ At(w, "check")
    /\ Goto(w, Moved(w, IF thread[w].sla \in bounds THEN "write" ELSE "failed"))
    /\ UNCHANGED <<alive, orchestrator, aggregator, counters, filed>>

WriteModel(w) ==
    /\ At(w, "write")
    /\ models' = WithModel(thread[w].sla,
                     IF thread[w].job = "fix" THEN "nominal" ELSE "violating")
    /\ Goto(w, Moved(w, IF thread[w].job = "hospital" THEN "done" ELSE "visit"))
    /\ UNCHANGED <<alive, bounds, live, portfolio, aggregator, counters, filed>>

Answer(w) ==
    /\ At(w, "done") \/ At(w, "failed")
    /\ Goto(w, Idle)
    /\ UNCHANGED <<alive, orchestrator, aggregator, counters, filed>>

\* A call to the aggregator raises; what was posted may have been stored.
\* The scenario answers 500; nothing catches it in the tick or the seeding.
CallFails(t) ==
    /\ \E pc \in {"post", "market", "claim", "get", "file", "visit"} : At(t, pc)
    /\ thread[t].pc = "visit" => thread[t].todo # <<>>
    /\ faults < MaxFaults /\ faults' = faults + 1
    /\ \/ UNCHANGED aggregator
       \/ /\ thread[t].pc = "post"
          /\ stored' = stored \cup {Published(t)} /\ UNCHANGED claims
    /\ IF t = Loop
       THEN alive' = FALSE /\ UNCHANGED thread
       ELSE Goto(t, Moved(t, "failed")) /\ UNCHANGED alive
    /\ UNCHANGED <<orchestrator, nonces, ticks, requests, filed>>

-----------------------------------------------------------------------------

Publish(t) == PostSLA(t) \/ PutModel(t) \/ PutBounds(t) \/ ListLive(t)

TickStep ==
    \/ StartTick \/ ReadMarket \/ PostClaim \/ AppendClaim \/ EndShopping
    \/ \E a \in Buyers : Shop(a)
    \/ NextAgent \/ NextClaim \/ Measure \/ GetSLA \/ FileComplaint

RequestStep(w) ==
    \/ Reset(w) \/ HospitalReshops(w) \/ CloudBargain(w)
    \/ \E a \in Agents, scenario \in Scenarios : ChangeAS(w, scenario, a)
    \/ Wipe(w) \/ ClearModels(w) \/ ClearBounds(w) \/ ClearLive(w)
    \/ ClearAgent(w) \/ Visit(w) \/ CheckBounds(w) \/ WriteModel(w) \/ Answer(w)

Busy(t) == thread[t].pc # "idle"

\* Two requests at once, or a reset or a publication during a tick.
Disturbs ==
    \E w \in Workers :
        /\ Busy(w)
        /\ \/ \E other \in Workers \ {w} : Busy(other)
           \/ thread[w].job \in {"reset", "cloud"} /\ Busy(Loop)

Next ==
    /\ \/ TickStep
       \/ \E w \in Workers : RequestStep(w)
       \/ \E t \in Threads : Publish(t) \/ CallFails(t)
    /\ clash' = (clash \/ Disturbs')

Spec == Init /\ [][Next]_vars

-----------------------------------------------------------------------------
(* Correctness.                                                            *)

\* Types.  A thread at a step that takes the head of a list has one to take.
TypeOK ==
    /\ alive \in BOOLEAN /\ clash \in BOOLEAN
    /\ DOMAIN models \subseteq SLA /\ \A s \in DOMAIN models : models[s] \in Quality
    /\ bounds \subseteq SLA /\ live \in Seq(SLA)
    /\ portfolio \in [Agents -> Seq(SLA)]
    /\ thread \in [Threads -> Thread]
    /\ \A t \in Threads :
        /\ thread[t].pc \in {"post", "model", "bounds", "list"} =>
                thread[t].plan # <<>>
        /\ thread[t].pc = "clear_agents" => thread[t].agents # <<>>
    /\ stored \subseteq SLA /\ claims \subseteq Agents \X SLA
    /\ filed \in Seq(Agents \X SLA)
    /\ {nonces, ticks, requests, faults} \subseteq Nat

\* "One complaint per (agent, claim, tick) is enough" (orchestrator.py:286):
\* no agent complains twice of an SLA in a tick, so that none claims it twice
\* either, whatever a reset clears under the tick.
OneComplaintPerTick ==
    \A m, n \in DOMAIN filed : filed[m] = filed[n] => m = n

\* No quality change ends the live loop: unless a call failed, or a reset or
\* a publication ran beside it, every SLA that the tick measures still has
\* the quality model and the bounds it was found with (orchestrator.py:252).
LoopSurvivesScenarios == ~alive => clash \/ faults > 0

\* "Tick until SIGTERM / Ctrl-C" (main.py:223): whatever the presenter asks
\* for meanwhile, the live loop goes on as long as no call fails.
TicksOn == faults = 0 => alive

\* A reset that nothing disturbed leaves the market that pre_seed makes and
\* nothing else (scenarios.py:26): the same SLAs are stored, live, bounded
\* and of nominal quality, and nobody holds a claim.
CleanReset ==
    \A w \in Workers :
        At(w, "done") /\ thread[w].job = "reset" /\ ~clash /\ faults = 0 =>
            /\ [i \in DOMAIN live |-> live[i].template] = Seeds(ReSeed)
            /\ stored = Range(live) /\ bounds = stored
            /\ models = [s \in stored |-> "nominal"]
            /\ claims = {} /\ \A a \in Agents : portfolio[a] = <<>>

\* The aggregator stores the claims that the agents hold (agent.py:184), unless
\* a call failed, a reset ran beside the tick, or one is under way: nobody
\* complains of an SLA on which the aggregator knows no claim of his.
PortfolioIsStored ==
    \/ clash \/ faults > 0
    \/ \E w \in Workers : Busy(w) /\ thread[w].job = "reset"
    \/ \A a \in Agents : \A s \in Range(portfolio[a]) :
            s \in stored /\ <<a, s>> \in claims

\* When fix_as(a) is answered, the SLAs of a set that were live when it was
\* asked for are of nominal quality again if a cosigned them, unless another
\* request or a reset disturbed it.
Restored(slas) ==
    \A w \in Workers :
        At(w, "done") /\ thread[w].job = "fix" /\ ~clash =>
            \A s \in slas \cap stored \cap thread[w].scope :
                thread[w].who \in Cosigners[s.template] =>
                    s \in DOMAIN models /\ models[s] = "nominal"

\* fix_as restores every SLA made from a configured template, whatever was
\* done to it and whatever the tick does meanwhile (scenarios.py:193).
FixRestoresTemplates == Restored({s \in SLA : s.template \in Range(TemplateList)})

\* "Restore nominal quality on every live SLA cosigned by isd_as"
\* (scenarios.py:178).
FixRestores == Restored(SLA)
=============================================================================
