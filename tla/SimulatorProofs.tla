--------------------------- MODULE SimulatorProofs ---------------------------
(***************************************************************************)
(* The live loop and the scenarios of the simulator, for any number of     *)
(* agents, templates and worker threads.                                   *)
(***************************************************************************)
EXTENDS Simulator, TLAPS

Publishing == {"post", "model", "bounds", "list"}

\* A thread has what its next step takes.
Ready(r) ==
    /\ r \in Thread
    /\ r.pc \in Publishing => r.plan # <<>>
    /\ r.pc = "clear_agents" => r.agents # <<>>
    /\ r.pc \in {"claim", "append"} => r.made < ClaimMax

TypeInv == TypeOK /\ \A t \in Threads : Ready(thread[t])

-----------------------------------------------------------------------------
(* Threads and their fields.                                               *)

LEMMA Fields ==
    ASSUME NEW r \in Thread
    PROVE  /\ r.pc \in Steps /\ r.job \in Jobs /\ r.plan \in Seq(SLA) /\ r.sla \in SLA
           /\ r.who \in Agents /\ r.todo \in Seq(SLA) /\ r.agents \in Seq(Agents)
           /\ r.market \in SUBSET SLA /\ r.rest \in SUBSET Agents
           /\ r.made \in 0..ClaimMax /\ r.bad \in BOOLEAN /\ r.scope \in SUBSET SLA
  BY DEF Thread

LEMMA Edits ==
    ASSUME NEW r \in Thread
    PROVE  /\ \A x \in Steps : [r EXCEPT !.pc = x] \in Thread
           /\ \A x \in Seq(SLA) : [r EXCEPT !.plan = x] \in Thread
           /\ \A x \in SLA : [r EXCEPT !.sla = x] \in Thread
           /\ \A x \in Agents : [r EXCEPT !.who = x] \in Thread
           /\ \A x \in Seq(SLA) : [r EXCEPT !.todo = x] \in Thread
           /\ \A x \in Seq(Agents) : [r EXCEPT !.agents = x] \in Thread
           /\ \A x \in SUBSET SLA : [r EXCEPT !.market = x] \in Thread
           /\ \A x \in SUBSET Agents : [r EXCEPT !.rest = x] \in Thread
           /\ \A x \in 0..ClaimMax : [r EXCEPT !.made = x] \in Thread
           /\ \A x \in BOOLEAN : [r EXCEPT !.bad = x] \in Thread
           /\ \A x \in SUBSET SLA : [r EXCEPT !.scope = x] \in Thread
  BY DEF Thread

LEMMA RangeSeq ==
    ASSUME NEW S, NEW s \in Seq(S)
    PROVE  /\ Range(s) \subseteq S
           /\ s # <<>> => /\ Head(s) \in Range(s) /\ Tail(s) \in Seq(S) /\ Last(s) \in Range(s)
                          /\ Range(s) = {Head(s)} \cup Range(Tail(s))
           /\ \A e \in S : Append(s, e) \in Seq(S) /\ Range(Append(s, e)) = Range(s) \cup {e}
<1>1. Range(s) \subseteq S
  BY DEF Range
<1>2. ASSUME s # <<>>
      PROVE  /\ Head(s) \in Range(s) /\ Tail(s) \in Seq(S) /\ Last(s) \in Range(s)
             /\ Range(s) = {Head(s)} \cup Range(Tail(s))
  <2>1. /\ Len(s) \in Nat \ {0} /\ DOMAIN s = 1..Len(s) /\ Head(s) = s[1]
        /\ DOMAIN Tail(s) = 1..(Len(s) - 1) /\ Tail(s) \in Seq(S)
        /\ \A n \in 1..(Len(s) - 1) : Tail(s)[n] = s[n + 1]
    BY <1>2
  <2>2. Head(s) \in Range(s) /\ Last(s) \in Range(s)
    BY <2>1 DEF Range, Last
  <2>3. Range(Tail(s)) \subseteq Range(s)
    BY <2>1 DEF Range
  <2>4. \A n \in DOMAIN s : n = 1 \/ (n - 1 \in DOMAIN Tail(s) /\ Tail(s)[n - 1] = s[n])
    BY <2>1
  <2>5. ASSUME NEW x \in Range(s) PROVE x = Head(s) \/ x \in Range(Tail(s))
    <3>1. PICK n \in DOMAIN s : x = s[n]
      BY DEF Range
    <3> QED
      BY <2>1, <2>4, <3>1 DEF Range
  <2> QED
    BY <2>1, <2>2, <2>3, <2>5
<1>3. ASSUME NEW e \in S
      PROVE  Append(s, e) \in Seq(S) /\ Range(Append(s, e)) = Range(s) \cup {e}
  <2>1. /\ Len(s) \in Nat /\ DOMAIN s = 1..Len(s) /\ Append(s, e) \in Seq(S)
        /\ DOMAIN Append(s, e) = 1..(Len(s) + 1) /\ Append(s, e)[Len(s) + 1] = e
        /\ \A n \in 1..Len(s) : Append(s, e)[n] = s[n]
    OBVIOUS
  <2> QED
    BY <2>1 DEF Range
<1> QED
  BY <1>1, <1>2, <1>3

LEMMA AgentsOf ==
    /\ AgentList \in Seq(Agents) /\ AgentList # <<>> /\ AgentList[1] \in Agents
    /\ Buyers \subseteq Agents
<1>1. AgentList \in Seq(Agents) /\ AgentList # <<>> /\ Buyers \subseteq Agents
  BY SimulatorAssumption
<1>2. 1 \in DOMAIN AgentList
  BY <1>1
<1> QED
  BY <1>1, <1>2 DEF Agents, Range

LEMMA TemplatesOf ==
    /\ TemplateList \in Seq(Templates) /\ Len(TemplateList) \in Nat \ {0}
    /\ \A n \in 1..Len(TemplateList) : TemplateList[n] \in Templates
    /\ Range(TemplateList) \subseteq Templates /\ Bargain \in Templates
<1>1. TemplateList \in Seq(Templates) /\ TemplateList # <<>>
  BY SimulatorAssumption
<1> QED
  BY <1>1 DEF Templates, Range

LEMMA AlienSLA == Alien \in SLA
  BY DEF SLA

LEMMA Starts ==
    ASSUME NEW job \in Jobs, NEW pc \in Steps
    PROVE  /\ Start(job, pc) \in Thread
           /\ Start(job, pc).pc = pc /\ Start(job, pc).job = job
           /\ Start(job, pc).made = 0 /\ Start(job, pc).plan = <<>>
           /\ Start(job, pc).todo = <<>> /\ Start(job, pc).agents = <<>>
<1>1. 0 \in 0..ClaimMax
  BY SimulatorAssumption
<1>2. AgentList[1] \in Agents /\ Alien \in SLA
  BY AgentsOf, AlienSLA
<1> QED
  BY <1>1, <1>2 DEF Start, Thread

LEMMA Idles ==
    /\ Idle \in Thread /\ Idle.pc = "idle" /\ Idle.job = "tick" /\ Ready(Idle)
    /\ Idle.todo = <<>> /\ Idle.agents = <<>>
<1>1. "tick" \in Jobs /\ "idle" \in Steps
  BY DEF Jobs, Steps
<1>2. Idle.todo = <<>> /\ Idle.agents = <<>>
  BY <1>1, Starts DEF Idle
<1> QED
  BY <1>1, <1>2, Starts DEF Idle, Ready, Publishing

\* The nonces that are drawn are within the bound.
LEMMA DrawnSLAs ==
    ASSUME NEW templates \in Seq(Templates), nonces \in Nat, Draw(templates)
    PROVE  /\ Drawn(templates) \in Seq(SLA) /\ Len(Drawn(templates)) = Len(templates)
           /\ nonces' \in Nat
<1>1. MaxSLAs \in Nat
  BY SimulatorAssumption
<1>2. \A n \in 1..Len(templates) : [nonce |-> nonces + n, template |-> templates[n]] \in SLA
  BY <1>1 DEF Draw, SLA
<1>3. DOMAIN templates = 1..Len(templates) /\ Len(templates) \in Nat
  OBVIOUS
<1>4. Drawn(templates) = [n \in 1..Len(templates) |->
                              [nonce |-> nonces + n, template |-> templates[n]]]
  BY <1>3 DEF Drawn
<1>5. Drawn(templates) \in Seq(SLA) /\ Len(Drawn(templates)) = Len(templates)
  BY <1>2, <1>3, <1>4
<1> QED
  BY <1>3, <1>5 DEF Draw

LEMMA SeedTemplates ==
    ASSUME NEW count \in Nat
    PROVE  Seeds(count) \in Seq(Templates) /\ Len(Seeds(count)) = count
<1>1. \A n \in 1..count : ((n - 1) % Len(TemplateList)) + 1 \in 1..Len(TemplateList)
  BY TemplatesOf
<1>2. \A n \in 1..count : TemplateList[((n - 1) % Len(TemplateList)) + 1] \in Templates
  BY <1>1, TemplatesOf
<1> QED
  BY <1>2 DEF Seeds

-----------------------------------------------------------------------------
(* Types.  A step moves one thread and leaves the others where they are.   *)

LEMMA GotoTyped ==
    ASSUME TypeInv, NEW t \in Threads, NEW next, Goto(t, next), Ready(next),
           alive' \in BOOLEAN, clash' \in BOOLEAN,
           DOMAIN models' \subseteq SLA, \A s \in DOMAIN models' : models'[s] \in Quality,
           bounds' \subseteq SLA, live' \in Seq(SLA), portfolio' \in [Agents -> Seq(SLA)],
           stored' \subseteq SLA, claims' \subseteq Agents \X SLA,
           filed' \in Seq(Agents \X SLA),
           nonces' \in Nat, ticks' \in Nat, requests' \in Nat, faults' \in Nat
    PROVE  TypeInv'
<1>1. thread \in [Threads -> Thread] /\ \A u \in Threads : Ready(thread[u])
  BY DEF TypeInv, TypeOK
<1>2. \A u \in Threads : thread'[u] = IF u = t THEN next ELSE thread[u]
  BY <1>1 DEF Goto
<1>3. \A u \in Threads : Ready(thread'[u])
  BY <1>1, <1>2
<1>4. thread' \in [Threads -> Thread]
  BY <1>1 DEF Goto, Ready
<1>5. \A u \in Threads :
          /\ thread'[u].pc \in Publishing => thread'[u].plan # <<>>
          /\ thread'[u].pc = "clear_agents" => thread'[u].agents # <<>>
  BY <1>3 DEF Ready
<1>6. TypeOK'
  BY <1>4, <1>5 DEF TypeOK, Publishing
<1> QED
  BY <1>3, <1>6 DEF TypeInv

\* What the invariant says of the state before a step.
LEMMA Typed ==
    ASSUME TypeInv
    PROVE  /\ alive \in BOOLEAN /\ clash \in BOOLEAN
           /\ DOMAIN models \subseteq SLA /\ \A s \in DOMAIN models : models[s] \in Quality
           /\ bounds \subseteq SLA /\ live \in Seq(SLA) /\ portfolio \in [Agents -> Seq(SLA)]
           /\ stored \subseteq SLA /\ claims \subseteq Agents \X SLA
           /\ filed \in Seq(Agents \X SLA)
           /\ nonces \in Nat /\ ticks \in Nat /\ requests \in Nat /\ faults \in Nat
           /\ \A t \in Threads : Ready(thread[t]) /\ thread[t] \in Thread
  BY DEF TypeInv, TypeOK

\* Only the thread and what it published are to be looked at.
LEMMA PublishedSLA ==
    ASSUME TypeInv, NEW t \in Threads, thread[t].pc \in Publishing
    PROVE  /\ Published(t) \in SLA /\ thread[t].plan # <<>>
           /\ Tail(thread[t].plan) \in Seq(SLA)
<1>1. thread[t].plan \in Seq(SLA) /\ thread[t].plan # <<>>
  BY Typed, Fields DEF Ready
<1> QED
  BY <1>1, RangeSeq DEF Published

LEMMA MovedReady ==
    ASSUME TypeInv, NEW t \in Threads, NEW pc \in Steps,
           pc \in Publishing => thread[t].plan # <<>>,
           pc = "clear_agents" => thread[t].agents # <<>>,
           pc \in {"claim", "append"} => thread[t].made < ClaimMax
    PROVE  /\ Ready(Moved(t, pc)) /\ Moved(t, pc).pc = pc
           /\ Moved(t, pc).plan = thread[t].plan
<1>1. thread[t] \in Thread
  BY Typed
<1>2. Moved(t, pc) \in Thread
  BY <1>1, Edits DEF Moved
<1>3. /\ Moved(t, pc).pc = pc /\ Moved(t, pc).plan = thread[t].plan
      /\ Moved(t, pc).agents = thread[t].agents /\ Moved(t, pc).made = thread[t].made
  BY <1>1 DEF Moved, Thread
<1> QED
  BY <1>2, <1>3 DEF Ready

LEMMA PutTyped ==
    ASSUME TypeInv, NEW s \in SLA, NEW q \in Quality, models' = WithModel(s, q)
    PROVE  /\ DOMAIN models' = DOMAIN models \cup {s} /\ DOMAIN models' \subseteq SLA
           /\ \A x \in DOMAIN models' : models'[x] \in Quality
<1>1. DOMAIN models \subseteq SLA /\ \A x \in DOMAIN models : models[x] \in Quality
  BY Typed
<1>2. /\ DOMAIN models' = DOMAIN models \cup {s}
      /\ \A x \in DOMAIN models' : models'[x] = IF x = s THEN q ELSE models[x]
  BY DEF WithModel
<1> QED
  BY <1>1, <1>2

LEMMA PublishTyped ==
    ASSUME TypeInv, clash' \in BOOLEAN, NEW t \in Threads, Publish(t)
    PROVE  TypeInv'
<1>. thread[t].pc \in Publishing
  BY DEF Publish, PostSLA, PutModel, PutBounds, ListLive, At, Publishing
<1>. /\ thread[t].plan # <<>> /\ Published(t) \in SLA
     /\ {"model", "bounds", "list"} \subseteq Steps
  BY PublishedSLA DEF Steps
<1>1. CASE PostSLA(t)
  <2>1. Ready(Moved(t, "model"))
    BY MovedReady
  <2> QED
    BY <1>1, <2>1, Typed, GotoTyped DEF PostSLA, orchestrator, counters
<1>2. CASE PutModel(t)
  <2>1. Ready(Moved(t, "bounds"))
    BY MovedReady
  <2>2. "nominal" \in Quality
    BY DEF Quality
  <2>3. DOMAIN models' \subseteq SLA /\ \A x \in DOMAIN models' : models'[x] \in Quality
    BY <1>2, <2>2, PutTyped DEF PutModel
  <2> QED
    BY <1>2, <2>1, <2>3, Typed, GotoTyped DEF PutModel, aggregator, counters
<1>3. CASE PutBounds(t)
  <2>1. Ready(Moved(t, "list"))
    BY MovedReady
  <2> QED
    BY <1>3, <2>1, Typed, GotoTyped DEF PutBounds, aggregator, counters
<1>4. CASE ListLive(t)
  <2>1. Ready(AfterPublishing(t))
    <3>. DEFINE left == Tail(thread[t].plan)
    <3>1. left \in Seq(SLA)
      BY PublishedSLA
    <3>2. ASSUME NEW pc \in {"post", "market", "done"}, pc = "post" => left # <<>>
          PROVE  Ready([Moved(t, pc) EXCEPT !.plan = left])
      <4>1. thread[t] \in Thread /\ pc \in Steps
        BY Typed DEF Steps
      <4>2. Moved(t, pc) \in Thread /\ Moved(t, pc).pc = pc
        BY <4>1, Edits DEF Moved, Thread
      <4>3. [Moved(t, pc) EXCEPT !.plan = left] \in Thread
        BY <4>2, <3>1, Edits
      <4>4. /\ [Moved(t, pc) EXCEPT !.plan = left].pc = pc
            /\ [Moved(t, pc) EXCEPT !.plan = left].plan = left
        BY <4>2 DEF Thread
      <4> QED
        BY <3>2, <4>3, <4>4 DEF Ready, Publishing
    <3> QED
      BY <3>2, Idles DEF AfterPublishing
  <2>2. live' \in Seq(SLA)
    BY <1>4, Typed DEF ListLive
  <2> QED
    BY <1>4, <2>1, <2>2, Typed, GotoTyped DEF ListLive, aggregator, counters
<1> QED
  BY <1>1, <1>2, <1>3, <1>4 DEF Publish

LEMMA StepNames ==
    /\ {"idle", "post", "market", "shop", "claim", "append", "sample", "measure", "get",
        "file", "wipe", "clear_models", "clear_bounds", "clear_live", "clear_agents",
        "visit", "check", "write", "done", "failed"} \subseteq Steps
    /\ {"seed", "tick"} \cup Scenarios = Jobs
  BY DEF Steps, Jobs

LEMMA AtReady ==
    ASSUME NEW r \in Thread, r.pc \notin Publishing, r.pc # "clear_agents",
           r.pc \notin {"claim", "append"}
    PROVE  Ready(r)
  BY DEF Ready

LEMMA TickTyped ==
    ASSUME TypeInv, clash' \in BOOLEAN, TickStep
    PROVE  TypeInv'
<1>. DEFINE r == thread[Loop]
<1>r. /\ r \in Thread /\ Ready(r) /\ Loop \in Threads
      /\ r.todo \in Seq(SLA) /\ r.agents \in Seq(Agents) /\ r.sla \in SLA
      /\ r.who \in Agents /\ r.rest \in SUBSET Agents /\ r.made \in 0..ClaimMax
      /\ r.market \in SUBSET SLA /\ ClaimMax \in Nat
  BY Typed, Fields, SimulatorAssumption DEF Threads
<1>1. CASE StartTick
  <2>0. ticks' \in Nat /\ filed' \in Seq(Agents \X SLA)
    BY <1>1, Typed DEF StartTick
  <2>1. CASE Goto(Loop, Start("tick", "market")) /\ UNCHANGED nonces
    <3>1. Start("tick", "market") \in Thread /\ Start("tick", "market").pc = "market"
      BY Starts, StepNames
    <3>2. Ready(Start("tick", "market"))
      BY <3>1, AtReady DEF Publishing
    <3> QED
      BY <1>1, <1>r, <2>0, <2>1, <3>2, Typed, GotoTyped
      DEF StartTick, orchestrator, aggregator
  <2>2. ASSUME NEW template \in Range(TemplateList), Draw(<<template>>),
               Goto(Loop, [Start("tick", "post") EXCEPT !.plan = Drawn(<<template>>)])
        PROVE  TypeInv'
    <3>0. <<template>> \in Seq(Templates) /\ Len(<<template>>) = 1
      BY TemplatesOf
    <3>1. /\ Drawn(<<template>>) \in Seq(SLA) /\ Drawn(<<template>>) # <<>>
          /\ nonces' \in Nat
      <4>. HIDE DEF r
      <4>1. nonces \in Nat
        BY Typed
      <4>2. /\ Drawn(<<template>>) \in Seq(SLA) /\ Len(Drawn(<<template>>)) = 1
            /\ nonces' \in Nat
        BY <2>2, <3>0, <4>1, DrawnSLAs
      <4> QED
        BY <4>2
    <3>2. Start("tick", "post") \in Thread /\ Start("tick", "post").pc = "post"
      BY Starts, StepNames
    <3>3. Ready([Start("tick", "post") EXCEPT !.plan = Drawn(<<template>>)])
      <4>. DEFINE n == [Start("tick", "post") EXCEPT !.plan = Drawn(<<template>>)]
      <4>1. n \in Thread /\ n.pc = "post" /\ n.plan = Drawn(<<template>>)
        BY <3>1, <3>2, Edits DEF Thread
      <4> QED
        BY <4>1, <3>1 DEF Ready
    <3> QED
      BY <1>1, <1>r, <2>0, <2>2, <3>1, <3>3, Typed, GotoTyped
      DEF StartTick, orchestrator, aggregator
  <2> QED
    BY <1>1, <2>1, <2>2 DEF StartTick
<1>2. CASE ReadMarket
  <2>. DEFINE n == [Moved(Loop, "shop") EXCEPT !.market = stored, !.rest = Buyers]
  <2>1. n \in Thread /\ n.pc = "shop"
    BY <1>r, Typed, AgentsOf, StepNames DEF Moved, Thread
  <2>2. Ready(n)
    BY <2>1, AtReady DEF Publishing
  <2> QED
    BY <1>2, <1>r, <2>2, Typed, GotoTyped DEF ReadMarket, orchestrator, aggregator, counters
<1>3. CASE PostClaim
  <2>1. Ready(Moved(Loop, "append"))
    BY <1>3, <1>r, MovedReady, StepNames DEF PostClaim, At, Ready, Publishing
  <2>2. claims' \subseteq Agents \X SLA
    BY <1>3, Typed DEF PostClaim
  <2> QED
    BY <1>3, <1>r, <2>1, <2>2, Typed, GotoTyped DEF PostClaim, orchestrator, counters
<1>4. CASE AppendClaim
  <2>. DEFINE n == [Moved(Loop, "shop") EXCEPT !.made = @ + 1]
  <2>1. r.made + 1 \in 0..ClaimMax
    BY <1>4, <1>r DEF AppendClaim, At, Ready
  <2>2. n \in Thread /\ n.pc = "shop"
    BY <1>r, <2>1, StepNames DEF Moved, Thread
  <2>3. Ready(n)
    BY <2>2, AtReady DEF Publishing
  <2>4. portfolio' \in [Agents -> Seq(SLA)]
    <3>1. portfolio \in [Agents -> Seq(SLA)] /\ portfolio[r.who] \in Seq(SLA)
      BY <1>r, Typed
    <3>2. Append(portfolio[r.who], r.sla) \in Seq(SLA)
      BY <1>r, <3>1
    <3> QED
      BY <1>4, <3>1, <3>2 DEF AppendClaim
  <2> QED
    BY <1>4, <1>r, <2>3, <2>4, Typed, GotoTyped DEF AppendClaim, aggregator, counters
<1>5. CASE EndShopping
  <2>. DEFINE n == [Start("tick", "sample") EXCEPT !.agents = AgentList]
  <2>1. Start("tick", "sample") \in Thread /\ Start("tick", "sample").pc = "sample"
    BY Starts, StepNames
  <2>2. n \in Thread /\ n.pc = "sample"
    BY <2>1, Edits, AgentsOf DEF Thread
  <2>3. Ready(n)
    BY <2>2, AtReady DEF Publishing
  <2> QED
    BY <1>5, <1>r, <2>3, Typed, GotoTyped DEF EndShopping, orchestrator, aggregator, counters
<1>6. ASSUME NEW a \in Buyers, Shop(a)
      PROVE  TypeInv'
  <2>0. r.pc = "shop" /\ a \in Agents /\ r.made < ClaimMax /\ r.rest \ {a} \in SUBSET Agents
    BY <1>6, <1>r, AgentsOf DEF Shop, At, MoreClaims
  <2>1. ASSUME NEW s \in Acceptable(a)
        PROVE  Ready([Moved(Loop, "claim") EXCEPT !.sla = s, !.who = a, !.rest = @ \ {a}])
    <3>. DEFINE n == [Moved(Loop, "claim") EXCEPT !.sla = s, !.who = a, !.rest = @ \ {a}]
    <3>1. s \in SLA
      BY <1>r DEF Acceptable
    <3>2. n \in Thread /\ n.pc = "claim" /\ n.made = r.made
      BY <1>r, <2>0, <3>1, StepNames DEF Moved, Thread
    <3> QED
      BY <2>0, <3>2 DEF Ready, Publishing
  <2>2. Ready([r EXCEPT !.rest = @ \ {a}])
    <3>1. [r EXCEPT !.rest = @ \ {a}] \in Thread /\ [r EXCEPT !.rest = @ \ {a}].pc = "shop"
      BY <1>r, <2>0 DEF Thread
    <3> QED
      BY <3>1, AtReady DEF Publishing
  <2>3. PICK n : Goto(Loop, n) /\ Ready(n)
    BY <1>6, <2>1, <2>2 DEF Shop
  <2> QED
    BY <1>6, <1>r, <2>3, Typed, GotoTyped DEF Shop, orchestrator, aggregator, counters
<1>7. CASE NextAgent
  <2>1. ASSUME r.agents # <<>>, r.pc = "sample"
        PROVE  LET a == Head(r.agents)
               IN Ready([r EXCEPT !.agents = Tail(@), !.who = a, !.todo = portfolio[a]])
    <3>. DEFINE a == Head(r.agents)
                n == [r EXCEPT !.agents = Tail(@), !.who = a, !.todo = portfolio[a]]
    <3>1. a \in Agents /\ Tail(r.agents) \in Seq(Agents)
      BY <1>r, <2>1
    <3>2. portfolio[a] \in Seq(SLA)
      BY <3>1, Typed
    <3>3. n \in Thread /\ n.pc = "sample"
      BY <1>r, <2>1, <3>1, <3>2 DEF Thread
    <3> QED
      BY <3>3, AtReady DEF Publishing
  <2>2. PICK n : Goto(Loop, n) /\ Ready(n)
    BY <1>7, <2>1, Idles DEF NextAgent, At
  <2> QED
    BY <1>7, <1>r, <2>2, Typed, GotoTyped DEF NextAgent, orchestrator, aggregator, counters
<1>8. CASE NextClaim
  <2>. DEFINE s == Head(r.todo)
              n == [r EXCEPT !.sla = s, !.todo = Tail(@),
                             !.pc = IF s \in DOMAIN models THEN "measure" ELSE @]
  <2>1. s \in SLA /\ Tail(r.todo) \in Seq(SLA) /\ r.pc = "sample"
    BY <1>8, <1>r DEF NextClaim, At
  <2>2. n \in Thread /\ n.pc \in {"measure", "sample"}
    BY <1>r, <2>1, StepNames DEF Thread
  <2>3. Ready(n)
    BY <2>2, AtReady DEF Publishing
  <2> QED
    BY <1>8, <1>r, <2>3, Typed, GotoTyped DEF NextClaim, orchestrator, aggregator, counters
<1>9. CASE Measure
  <2>1. ASSUME NEW bad \in BOOLEAN
        PROVE  Ready([Moved(Loop, "get") EXCEPT !.bad = bad])
    <3>1. /\ [Moved(Loop, "get") EXCEPT !.bad = bad] \in Thread
          /\ [Moved(Loop, "get") EXCEPT !.bad = bad].pc = "get"
      BY <1>r, StepNames DEF Moved, Thread
    <3> QED
      BY <3>1, AtReady DEF Publishing
  <2>2. CASE Die
    BY <1>9, <1>r, <2>2 DEF Measure, Die, TypeInv, TypeOK, orchestrator, aggregator, counters
  <2>3. CASE ~Die
    <3>1. PICK n : Goto(Loop, n) /\ Ready(n)
      BY <1>9, <2>1, <2>3 DEF Measure
    <3> QED
      BY <1>9, <1>r, <2>3, <3>1, Typed, GotoTyped
      DEF Measure, orchestrator, aggregator, counters
  <2> QED
    BY <2>2, <2>3
<1>10. CASE GetSLA
  <2>1. ASSUME NEW pc \in {"file", "sample"}
        PROVE  Ready([Moved(Loop, pc) EXCEPT !.bad = FALSE])
    <3>1. /\ [Moved(Loop, pc) EXCEPT !.bad = FALSE] \in Thread
          /\ [Moved(Loop, pc) EXCEPT !.bad = FALSE].pc = pc
      BY <1>r, StepNames DEF Moved, Thread
    <3> QED
      BY <3>1, AtReady DEF Publishing
  <2>2. PICK n : Goto(Loop, n) /\ Ready(n)
    BY <1>10, <2>1 DEF GetSLA
  <2> QED
    BY <1>10, <1>r, <2>2, Typed, GotoTyped DEF GetSLA, orchestrator, aggregator, counters
<1>11. CASE FileComplaint
  <2>1. Ready(Moved(Loop, "sample"))
    BY <1>r, MovedReady, StepNames DEF Publishing
  <2>2. filed' \in Seq(Agents \X SLA)
    BY <1>11, <1>r, Typed DEF FileComplaint
  <2> QED
    BY <1>11, <1>r, <2>1, <2>2, Typed, GotoTyped
    DEF FileComplaint, orchestrator, aggregator, counters
<1> QED
  BY <1>1, <1>2, <1>3, <1>4, <1>5, <1>6, <1>7, <1>8, <1>9, <1>10, <1>11 DEF TickStep

LEMMA Requested ==
    ASSUME TypeInv, clash' \in BOOLEAN, NEW w \in Workers, NEW scenario, Request(w, scenario),
           nonces' \in Nat, NEW n, Ready(n), Goto(w, n)
    PROVE  TypeInv'
<1>1. requests' \in Nat /\ UNCHANGED <<alive, orchestrator, aggregator, ticks, faults, filed>>
  BY Typed DEF Request
<1>2. w \in Threads
  BY DEF Threads
<1> QED
  BY <1>1, <1>2, Typed, GotoTyped DEF orchestrator, aggregator

\* A request begins.
LEMMA RequestTyped ==
    ASSUME TypeInv, clash' \in BOOLEAN, NEW w \in Workers,
           \/ Reset(w) \/ HospitalReshops(w) \/ CloudBargain(w)
           \/ \E a \in Agents, scenario \in Scenarios : ChangeAS(w, scenario, a)
    PROVE  TypeInv'
<1>1. CASE Reset(w)
  <2>. DEFINE n == [Start("reset", "wipe") EXCEPT !.plan = Drawn(Seeds(ReSeed))]
  <2>1. Seeds(ReSeed) \in Seq(Templates) /\ nonces \in Nat /\ "reset" \in Jobs
    BY <1>1, Typed, SeedTemplates, StepNames, SimulatorAssumption DEF Reset, Request
  <2>2. Drawn(Seeds(ReSeed)) \in Seq(SLA) /\ nonces' \in Nat
    BY <1>1, <2>1, DrawnSLAs DEF Reset
  <2>3. Start("reset", "wipe") \in Thread /\ Start("reset", "wipe").pc = "wipe"
    BY <2>1, Starts, StepNames
  <2>4. n \in Thread /\ n.pc = "wipe"
    BY <2>2, <2>3, Edits DEF Thread
  <2>5. Ready(n)
    BY <2>4, AtReady DEF Publishing
  <2>6. Goto(w, n)
    BY <1>1 DEF Reset
  <2>. HIDE DEF n
  <2> QED
    BY <1>1, <2>2, <2>5, <2>6, Requested DEF Reset
<1>2. CASE HospitalReshops(w)
  <2>1. "hospital" \in Jobs
    BY <1>2, StepNames DEF HospitalReshops, Request
  <2>2. ASSUME NEW s \in SLA
        PROVE  Ready([Start("hospital", "check") EXCEPT !.sla = s])
    <3>1. Start("hospital", "check") \in Thread /\ Start("hospital", "check").pc = "check"
      BY <2>1, Starts, StepNames
    <3>2. /\ [Start("hospital", "check") EXCEPT !.sla = s] \in Thread
          /\ [Start("hospital", "check") EXCEPT !.sla = s].pc = "check"
      BY <3>1, Edits DEF Thread
    <3> QED
      BY <3>2, AtReady DEF Publishing
  <2>3. Ready(Start("hospital", "failed"))
    <3>1. Start("hospital", "failed") \in Thread /\ Start("hospital", "failed").pc = "failed"
      BY <2>1, Starts, StepNames
    <3> QED
      BY <3>1, AtReady DEF Publishing
  <2>4. stored \cup Range(live) \subseteq SLA /\ (live # <<>> => Last(live) \in SLA)
    BY Typed, RangeSeq
  <2>5. PICK n : Goto(w, n) /\ Ready(n)
    BY <1>2, <2>2, <2>3, <2>4 DEF HospitalReshops
  <2> QED
    BY <1>2, <2>5, Typed, Requested DEF HospitalReshops
<1>3. CASE CloudBargain(w)
  <2>. DEFINE n == [Start("cloud", "post") EXCEPT !.plan = Drawn(<<Bargain>>)]
  <2>1. <<Bargain>> \in Seq(Templates) /\ Len(<<Bargain>>) = 1 /\ nonces \in Nat /\ "cloud" \in Jobs
    BY <1>3, Typed, TemplatesOf, StepNames DEF CloudBargain, Request
  <2>2. /\ Drawn(<<Bargain>>) \in Seq(SLA) /\ Drawn(<<Bargain>>) # <<>>
        /\ nonces' \in Nat
    <3>1. /\ Drawn(<<Bargain>>) \in Seq(SLA) /\ Len(Drawn(<<Bargain>>)) = 1
          /\ nonces' \in Nat
      BY <1>3, <2>1, DrawnSLAs DEF CloudBargain
    <3> QED
      BY <3>1
  <2>3. Start("cloud", "post") \in Thread /\ Start("cloud", "post").pc = "post"
    BY <2>1, Starts, StepNames
  <2>4. n \in Thread /\ n.pc = "post" /\ n.plan # <<>>
    BY <2>2, <2>3, Edits DEF Thread
  <2>5. Ready(n)
    BY <2>4 DEF Ready
  <2>6. Goto(w, n)
    BY <1>3 DEF CloudBargain
  <2>. HIDE DEF n
  <2> QED
    BY <1>3, <2>2, <2>5, <2>6, Requested DEF CloudBargain
<1>4. ASSUME NEW a \in Agents, NEW scenario \in Scenarios, ChangeAS(w, scenario, a)
      PROVE  TypeInv'
  <2>. DEFINE n == [Start(scenario, "visit") EXCEPT
                       !.who = a, !.todo = live, !.scope = Range(live)]
  <2>1. live \in Seq(SLA) /\ Range(live) \subseteq SLA
    BY Typed, RangeSeq
  <2>2. Start(scenario, "visit") \in Thread /\ Start(scenario, "visit").pc = "visit"
    BY Starts, StepNames
  <2>3. n \in Thread /\ n.pc = "visit"
    BY <2>1, <2>2 DEF Thread
  <2>4. Ready(n)
    BY <2>3, AtReady DEF Publishing
  <2>5. Goto(w, n)
    BY <1>4 DEF ChangeAS
  <2>. HIDE DEF n
  <2> QED
    BY <1>4, <2>4, <2>5, Typed, Requested DEF ChangeAS
<1> QED
  BY <1>1, <1>2, <1>3, <1>4

\* A request is served.
LEMMA ServiceTyped ==
    ASSUME TypeInv, clash' \in BOOLEAN, NEW w \in Workers,
           \/ Wipe(w) \/ ClearModels(w) \/ ClearBounds(w) \/ ClearLive(w)
           \/ ClearAgent(w) \/ Visit(w) \/ CheckBounds(w) \/ WriteModel(w) \/ Answer(w)
    PROVE  TypeInv'
<1>. DEFINE r == thread[w]
<1>r. /\ w \in Threads /\ r \in Thread /\ Ready(r)
      /\ r.todo \in Seq(SLA) /\ r.agents \in Seq(Agents) /\ r.sla \in SLA /\ r.plan \in Seq(SLA)
  BY Typed, Fields DEF Threads
<1>m. ASSUME NEW pc \in {"clear_models", "clear_bounds", "clear_live", "visit", "check",
                         "write", "done", "failed"}
      PROVE  Ready(Moved(w, pc))
  BY <1>r, MovedReady, StepNames DEF Publishing
<1>1. CASE Wipe(w)
  <2>1. faults' \in Nat /\ stored' \subseteq SLA /\ claims' \subseteq Agents \X SLA
    BY <1>1, Typed DEF Wipe, aggregator
  <2> QED
    BY <1>1, <1>r, <1>m, <2>1, Typed, GotoTyped DEF Wipe, orchestrator
<1>2. CASE ClearModels(w)
  <2>1. DOMAIN models' = {}
    BY <1>2 DEF ClearModels
  <2> QED
    BY <1>2, <1>r, <1>m, <2>1, Typed, GotoTyped DEF ClearModels, aggregator, counters
<1>3. CASE ClearBounds(w)
  BY <1>3, <1>r, <1>m, Typed, GotoTyped DEF ClearBounds, aggregator, counters
<1>4. CASE ClearLive(w)
  <2>. DEFINE n == [Moved(w, "clear_agents") EXCEPT !.agents = AgentList]
  <2>1. n \in Thread /\ n.pc = "clear_agents" /\ n.agents # <<>>
    BY <1>r, AgentsOf, StepNames DEF Moved, Thread
  <2>2. Ready(n)
    BY <2>1 DEF Ready, Publishing
  <2>3. live' \in Seq(SLA)
    BY <1>4 DEF ClearLive
  <2> QED
    BY <1>4, <1>r, <2>2, <2>3, Typed, GotoTyped DEF ClearLive, aggregator, counters
<1>5. CASE ClearAgent(w)
  <2>. DEFINE left == Tail(r.agents)
              pc == IF left # <<>> THEN "clear_agents"
                    ELSE IF r.plan = <<>> THEN "done" ELSE "post"
              n == [Moved(w, pc) EXCEPT !.agents = left]
  <2>1. r.agents # <<>> /\ left \in Seq(Agents)
    BY <1>5, <1>r DEF ClearAgent, At, Ready
  <2>2. n \in Thread /\ n.pc = pc /\ n.agents = left /\ n.plan = r.plan
    BY <1>r, <2>1, StepNames DEF Moved, Thread
  <2>3. Ready(n)
    <3>1. /\ pc \in {"clear_agents", "done", "post"}
          /\ pc = "clear_agents" => left # <<>>
          /\ pc = "post" => r.plan # <<>>
      OBVIOUS
    <3>. HIDE DEF pc, left, n
    <3> QED
      BY <2>2, <3>1 DEF Ready, Publishing
  <2>4. portfolio' \in [Agents -> Seq(SLA)]
    <3>1. <<>> \in Seq(SLA) /\ portfolio \in [Agents -> Seq(SLA)]
      BY Typed
    <3> QED
      BY <1>5, <3>1 DEF ClearAgent
  <2> QED
    BY <1>5, <1>r, <2>3, <2>4, Typed, GotoTyped DEF ClearAgent, aggregator, counters
<1>6. CASE Visit(w)
  <2>1. ASSUME r.todo # <<>>, NEW pc \in {"visit", "check", "write"}
        PROVE  Ready([Moved(w, pc) EXCEPT !.sla = Head(r.todo), !.todo = Tail(@)])
    <3>. DEFINE n == [Moved(w, pc) EXCEPT !.sla = Head(r.todo), !.todo = Tail(@)]
    <3>1. Head(r.todo) \in SLA /\ Tail(r.todo) \in Seq(SLA)
      BY <1>r, <2>1
    <3>2. n \in Thread /\ n.pc = pc
      BY <1>r, <3>1, StepNames DEF Moved, Thread
    <3> QED
      BY <3>2, AtReady DEF Publishing
  <2>2. PICK n : Goto(w, n) /\ Ready(n)
    BY <1>6, <1>m, <2>1 DEF Visit
  <2> QED
    BY <1>6, <1>r, <2>2, Typed, GotoTyped DEF Visit, orchestrator, aggregator, counters
<1>7. CASE CheckBounds(w)
  BY <1>7, <1>r, <1>m, Typed, GotoTyped DEF CheckBounds, orchestrator, aggregator, counters
<1>8. CASE WriteModel(w)
  <2>1. DOMAIN models' \subseteq SLA /\ \A s \in DOMAIN models' : models'[s] \in Quality
    BY <1>8, <1>r, PutTyped DEF WriteModel, Quality
  <2> QED
    BY <1>8, <1>r, <1>m, <2>1, Typed, GotoTyped DEF WriteModel, aggregator, counters
<1>9. CASE Answer(w)
  BY <1>9, <1>r, Idles, Typed, GotoTyped DEF Answer, orchestrator, aggregator, counters
<1> QED
  BY <1>1, <1>2, <1>3, <1>4, <1>5, <1>6, <1>7, <1>8, <1>9

LEMMA FaultTyped ==
    ASSUME TypeInv, clash' \in BOOLEAN, NEW t \in Threads, CallFails(t)
    PROVE  TypeInv'
<1>1. faults' \in Nat
  BY Typed DEF CallFails
<1>2. stored' \subseteq SLA /\ claims' \subseteq Agents \X SLA
  BY Typed, PublishedSLA DEF CallFails, aggregator, Publishing
<1>3. CASE t = Loop
  BY <1>1, <1>2, <1>3 DEF CallFails, TypeInv, TypeOK, orchestrator
<1>4. CASE t # Loop
  <2>1. Ready(Moved(t, "failed"))
    BY MovedReady, StepNames DEF Publishing
  <2> QED
    BY <1>1, <1>2, <1>4, <2>1, Typed, GotoTyped DEF CallFails, orchestrator
<1> QED
  BY <1>3, <1>4

LEMMA InitTyped == Init => TypeInv
<1> SUFFICES ASSUME Init PROVE TypeInv
  OBVIOUS
<1>. DEFINE plan == [n \in 1..PreSeed |-> [nonce |-> n, template |-> Seeds(PreSeed)[n]]]
            first == [Start("seed", "post") EXCEPT !.plan = plan]
<1>1. plan \in Seq(SLA) /\ Len(plan) = PreSeed
  <2>1. PreSeed \in Nat /\ MaxSLAs \in Nat /\ PreSeed <= MaxSLAs
    BY SimulatorAssumption
  <2>2. \A n \in 1..PreSeed : Seeds(PreSeed)[n] \in Templates
    BY <2>1, SeedTemplates
  <2>3. \A n \in 1..PreSeed : [nonce |-> n, template |-> Seeds(PreSeed)[n]] \in SLA
    BY <2>1, <2>2 DEF SLA
  <2> QED
    BY <2>1, <2>3
<1>2. PreSeed > 0 => Ready(first)
  <2>1. Start("seed", "post") \in Thread /\ Start("seed", "post").pc = "post"
    BY Starts, StepNames
  <2>2. first \in Thread /\ first.pc = "post" /\ first.plan = plan
    BY <1>1, <2>1, Edits DEF Thread
  <2>3. PreSeed > 0 => plan # <<>>
    <3>1. Len(plan) = PreSeed
      BY <1>1
    <3>. HIDE DEF plan
    <3> QED
      BY <3>1, SimulatorAssumption
  <2>. HIDE DEF plan, first
  <2> QED
    BY <2>2, <2>3 DEF Ready, Publishing
<1>3. \A t \in Threads : Ready(thread[t])
  BY <1>2, Idles DEF Init
<1>4. thread \in [Threads -> Thread]
  BY <1>3 DEF Init, Ready
<1>5. \A t \in Threads :
          /\ thread[t].pc \in Publishing => thread[t].plan # <<>>
          /\ thread[t].pc = "clear_agents" => thread[t].agents # <<>>
  BY <1>3 DEF Ready
<1>6. /\ alive \in BOOLEAN /\ clash \in BOOLEAN /\ DOMAIN models = {}
      /\ bounds \subseteq SLA /\ live \in Seq(SLA) /\ portfolio \in [Agents -> Seq(SLA)]
      /\ stored \subseteq SLA /\ claims \subseteq Agents \X SLA /\ filed \in Seq(Agents \X SLA)
      /\ {nonces, ticks, requests, faults} \subseteq Nat
  <2>1. alive \in BOOLEAN /\ clash \in BOOLEAN /\ bounds \subseteq SLA /\ stored \subseteq SLA
    BY AlienSLA DEF Init
  <2>2. models = <<>> /\ live = <<>> /\ filed = <<>> /\ claims = {}
    BY DEF Init
  <2>3. DOMAIN models = {} /\ live \in Seq(SLA) /\ filed \in Seq(Agents \X SLA)
    BY <2>2
  <2>4. portfolio = [a \in Agents |-> <<>>]
    BY DEF Init
  <2>5. portfolio \in [Agents -> Seq(SLA)]
    BY <2>4
  <2>6. {nonces, ticks, requests, faults} \subseteq Nat
    BY SimulatorAssumption DEF Init
  <2> QED
    BY <2>1, <2>2, <2>3, <2>5, <2>6
<1>7. TypeOK
  BY <1>4, <1>5, <1>6 DEF TypeOK, Publishing
<1> QED
  BY <1>3, <1>7 DEF TypeInv

LEMMA ClashTyped == ASSUME TypeInv, Next PROVE clash' \in BOOLEAN
  BY DEF Next, Disturbs

LEMMA NextTyped == TypeInv /\ [Next]_vars => TypeInv'
<1> SUFFICES ASSUME TypeInv, [Next]_vars PROVE TypeInv'
  OBVIOUS
<1>1. CASE UNCHANGED vars
  BY <1>1 DEF vars, orchestrator, aggregator, counters, TypeInv, TypeOK
<1>2. CASE Next
  <2>1. clash' \in BOOLEAN
    BY <1>2, ClashTyped
  <2> QED
    BY <1>2, <2>1, TickTyped, PublishTyped, RequestTyped, ServiceTyped, FaultTyped
    DEF Next, RequestStep
<1> QED
  BY <1>1, <1>2

\* Types, and that a thread has what its next step takes, for every market and
\* any number of worker threads.
THEOREM SimulatorTypes == Spec => []TypeOK
<1>1. TypeInv => TypeOK
  BY DEF TypeInv
<1> QED
  BY <1>1, InitTyped, NextTyped, PTL DEF Spec

-----------------------------------------------------------------------------
(* The live loop survives what the scenarios do to the quality models.     *)

Clearing == {"wipe", "clear_models", "clear_bounds", "clear_live", "clear_agents"}

\* Which scenario takes which steps.
OnDuty(r) ==
    /\ r.pc \in Publishing => r.job \in {"reset", "cloud"}
    /\ r.pc \in Clearing => r.job = "reset"
    /\ r.pc = "visit" => r.job \in {"degrade", "fix"}
    /\ r.pc = "check" => r.job \in {"hospital", "degrade"}
    /\ r.pc = "write" => r.job \in {"hospital", "degrade", "fix"}

DutyInv == \A w \in Workers : OnDuty(thread[w])

\* What a thread at its step knows of the dictionaries: what it lists or writes
\* a model of has bounds, what fix_as walks has, what the tick measures has a model.
Sound(r, known, bounded) ==
    /\ r.pc = "list" => Head(r.plan) \in bounded
    /\ r.pc = "write" => r.sla \in bounded
    /\ r.pc \in {"visit", "write"} /\ r.job = "fix" => Range(r.todo) \subseteq bounded
    /\ r.pc = "measure" => r.sla \in known

\* As long as no thread disturbed another, an SLA without bounds has no model,
\* unless it is being published, and is not live, unless a reset is clearing.
Undisturbed ==
    ~clash =>
        /\ ~Disturbs
        /\ alive \/ faults > 0
        /\ \A s \in DOMAIN models \ bounds :
              \E t \in Threads : thread[t].pc = "bounds" /\ s = Head(thread[t].plan)
        /\ Range(live) \subseteq bounds \/ \E w \in Workers : thread[w].pc = "clear_live"
        /\ \A w \in Workers : thread[w].pc = "clear_bounds" => DOMAIN models = {}
        /\ \A t \in Threads : Sound(thread[t], DOMAIN models, bounds)

LEMMA MovedFields ==
    ASSUME TypeInv, NEW t \in Threads, NEW pc
    PROVE  /\ Moved(t, pc).pc = pc /\ Moved(t, pc).job = thread[t].job
           /\ Moved(t, pc).plan = thread[t].plan /\ Moved(t, pc).todo = thread[t].todo
           /\ Moved(t, pc).sla = thread[t].sla /\ Moved(t, pc).agents = thread[t].agents
           /\ Moved(t, pc).who = thread[t].who /\ Moved(t, pc).made = thread[t].made
  BY Typed DEF Moved, Thread

LEMMA GotoMoves ==
    ASSUME TypeInv, NEW t \in Threads, NEW next, Goto(t, next)
    PROVE  \A u \in Threads : thread'[u] = IF u = t THEN next ELSE thread[u]
  BY DEF TypeInv, TypeOK, Goto

LEMMA Apart == Loop \in Threads /\ \A w \in Workers : w \in Threads /\ w # Loop
  BY SimulatorAssumption DEF Threads

\* The one worker that is busy while nothing is disturbed.
LEMMA Alone ==
    ASSUME DutyInv, ~Disturbs, NEW w \in Workers, Busy(w)
    PROVE  /\ \A u \in Workers \ {w} : thread[u].pc = "idle"
           /\ thread[w].pc \in Publishing \cup Clearing => thread[Loop].pc = "idle"
  BY DEF DutyInv, OnDuty, Disturbs, Busy

\* A step that takes no model, no bounds and no SLA away.
LEMMA Grows ==
    ASSUME TypeInv, Undisturbed, ~clash, ~Disturbs', alive' \/ faults' > 0,
           NEW t \in Threads, NEW next, Goto(t, next),
           Sound(next, DOMAIN models', bounds'),
           DOMAIN models \subseteq DOMAIN models', bounds \subseteq bounds',
           \A s \in DOMAIN models' \ DOMAIN models :
              s \in bounds' \/ (next.pc = "bounds" /\ s = Head(next.plan)),
           thread[t].pc = "bounds" => Head(thread[t].plan) \in bounds',
           Range(live') \subseteq Range(live) \cup bounds', thread[t].pc # "clear_live",
           t \in Workers => next.pc # "clear_bounds",
           DOMAIN models' # DOMAIN models =>
              \A w \in Workers \ {t} : thread[w].pc # "clear_bounds"
    PROVE  Undisturbed'
<1>1. \A u \in Threads : thread'[u] = IF u = t THEN next ELSE thread[u]
  BY GotoMoves
<1>2. \A s \in DOMAIN models' \ bounds' :
          \E u \in Threads : thread'[u].pc = "bounds" /\ s = Head(thread'[u].plan)
  <2> TAKE s \in DOMAIN models' \ bounds'
  <2>1. CASE s \in DOMAIN models
    <3>1. PICK u \in Threads : thread[u].pc = "bounds" /\ s = Head(thread[u].plan)
      BY <2>1 DEF Undisturbed
    <3>2. u # t
      BY <3>1
    <3> QED
      BY <1>1, <3>1, <3>2
  <2>2. CASE s \notin DOMAIN models
    BY <1>1, <2>2
  <2> QED
    BY <2>1, <2>2
<1>3. Range(live') \subseteq bounds' \/ \E w \in Workers : thread'[w].pc = "clear_live"
  <2>1. CASE Range(live) \subseteq bounds
    BY <2>1
  <2>2. ASSUME NEW w \in Workers, thread[w].pc = "clear_live"
        PROVE  thread'[w].pc = "clear_live"
    BY <1>1, <2>2, Apart
  <2> QED
    BY <2>1, <2>2 DEF Undisturbed
<1>4. \A u \in Threads : Sound(thread'[u], DOMAIN models', bounds')
  <2> TAKE u \in Threads
  <2>1. CASE u = t
    BY <1>1, <2>1
  <2>2. CASE u # t
    <3>1. Sound(thread[u], DOMAIN models, bounds) /\ thread'[u] = thread[u]
      BY <1>1, <2>2 DEF Undisturbed
    <3> QED
      BY <3>1 DEF Sound
  <2> QED
    BY <2>1, <2>2
<1>5. \A w \in Workers : thread'[w].pc = "clear_bounds" => DOMAIN models' = {}
  BY <1>1, Apart DEF Undisturbed
<1> QED
  BY <1>2, <1>3, <1>4, <1>5 DEF Undisturbed

\* The same, when the dictionaries and the list are left alone.
LEMMA Leaves ==
    ASSUME TypeInv, Undisturbed, ~clash, ~Disturbs', alive' \/ faults' > 0,
           NEW t \in Threads, NEW next, Goto(t, next),
           Sound(next, DOMAIN models, bounds), UNCHANGED <<models, bounds, live>>,
           thread[t].pc \notin {"bounds", "clear_live"},
           t \in Workers => next.pc # "clear_bounds"
    PROVE  Undisturbed'
  BY Grows

LEMMA Quiet ==
    ASSUME NEW r, r.pc \notin {"list", "write", "visit", "measure"},
           NEW known, NEW bounded
    PROVE  Sound(r, known, bounded)
  BY DEF Sound

\* An undisturbed step began undisturbed.
LEMMA StillAlone ==
    ASSUME Next, ~clash'
    PROVE  ~clash /\ ~Disturbs'
  BY DEF Next

LEMMA DutyKeeps ==
    ASSUME TypeInv, DutyInv, NEW t \in Threads, NEW next, Goto(t, next),
           t \in Workers => OnDuty(next)
    PROVE  DutyInv'
<1>1. \A u \in Threads : thread'[u] = IF u = t THEN next ELSE thread[u]
  BY GotoMoves
<1> QED
  BY <1>1, Apart DEF DutyInv

\* A step that stays in its scenario's part of the program.
LEMMA MovedOnDuty ==
    ASSUME TypeInv, NEW w \in Workers, OnDuty(thread[w])
    PROVE  /\ OnDuty(Moved(w, "done")) /\ OnDuty(Moved(w, "failed"))
           /\ thread[w].pc \in Publishing \cup Clearing =>
                \A pc \in Publishing : OnDuty(Moved(w, pc))
           /\ thread[w].pc \in Clearing => \A pc \in Clearing : OnDuty(Moved(w, pc))
           /\ thread[w].job \in {"degrade", "fix"} => OnDuty(Moved(w, "visit"))
           /\ thread[w].job \in {"hospital", "degrade"} => OnDuty(Moved(w, "check"))
           /\ thread[w].job \in {"hospital", "degrade", "fix"} => OnDuty(Moved(w, "write"))
<1>1. w \in Threads
  BY Apart
<1>2. \A pc : Moved(w, pc).pc = pc /\ Moved(w, pc).job = thread[w].job
  BY <1>1, MovedFields
<1>3. /\ \A pc \in Publishing \cup Clearing : pc \notin {"visit", "check", "write"}
      /\ \A pc \in Publishing : pc \notin Clearing
  BY DEF Publishing, Clearing
<1>4. \A pc \in {"done", "failed", "visit", "check", "write"} : pc \notin Publishing \cup Clearing
  BY DEF Publishing, Clearing
<1> QED
  BY <1>2, <1>3, <1>4 DEF OnDuty

\* Only the place and the scenario matter.
LEMMA SameDuty ==
    ASSUME NEW r, NEW n, OnDuty(r), n.pc = r.pc, n.job = r.job
    PROVE  OnDuty(n)
  BY DEF OnDuty

LEMMA IdleOnDuty == OnDuty(Idle)
  BY Idles DEF OnDuty, Publishing, Clearing

LEMMA RequestDuty ==
    ASSUME TypeInv, DutyInv, NEW w \in Workers,
           \/ Reset(w) \/ HospitalReshops(w) \/ CloudBargain(w)
           \/ \E a \in Agents, scenario \in Scenarios : ChangeAS(w, scenario, a)
    PROVE  DutyInv'
<1>w. w \in Threads
  BY Apart
<1>j. \A scenario \in Scenarios : scenario \in Jobs
  BY StepNames
<1>1. CASE Reset(w)
  <2>. DEFINE n == [Start("reset", "wipe") EXCEPT !.plan = Drawn(Seeds(ReSeed))]
  <2>1. "reset" \in Scenarios
    BY <1>1 DEF Reset, Request
  <2>2. n.pc = "wipe" /\ n.job = "reset"
    BY <1>j, <2>1, Starts, StepNames DEF Thread
  <2>3. OnDuty(n)
    BY <2>2 DEF OnDuty
  <2>4. Goto(w, n)
    BY <1>1 DEF Reset
  <2> QED
    BY <1>w, <2>3, <2>4, DutyKeeps
<1>2. CASE HospitalReshops(w)
  <2>1. "hospital" \in Scenarios
    BY <1>2 DEF HospitalReshops, Request
  <2>2. ASSUME NEW s
        PROVE  OnDuty([Start("hospital", "check") EXCEPT !.sla = s])
    <3>1. /\ [Start("hospital", "check") EXCEPT !.sla = s].pc = "check"
          /\ [Start("hospital", "check") EXCEPT !.sla = s].job = "hospital"
      BY <1>j, <2>1, Starts, StepNames DEF Thread
    <3> QED
      BY <3>1 DEF OnDuty, Publishing, Clearing
  <2>3. OnDuty(Start("hospital", "failed"))
    BY <1>j, <2>1, Starts, StepNames DEF OnDuty, Publishing, Clearing
  <2>4. PICK n : Goto(w, n) /\ OnDuty(n)
    BY <1>2, <2>2, <2>3 DEF HospitalReshops
  <2> QED
    BY <1>w, <2>4, DutyKeeps
<1>3. CASE CloudBargain(w)
  <2>. DEFINE n == [Start("cloud", "post") EXCEPT !.plan = Drawn(<<Bargain>>)]
  <2>1. "cloud" \in Scenarios
    BY <1>3 DEF CloudBargain, Request
  <2>2. n.pc = "post" /\ n.job = "cloud"
    BY <1>j, <2>1, Starts, StepNames DEF Thread
  <2>3. OnDuty(n)
    BY <2>2 DEF OnDuty, Publishing, Clearing
  <2>4. Goto(w, n)
    BY <1>3 DEF CloudBargain
  <2> QED
    BY <1>w, <2>3, <2>4, DutyKeeps
<1>4. ASSUME NEW a \in Agents, NEW scenario \in Scenarios, ChangeAS(w, scenario, a)
      PROVE  DutyInv'
  <2>. DEFINE n == [Start(scenario, "visit") EXCEPT
                       !.who = a, !.todo = live, !.scope = Range(live)]
  <2>1. n.pc = "visit" /\ n.job = scenario /\ scenario \in {"degrade", "fix"}
    <3>1. scenario \in {"degrade", "fix"}
      BY <1>4 DEF ChangeAS
    <3>2. /\ Start(scenario, "visit") \in Thread /\ Start(scenario, "visit").pc = "visit"
          /\ Start(scenario, "visit").job = scenario
      BY <1>j, Starts, StepNames
    <3> QED
      BY <3>1, <3>2 DEF Thread
  <2>2. OnDuty(n)
    BY <2>1 DEF OnDuty, Publishing, Clearing
  <2>3. Goto(w, n)
    BY <1>4 DEF ChangeAS
  <2> QED
    BY <1>w, <2>2, <2>3, DutyKeeps
<1> QED
  BY <1>1, <1>2, <1>3, <1>4

LEMMA ServiceDuty ==
    ASSUME TypeInv, DutyInv, NEW w \in Workers,
           \/ Wipe(w) \/ ClearModels(w) \/ ClearBounds(w) \/ ClearLive(w)
           \/ ClearAgent(w) \/ Visit(w) \/ CheckBounds(w) \/ WriteModel(w) \/ Answer(w)
    PROVE  DutyInv'
<1>. DEFINE r == thread[w]
<1>r. w \in Threads /\ OnDuty(r) /\ r \in Thread
  BY Apart, Typed DEF DutyInv
<1>1. CASE Wipe(w)
  <2>1. OnDuty(Moved(w, "clear_models"))
    BY <1>1, <1>r, MovedOnDuty DEF Wipe, At, Clearing
  <2> QED
    BY <1>1, <1>r, <2>1, DutyKeeps DEF Wipe
<1>2. CASE ClearModels(w)
  <2>1. OnDuty(Moved(w, "clear_bounds"))
    BY <1>2, <1>r, MovedOnDuty DEF ClearModels, At, Clearing
  <2> QED
    BY <1>2, <1>r, <2>1, DutyKeeps DEF ClearModels
<1>3. CASE ClearBounds(w)
  <2>1. OnDuty(Moved(w, "clear_live"))
    BY <1>3, <1>r, MovedOnDuty DEF ClearBounds, At, Clearing
  <2> QED
    BY <1>3, <1>r, <2>1, DutyKeeps DEF ClearBounds
<1>4. CASE ClearLive(w)
  <2>. DEFINE n == [Moved(w, "clear_agents") EXCEPT !.agents = AgentList]
  <2>1. OnDuty(Moved(w, "clear_agents"))
    BY <1>4, <1>r, MovedOnDuty DEF ClearLive, At, Clearing
  <2>2. n.pc = Moved(w, "clear_agents").pc /\ n.job = Moved(w, "clear_agents").job
    BY <1>r DEF Moved, Thread
  <2>3. OnDuty(n)
    BY <2>1, <2>2, SameDuty
  <2> QED
    BY <1>4, <1>r, <2>3, DutyKeeps DEF ClearLive
<1>5. CASE ClearAgent(w)
  <2>. DEFINE left == Tail(r.agents)
              pc == IF left # <<>> THEN "clear_agents"
                    ELSE IF r.plan = <<>> THEN "done" ELSE "post"
              n == [Moved(w, pc) EXCEPT !.agents = left]
  <2>1. OnDuty(Moved(w, pc))
    BY <1>5, <1>r, MovedOnDuty DEF ClearAgent, At, Clearing, Publishing
  <2>2. n.pc = Moved(w, pc).pc /\ n.job = Moved(w, pc).job
    BY <1>r DEF Moved, Thread
  <2>3. OnDuty(n)
    BY <2>1, <2>2, SameDuty
  <2> QED
    BY <1>5, <1>r, <2>3, DutyKeeps DEF ClearAgent
<1>6. CASE Visit(w)
  <2>0. r.pc = "visit" /\ r.job \in {"degrade", "fix"}
    BY <1>6, <1>r DEF Visit, At, OnDuty
  <2>1. ASSUME NEW pc \in {"visit", "write", "check"}, pc = "check" => r.job = "degrade"
        PROVE  OnDuty([Moved(w, pc) EXCEPT !.sla = Head(r.todo), !.todo = Tail(@)])
    <3>. DEFINE n == [Moved(w, pc) EXCEPT !.sla = Head(r.todo), !.todo = Tail(@)]
    <3>1. OnDuty(Moved(w, pc))
      BY <1>r, <2>0, <2>1, MovedOnDuty
    <3>2. n.pc = Moved(w, pc).pc /\ n.job = Moved(w, pc).job
      BY <1>r DEF Moved, Thread
    <3> QED
      BY <3>1, <3>2, SameDuty
  <2>2. OnDuty(Moved(w, "done"))
    BY <1>r, MovedOnDuty
  <2>3. PICK n : Goto(w, n) /\ OnDuty(n)
    BY <1>6, <2>1, <2>2 DEF Visit
  <2> QED
    BY <1>r, <2>3, DutyKeeps
<1>7. CASE CheckBounds(w)
  <2>1. OnDuty(Moved(w, "write")) /\ OnDuty(Moved(w, "failed"))
    BY <1>7, <1>r, MovedOnDuty DEF CheckBounds, At, OnDuty
  <2> QED
    BY <1>7, <1>r, <2>1, DutyKeeps DEF CheckBounds
<1>8. CASE WriteModel(w)
  <2>1. r.job # "hospital" => OnDuty(Moved(w, "visit"))
    BY <1>8, <1>r, MovedOnDuty DEF WriteModel, At, OnDuty
  <2>2. OnDuty(Moved(w, "done"))
    BY <1>r, MovedOnDuty
  <2> QED
    BY <1>8, <1>r, <2>1, <2>2, DutyKeeps DEF WriteModel
<1>9. CASE Answer(w)
  BY <1>9, <1>r, IdleOnDuty, DutyKeeps DEF Answer
<1> QED
  BY <1>1, <1>2, <1>3, <1>4, <1>5, <1>6, <1>7, <1>8, <1>9

LEMMA PublishDuty ==
    ASSUME TypeInv, DutyInv, NEW t \in Threads, Publish(t)
    PROVE  DutyInv'
<1>1. thread[t].pc \in Publishing
  BY DEF Publish, PostSLA, PutModel, PutBounds, ListLive, At, Publishing
<1>2. t \in Workers => /\ OnDuty(thread[t]) /\ thread[t].job \in {"reset", "cloud"}
  BY <1>1 DEF DutyInv, OnDuty
<1>3. ASSUME t \in Workers, NEW pc \in Publishing \cup {"done"}
      PROVE  OnDuty(Moved(t, pc))
  BY <1>1, <1>2, <1>3, MovedOnDuty
<1>4. t \in Workers => OnDuty(AfterPublishing(t))
  <2> SUFFICES ASSUME t \in Workers PROVE OnDuty(AfterPublishing(t))
    OBVIOUS
  <2>1. ASSUME NEW pc \in {"post", "done"}
        PROVE  OnDuty([Moved(t, pc) EXCEPT !.plan = Tail(thread[t].plan)])
    <3>1. OnDuty(Moved(t, pc))
      BY <1>3 DEF Publishing
    <3>2. /\ [Moved(t, pc) EXCEPT !.plan = Tail(thread[t].plan)].pc = Moved(t, pc).pc
          /\ [Moved(t, pc) EXCEPT !.plan = Tail(thread[t].plan)].job = Moved(t, pc).job
      BY Typed DEF Moved, Thread
    <3> QED
      BY <3>1, <3>2, SameDuty
  <2> QED
    BY <1>2, <2>1, IdleOnDuty DEF AfterPublishing
<1>5. PICK next : Goto(t, next) /\ (t \in Workers => OnDuty(next))
  BY <1>3, <1>4 DEF Publish, PostSLA, PutModel, PutBounds, ListLive, Publishing
<1> QED
  BY <1>5, DutyKeeps

LEMMA TickDuty ==
    ASSUME TypeInv, DutyInv, TickStep
    PROVE  DutyInv'
<1>1. \A w \in Workers : thread'[w] = thread[w]
  BY Apart DEF TickStep, StartTick, ReadMarket, PostClaim, AppendClaim, EndShopping, Shop,
     NextAgent, NextClaim, Measure, Die, GetSLA, FileComplaint, Goto, TypeInv, TypeOK
<1> QED
  BY <1>1 DEF DutyInv

LEMMA FaultDuty ==
    ASSUME TypeInv, DutyInv, NEW t \in Threads, CallFails(t)
    PROVE  DutyInv'
<1>1. CASE t = Loop
  BY <1>1 DEF CallFails, DutyInv
<1>2. CASE t # Loop
  <2>1. t \in Workers /\ OnDuty(thread[t])
    BY <1>2 DEF Threads, DutyInv
  <2>2. OnDuty(Moved(t, "failed"))
    BY <2>1, MovedOnDuty
  <2> QED
    BY <1>2, <2>2, DutyKeeps DEF CallFails
<1> QED
  BY <1>1, <1>2

LEMMA NextDuty == TypeInv /\ DutyInv /\ [Next]_vars => DutyInv'
<1> SUFFICES ASSUME TypeInv, DutyInv, [Next]_vars PROVE DutyInv'
  OBVIOUS
<1>1. CASE UNCHANGED vars
  BY <1>1 DEF vars, DutyInv
<1>2. CASE Next
  BY <1>2, TickDuty, PublishDuty, RequestDuty, ServiceDuty, FaultDuty DEF Next, RequestStep
<1> QED
  BY <1>1, <1>2

LEMMA PublishUndisturbed ==
    ASSUME TypeInv, DutyInv, Undisturbed, ~clash, ~Disturbs', NEW t \in Threads, Publish(t)
    PROVE  Undisturbed'
<1>1. thread[t].pc \in Publishing /\ (alive \/ faults > 0) /\ ~Disturbs
  BY DEF Publish, PostSLA, PutModel, PutBounds, ListLive, At, Publishing, Undisturbed
<1>2. Published(t) = Head(thread[t].plan)
  BY DEF Published
\* A reset that clears the bounds would be beside this publication.
<1>3. \A w \in Workers \ {t} : thread[w].pc # "clear_bounds"
  <2> SUFFICES ASSUME NEW w \in Workers \ {t}, thread[w].pc = "clear_bounds" PROVE FALSE
    OBVIOUS
  <2>1. Busy(w) /\ Busy(t) /\ thread[w].pc \in Publishing \cup Clearing
    BY <1>1 DEF Busy, Publishing, Clearing
  <2> QED
    BY <1>1, <2>1, Alone DEF Busy, Threads
<1>4. CASE PostSLA(t)
  <2>1. Sound(Moved(t, "model"), DOMAIN models, bounds) /\ Moved(t, "model").pc = "model"
    BY MovedFields, Quiet
  <2> QED
    BY <1>1, <1>4, <2>1, Leaves DEF PostSLA, At, orchestrator, counters
<1>5. CASE PutModel(t)
  <2>1. Sound(Moved(t, "bounds"), DOMAIN models', bounds')
    BY MovedFields, Quiet
  <2>2. DOMAIN models' = DOMAIN models \cup {Published(t)}
    BY <1>5 DEF PutModel, WithModel
  <2>3. Moved(t, "bounds").pc = "bounds" /\ Published(t) = Head(Moved(t, "bounds").plan)
    BY <1>2, MovedFields
  <2>4. Goto(t, Moved(t, "bounds")) /\ UNCHANGED <<alive, bounds, live, faults>>
    BY <1>5 DEF PutModel, counters
  <2>5. thread[t].pc = "model"
    BY <1>5 DEF PutModel, At
  <2> QED
    BY <1>1, <1>3, <2>1, <2>2, <2>3, <2>4, <2>5, Grows
<1>6. CASE PutBounds(t)
  <2>1. /\ bounds' = bounds \cup {Published(t)} /\ Goto(t, Moved(t, "list"))
        /\ UNCHANGED <<alive, models, live, faults>> /\ thread[t].pc = "bounds"
    BY <1>6 DEF PutBounds, At, counters
  <2>2. Sound(Moved(t, "list"), DOMAIN models', bounds') /\ Moved(t, "list").pc = "list"
    BY <1>2, <2>1, MovedFields DEF Sound
  <2> QED
    BY <1>1, <1>2, <2>1, <2>2, Grows
<1>7. CASE ListLive(t)
  <2>1. /\ live' = Append(live, Published(t)) /\ Goto(t, AfterPublishing(t))
        /\ UNCHANGED <<alive, models, bounds, faults>> /\ thread[t].pc = "list"
    BY <1>7 DEF ListLive, At, counters
  <2>2. Published(t) \in bounds
    BY <1>2, <2>1 DEF Undisturbed, Sound
  <2>3. Range(live') = Range(live) \cup {Published(t)}
    BY <1>1, <2>1, Typed, PublishedSLA, RangeSeq
  <2>4. /\ Sound(AfterPublishing(t), DOMAIN models', bounds')
        /\ AfterPublishing(t).pc # "clear_bounds"
    <3>1. ASSUME NEW pc \in {"post", "market", "done"}
          PROVE  [Moved(t, pc) EXCEPT !.plan = Tail(thread[t].plan)].pc = pc
      BY Typed DEF Moved, Thread
    <3>2. AfterPublishing(t).pc \in {"idle", "post", "market", "done"}
      BY <3>1, Idles DEF AfterPublishing
    <3> QED
      BY <3>2, Quiet
  <2> QED
    BY <1>1, <2>1, <2>2, <2>3, <2>4, Grows
<1> QED
  BY <1>4, <1>5, <1>6, <1>7 DEF Publish

LEMMA TickUndisturbed ==
    ASSUME TypeInv, DutyInv, Undisturbed, ~clash, ~Disturbs', TickStep
    PROVE  Undisturbed'
<1>. DEFINE r == thread[Loop]
<1>r. /\ r \in Thread /\ Loop \in Threads /\ (alive \/ faults > 0) /\ ~Disturbs
      /\ Sound(r, DOMAIN models, bounds)
  BY Typed, Apart DEF Undisturbed
\* What the tick measures has its model, and its bounds with it.
<1>1. Measure => r.sla \in DOMAIN models /\ r.sla \in bounds
  <2> SUFFICES ASSUME Measure PROVE r.sla \in DOMAIN models /\ r.sla \in bounds
    OBVIOUS
  <2>1. r.pc = "measure" /\ r.sla \in DOMAIN models
    BY <1>r DEF Measure, At, Sound
  <2>2. ASSUME r.sla \notin bounds PROVE FALSE
    <3>1. PICK t \in Threads : thread[t].pc = "bounds" /\ r.sla = Head(thread[t].plan)
      BY <2>1, <2>2 DEF Undisturbed
    <3>2. t \in Workers /\ Busy(t) /\ thread[t].pc \in Publishing
      BY <2>1, <3>1 DEF Threads, Busy, Publishing
    <3> QED
      BY <1>r, <2>1, <3>2, Alone
  <2> QED
    BY <2>1, <2>2
<1>2. \E n : /\ Goto(Loop, n) /\ Sound(n, DOMAIN models, bounds)
             /\ r.pc \notin {"bounds", "clear_live"}
             /\ UNCHANGED <<alive, models, bounds, live, faults>>
  <2>1. CASE StartTick
    <3>0. Start("tick", "post") \in Thread /\ Start("tick", "post").pc = "post"
      BY Starts, StepNames
    <3>1. ASSUME NEW plan
          PROVE  [Start("tick", "post") EXCEPT !.plan = plan].pc = "post"
      BY <3>0 DEF Thread
    <3>2. Start("tick", "market").pc = "market"
      BY Starts, StepNames
    <3>3. PICK n : Goto(Loop, n) /\ n.pc \in {"post", "market"}
      BY <2>1, <3>1, <3>2 DEF StartTick
    <3> QED
      BY <2>1, <3>3, Quiet DEF StartTick, At, orchestrator
  <2>2. CASE ReadMarket
    <3>1. [Moved(Loop, "shop") EXCEPT !.market = stored, !.rest = Buyers].pc = "shop"
      BY <1>r DEF Moved, Thread
    <3> QED
      BY <2>2, <3>1, Quiet DEF ReadMarket, At, orchestrator, counters
  <2>3. CASE PostClaim
    <3>1. Moved(Loop, "append").pc = "append"
      BY <1>r, MovedFields
    <3> QED
      BY <2>3, <3>1, Quiet DEF PostClaim, At, orchestrator, counters
  <2>4. CASE AppendClaim
    <3>1. [Moved(Loop, "shop") EXCEPT !.made = @ + 1].pc = "shop"
      BY <1>r DEF Moved, Thread
    <3> QED
      BY <2>4, <3>1, Quiet DEF AppendClaim, At, counters
  <2>5. CASE EndShopping
    <3>0. Start("tick", "sample") \in Thread /\ Start("tick", "sample").pc = "sample"
      BY Starts, StepNames
    <3>1. [Start("tick", "sample") EXCEPT !.agents = AgentList].pc = "sample"
      BY <3>0 DEF Thread
    <3> QED
      BY <2>5, <3>1, Quiet DEF EndShopping, At, orchestrator, counters
  <2>6. ASSUME NEW a \in Buyers, Shop(a)
        PROVE  \E n : /\ Goto(Loop, n) /\ Sound(n, DOMAIN models, bounds)
                      /\ r.pc \notin {"bounds", "clear_live"}
                      /\ UNCHANGED <<alive, models, bounds, live, faults>>
    <3>1. \A s : [Moved(Loop, "claim") EXCEPT !.sla = s, !.who = a, !.rest = @ \ {a}].pc = "claim"
      BY <1>r DEF Moved, Thread
    <3>2. r.pc = "shop" /\ [r EXCEPT !.rest = @ \ {a}].pc = "shop"
      BY <1>r, <2>6 DEF Shop, At, Thread
    <3>3. PICK n : Goto(Loop, n) /\ n.pc \in {"claim", "shop"}
      BY <2>6, <3>1, <3>2 DEF Shop
    <3> QED
      BY <2>6, <3>2, <3>3, Quiet DEF Shop, orchestrator, counters
  <2>7. CASE NextAgent
    <3>1. r.pc = "sample"
      BY <2>7 DEF NextAgent, At
    <3>. DEFINE a == Head(r.agents)
    <3>2. [r EXCEPT !.agents = Tail(@), !.who = a, !.todo = portfolio[a]].pc = "sample"
      BY <1>r, <3>1 DEF Thread
    <3>3. PICK n : Goto(Loop, n) /\ n.pc \in {"idle", "sample"}
      BY <2>7, <3>2, Idles DEF NextAgent
    <3> QED
      BY <2>7, <3>1, <3>3, Quiet DEF NextAgent, orchestrator, counters
  <2>8. CASE NextClaim
    <3>. DEFINE s == Head(r.todo)
                n == [r EXCEPT !.sla = s, !.todo = Tail(@),
                               !.pc = IF s \in DOMAIN models THEN "measure" ELSE @]
    <3>1. r.pc = "sample" /\ Goto(Loop, n)
      BY <2>8 DEF NextClaim, At
    <3>2. n.pc = (IF s \in DOMAIN models THEN "measure" ELSE "sample") /\ n.sla = s
      BY <1>r, <3>1 DEF Thread
    <3>3. Sound(n, DOMAIN models, bounds)
      <4>. HIDE DEF n, s
      <4> QED
        BY <3>2 DEF Sound
    <3> QED
      BY <2>8, <3>1, <3>3 DEF NextClaim, orchestrator, counters
  <2>9. CASE Measure
    <3>1. \A bad : [Moved(Loop, "get") EXCEPT !.bad = bad].pc = "get"
      BY <1>r DEF Moved, Thread
    <3>2. r.pc = "measure" /\ UNCHANGED <<alive, orchestrator, counters>>
      BY <1>1, <2>9 DEF Measure, At
    <3>3. PICK n : Goto(Loop, n) /\ n.pc = "get"
      BY <1>1, <2>9, <3>1 DEF Measure
    <3> QED
      BY <3>2, <3>3, Quiet DEF orchestrator, counters
  <2>10. CASE GetSLA
    <3>1. \A pc : [Moved(Loop, pc) EXCEPT !.bad = FALSE].pc = pc
      BY <1>r DEF Moved, Thread
    <3>2. PICK n : Goto(Loop, n) /\ n.pc \in {"file", "sample"}
      BY <2>10, <3>1 DEF GetSLA
    <3> QED
      BY <2>10, <3>2, Quiet DEF GetSLA, At, orchestrator, counters
  <2>11. CASE FileComplaint
    <3>1. Moved(Loop, "sample").pc = "sample"
      BY <1>r, MovedFields
    <3> QED
      BY <2>11, <3>1, Quiet DEF FileComplaint, At, orchestrator, counters
  <2> QED
    BY <2>1, <2>2, <2>3, <2>4, <2>5, <2>6, <2>7, <2>8, <2>9, <2>10, <2>11 DEF TickStep
<1> QED
  BY <1>r, <1>2, Apart, Leaves

LEMMA RequestUndisturbed ==
    ASSUME TypeInv, DutyInv, Undisturbed, ~clash, ~Disturbs', NEW w \in Workers,
           \/ Reset(w) \/ HospitalReshops(w) \/ CloudBargain(w)
           \/ \E a \in Agents, scenario \in Scenarios : ChangeAS(w, scenario, a)
    PROVE  Undisturbed'
<1>w. w \in Threads /\ (alive \/ faults > 0)
  BY Apart DEF Undisturbed
<1>q. /\ UNCHANGED <<alive, models, bounds, live, faults>> /\ thread[w].pc = "idle"
  BY DEF Reset, HospitalReshops, CloudBargain, ChangeAS, Request, orchestrator
<1>j. \A scenario \in Scenarios : scenario \in Jobs
  BY StepNames
<1>1. CASE Reset(w)
  <2>. DEFINE n == [Start("reset", "wipe") EXCEPT !.plan = Drawn(Seeds(ReSeed))]
  <2>1. "reset" \in Jobs
    BY <1>1, <1>j DEF Reset, Request
  <2>2. Start("reset", "wipe") \in Thread /\ Start("reset", "wipe").pc = "wipe"
    BY <2>1, Starts, StepNames
  <2>3. n.pc = "wipe" /\ Goto(w, n)
    BY <1>1, <2>2 DEF Thread, Reset
  <2> QED
    BY <1>w, <1>q, <2>3, Quiet, Leaves
<1>2. CASE HospitalReshops(w)
  <2>1. "hospital" \in Jobs
    BY <1>2, <1>j DEF HospitalReshops, Request
  <2>2. /\ Start("hospital", "check") \in Thread /\ Start("hospital", "check").pc = "check"
        /\ Start("hospital", "failed").pc = "failed"
    BY <2>1, Starts, StepNames
  <2>3. \A s : [Start("hospital", "check") EXCEPT !.sla = s].pc = "check"
    BY <2>2 DEF Thread
  <2>4. PICK n : Goto(w, n) /\ n.pc \in {"check", "failed"}
    BY <1>2, <2>2, <2>3 DEF HospitalReshops
  <2> QED
    BY <1>w, <1>q, <2>4, Quiet, Leaves
<1>3. CASE CloudBargain(w)
  <2>. DEFINE n == [Start("cloud", "post") EXCEPT !.plan = Drawn(<<Bargain>>)]
  <2>1. "cloud" \in Jobs
    BY <1>3, <1>j DEF CloudBargain, Request
  <2>2. Start("cloud", "post") \in Thread /\ Start("cloud", "post").pc = "post"
    BY <2>1, Starts, StepNames
  <2>3. n.pc = "post" /\ Goto(w, n)
    BY <1>3, <2>2 DEF Thread, CloudBargain
  <2> QED
    BY <1>w, <1>q, <2>3, Quiet, Leaves
<1>4. ASSUME NEW a \in Agents, NEW scenario \in Scenarios, ChangeAS(w, scenario, a)
      PROVE  Undisturbed'
  <2>. DEFINE n == [Start(scenario, "visit") EXCEPT
                       !.who = a, !.todo = live, !.scope = Range(live)]
  <2>1. Start(scenario, "visit") \in Thread /\ Start(scenario, "visit").pc = "visit"
    BY <1>j, Starts, StepNames
  <2>2. n.pc = "visit" /\ n.todo = live /\ Goto(w, n)
    BY <1>4, <2>1 DEF Thread, ChangeAS
\* A reset that clears the list would be beside this request.
  <2>3. Range(live) \subseteq bounds
    <3> SUFFICES ASSUME NEW v \in Workers, thread[v].pc = "clear_live" PROVE FALSE
      BY DEF Undisturbed
    <3>1. thread'[v].pc = "clear_live" /\ thread'[w].pc = "visit" /\ v # w
      BY <1>w, <1>q, <2>2, GotoMoves, Apart
    <3>2. Busy(v)' /\ Busy(w)'
      BY <3>1 DEF Busy
    <3> QED
      BY <3>1, <3>2 DEF Disturbs
  <2>4. Sound(n, DOMAIN models, bounds)
    BY <2>2, <2>3 DEF Sound
  <2> QED
    BY <1>w, <1>q, <2>2, <2>4, Leaves
<1> QED
  BY <1>1, <1>2, <1>3, <1>4

\* A reset that is clearing is alone.
LEMMA ResetAlone ==
    ASSUME TypeInv, DutyInv, Undisturbed, ~clash, ~Disturbs',
           NEW w \in Workers, thread[w].pc \in Clearing, NEW next, Goto(w, next),
           Sound(next, DOMAIN models', bounds'), alive' \/ faults' > 0,
           DOMAIN models' \subseteq bounds',
           Range(live') \subseteq bounds' \/ next.pc = "clear_live",
           next.pc = "clear_bounds" => DOMAIN models' = {}
    PROVE  Undisturbed'
<1>1. Busy(w) /\ ~Disturbs
  BY DEF Busy, Clearing, Undisturbed
<1>2. \A u \in Threads \ {w} : thread[u].pc = "idle"
  BY <1>1, Alone DEF Threads
<1>3. \A u \in Threads : thread'[u] = IF u = w THEN next ELSE thread[u]
  BY GotoMoves, Apart
<1>4. \A u \in Threads : Sound(thread'[u], DOMAIN models', bounds')
  BY <1>2, <1>3, Quiet
<1>5. Range(live') \subseteq bounds' \/ \E v \in Workers : thread'[v].pc = "clear_live"
  BY <1>3, Apart
<1>6. \A v \in Workers : thread'[v].pc = "clear_bounds" => DOMAIN models' = {}
  BY <1>2, <1>3, Apart
<1> QED
  BY <1>4, <1>5, <1>6 DEF Undisturbed

LEMMA ServiceUndisturbed ==
    ASSUME TypeInv, DutyInv, Undisturbed, ~clash, ~Disturbs', NEW w \in Workers,
           \/ Wipe(w) \/ ClearModels(w) \/ ClearBounds(w) \/ ClearLive(w)
           \/ ClearAgent(w) \/ Visit(w) \/ CheckBounds(w) \/ WriteModel(w) \/ Answer(w)
    PROVE  Undisturbed'
<1>. DEFINE r == thread[w]
<1>r. /\ w \in Threads /\ r \in Thread /\ r.todo \in Seq(SLA) /\ (alive \/ faults > 0)
      /\ OnDuty(r) /\ Sound(r, DOMAIN models, bounds) /\ ~Disturbs /\ faults \in Nat
  BY Apart, Typed, Fields DEF Undisturbed, DutyInv
<1>m. \A pc : Moved(w, pc).pc = pc /\ Moved(w, pc).job = r.job /\ Moved(w, pc).todo = r.todo
                /\ Moved(w, pc).sla = r.sla
  BY <1>r, MovedFields
<1>1. CASE Wipe(w)
  <2>1. Sound(Moved(w, "clear_models"), DOMAIN models, bounds)
    BY <1>m, Quiet
  <2>2. alive' = alive /\ (faults' = faults \/ faults' = faults + 1)
    BY <1>1 DEF Wipe
  <2>3. alive' \/ faults' > 0
    BY <1>r, <2>2
  <2>4. /\ Goto(w, Moved(w, "clear_models")) /\ UNCHANGED <<models, bounds, live>>
        /\ r.pc = "wipe"
    BY <1>1 DEF Wipe, At, orchestrator
  <2> QED
    BY <1>r, <1>m, <2>1, <2>3, <2>4, Leaves
<1>2. CASE ClearModels(w)
  <2>1. /\ models' = <<>> /\ Goto(w, Moved(w, "clear_bounds")) /\ r.pc = "clear_models"
        /\ UNCHANGED <<alive, bounds, live, faults>>
    BY <1>2 DEF ClearModels, At, counters
  <2>2. DOMAIN models' = {}
    BY <2>1
  <2>3. Sound(Moved(w, "clear_bounds"), DOMAIN models', bounds')
    BY <1>m, <2>2 DEF Sound
  <2>4. \A v \in Workers : thread[v].pc # "clear_live"
    BY <1>r, <2>1, Alone DEF Busy
  <2>5. Range(live') \subseteq bounds'
    BY <2>1, <2>4 DEF Undisturbed
  <2> QED
    BY <1>r, <2>1, <2>2, <2>3, <2>5, ResetAlone DEF Clearing
<1>3. CASE ClearBounds(w)
  <2>1. /\ bounds' = {} /\ Goto(w, Moved(w, "clear_live")) /\ r.pc = "clear_bounds"
        /\ UNCHANGED <<alive, models, live, faults>>
    BY <1>3 DEF ClearBounds, At, counters
  <2>2. DOMAIN models' = {}
    BY <1>r, <2>1 DEF Undisturbed
  <2>3. Sound(Moved(w, "clear_live"), DOMAIN models', bounds')
    BY <1>m, Quiet
  <2> QED
    BY <1>m, <1>r, <2>1, <2>2, <2>3, ResetAlone DEF Clearing
<1>4. CASE ClearLive(w)
  <2>. DEFINE n == [Moved(w, "clear_agents") EXCEPT !.agents = AgentList]
  <2>1. /\ live' = <<>> /\ Goto(w, n) /\ r.pc = "clear_live"
        /\ UNCHANGED <<alive, models, bounds, faults>>
    BY <1>4 DEF ClearLive, At, counters
  <2>2. n.pc = "clear_agents"
    BY <1>r DEF Moved, Thread
  <2>3. Sound(n, DOMAIN models', bounds')
    BY <2>2, Quiet
  <2>4. Range(live') \subseteq bounds'
    BY <2>1 DEF Range
  <2>5. DOMAIN models' \subseteq bounds'
    <3>1. \A u \in Threads : thread[u].pc # "bounds"
      BY <1>r, <2>1, Alone DEF Busy, Clearing, Threads
    <3> QED
      BY <2>1, <3>1 DEF Undisturbed
  <2> QED
    BY <1>r, <2>1, <2>2, <2>3, <2>4, <2>5, ResetAlone DEF Clearing
<1>5. CASE ClearAgent(w)
  <2>. DEFINE left == Tail(r.agents)
              pc == IF left # <<>> THEN "clear_agents"
                    ELSE IF r.plan = <<>> THEN "done" ELSE "post"
              n == [Moved(w, pc) EXCEPT !.agents = left]
  <2>1. n.pc = pc /\ pc \in {"clear_agents", "done", "post"}
    BY <1>r DEF Moved, Thread
  <2>2. Goto(w, n) /\ r.pc = "clear_agents" /\ UNCHANGED <<alive, models, bounds, live, faults>>
    BY <1>5 DEF ClearAgent, At, counters
  <2>. HIDE DEF n, pc
  <2>3. Sound(n, DOMAIN models, bounds)
    BY <2>1, Quiet
  <2> QED
    BY <1>r, <2>1, <2>2, <2>3, Leaves
<1>6. CASE Visit(w)
  <2>1. r.pc = "visit" /\ UNCHANGED <<alive, models, bounds, live, faults>>
    BY <1>6 DEF Visit, At, orchestrator, counters
  <2>2. Sound(Moved(w, "done"), DOMAIN models, bounds)
    BY <1>m, Quiet
  <2>3. ASSUME r.todo # <<>>, NEW pc \in {"visit", "write", "check"},
               pc = "write" => r.job = "fix", pc = "check" => r.job = "degrade"
        PROVE  LET n == [Moved(w, pc) EXCEPT !.sla = Head(r.todo), !.todo = Tail(@)]
               IN  Sound(n, DOMAIN models, bounds) /\ n.pc # "clear_bounds"
    <3>. DEFINE n == [Moved(w, pc) EXCEPT !.sla = Head(r.todo), !.todo = Tail(@)]
    <3>1. /\ n.pc = pc /\ n.job = r.job /\ n.sla = Head(r.todo) /\ n.todo = Tail(r.todo)
      BY <1>r DEF Moved, Thread
    <3>2. r.job = "fix" => Range(r.todo) \subseteq bounds
      BY <1>r, <2>1 DEF Sound
    <3>3. r.job = "fix" => Head(r.todo) \in bounds /\ Range(Tail(r.todo)) \subseteq bounds
      BY <1>r, <2>3, <3>2, RangeSeq
    <3>. HIDE DEF n
    <3>4. n.pc # "measure" /\ n.pc # "list" /\ n.pc # "clear_bounds"
      BY <3>1
    <3>5. Sound(n, DOMAIN models, bounds)
      <4>1. n.pc = "write" => n.sla \in bounds
        BY <2>3, <3>1, <3>3
      <4>2. n.job = "fix" => Range(n.todo) \subseteq bounds
        BY <3>1, <3>3
      <4> QED
        BY <3>4, <4>1, <4>2 DEF Sound
    <3> QED
      BY <3>4, <3>5, Zenon DEF n
  <2>4. r.job \in {"degrade", "fix"}
    BY <1>r, <2>1 DEF OnDuty
  <2>5. PICK n : Goto(w, n) /\ Sound(n, DOMAIN models, bounds) /\ n.pc # "clear_bounds"
    BY <1>6, <1>m, <2>2, <2>3, <2>4 DEF Visit
  <2> QED
    BY <1>r, <2>1, <2>5, Leaves
<1>7. CASE CheckBounds(w)
  <2>1. r.pc = "check" /\ UNCHANGED <<alive, models, bounds, live, faults>>
    BY <1>7 DEF CheckBounds, At, orchestrator, counters
  <2>2. r.job # "fix"
    BY <1>r, <2>1 DEF OnDuty
  <2>3. /\ Sound(Moved(w, "failed"), DOMAIN models, bounds)
        /\ r.sla \in bounds => Sound(Moved(w, "write"), DOMAIN models, bounds)
    BY <1>m, <2>2 DEF Sound
  <2>4. PICK n : Goto(w, n) /\ Sound(n, DOMAIN models, bounds) /\ n.pc # "clear_bounds"
    BY <1>7, <1>m, <2>3 DEF CheckBounds
  <2> QED
    BY <1>r, <2>1, <2>4, Leaves
<1>8. CASE WriteModel(w)
  <2>. DEFINE pc == IF r.job = "hospital" THEN "done" ELSE "visit"
  <2>1. r.pc = "write" /\ Goto(w, Moved(w, pc)) /\ UNCHANGED <<alive, bounds, live, faults>>
    BY <1>8 DEF WriteModel, At, counters
  <2>2. DOMAIN models' = DOMAIN models \cup {r.sla}
    BY <1>8 DEF WriteModel, WithModel
  <2>3. r.sla \in bounds /\ (r.job = "fix" => Range(r.todo) \subseteq bounds)
    BY <1>r, <2>1 DEF Sound
  <2>4. Sound(Moved(w, pc), DOMAIN models', bounds') /\ Moved(w, pc).pc # "clear_bounds"
    BY <1>m, <2>1, <2>3 DEF Sound
\* A reset beside this request would disturb it.
  <2>5. \A v \in Workers \ {w} : thread[v].pc # "clear_bounds"
    BY <1>r, <2>1, Alone DEF Busy
  <2> QED
    BY <1>r, <2>1, <2>2, <2>3, <2>4, <2>5, Grows
<1>9. CASE Answer(w)
  <2>1. Sound(Idle, DOMAIN models, bounds) /\ Idle.pc = "idle"
    BY Idles, Quiet
  <2> QED
    BY <1>9, <1>r, <2>1, Leaves DEF Answer, At, orchestrator, counters
<1> QED
  BY <1>1, <1>2, <1>3, <1>4, <1>5, <1>6, <1>7, <1>8, <1>9

LEMMA FaultUndisturbed ==
    ASSUME TypeInv, DutyInv, Undisturbed, ~clash, ~Disturbs', NEW t \in Threads, CallFails(t)
    PROVE  Undisturbed'
<1>. DEFINE next == IF t = Loop THEN thread[t] ELSE Moved(t, "failed")
<1>1. /\ UNCHANGED <<models, bounds, live>> /\ faults' = faults + 1 /\ faults \in Nat
      /\ thread[t].pc \in {"post", "market", "claim", "get", "file", "visit"}
  BY Typed DEF CallFails, At, orchestrator
<1>2. Goto(t, next)
  BY DEF CallFails, Goto, TypeInv, TypeOK
<1>3. Sound(next, DOMAIN models, bounds) /\ (t \in Workers => next.pc = "failed")
  <2>1. Sound(thread[t], DOMAIN models, bounds)
    BY DEF Undisturbed
  <2>2. Sound(Moved(t, "failed"), DOMAIN models, bounds)
    BY MovedFields, Quiet
  <2> QED
    BY <2>1, <2>2, Apart, MovedFields
<1>. HIDE DEF next
<1> QED
  BY <1>1, <1>2, <1>3, Leaves

LEMMA InitUndisturbed == Init => DutyInv /\ Undisturbed
<1> SUFFICES ASSUME Init PROVE DutyInv /\ Undisturbed
  OBVIOUS
<1>1. \A w \in Workers : thread[w] = Idle
  BY Apart DEF Init
<1>2. DutyInv
  BY <1>1, IdleOnDuty DEF DutyInv
<1>3. ~Disturbs
  BY <1>1, Idles DEF Disturbs, Busy
<1>4. thread[Loop].pc \in {"idle", "post"}
  <2>1. Start("seed", "post") \in Thread /\ Start("seed", "post").pc = "post"
    BY Starts, StepNames
  <2>2. \A plan : [Start("seed", "post") EXCEPT !.plan = plan].pc = "post"
    BY <2>1 DEF Thread
  <2> QED
    BY <2>2, Idles, Apart DEF Init
<1>5. \A t \in Threads : Sound(thread[t], DOMAIN models, bounds)
  BY <1>1, <1>4, Idles, Quiet DEF Threads
<1>6. DOMAIN models = {} /\ Range(live) = {} /\ alive
  BY DEF Init, Range
<1> QED
  BY <1>2, <1>3, <1>5, <1>6 DEF Undisturbed

SurvivalInv == TypeInv /\ DutyInv /\ Undisturbed

LEMMA NextSurvival == SurvivalInv /\ [Next]_vars => SurvivalInv'
<1> SUFFICES ASSUME SurvivalInv, [Next]_vars PROVE SurvivalInv'
  OBVIOUS
<1>1. TypeInv' /\ DutyInv'
  BY NextTyped, NextDuty DEF SurvivalInv
<1>2. Undisturbed'
  <2>1. CASE UNCHANGED vars
    BY <2>1 DEF vars, orchestrator, aggregator, counters, SurvivalInv, Undisturbed,
       Disturbs, Busy, Sound
  <2>2. CASE Next /\ ~clash'
    BY <2>2, StillAlone, TickUndisturbed, PublishUndisturbed, RequestUndisturbed,
       ServiceUndisturbed, FaultUndisturbed
    DEF Next, RequestStep, SurvivalInv
  <2>3. CASE clash'
    BY <2>3 DEF Undisturbed
  <2> QED
    BY <2>1, <2>2, <2>3
<1> QED
  BY <1>1, <1>2 DEF SurvivalInv

\* No scenario ends the live loop, for every market and any number of worker
\* threads: unless a call failed, or a reset, a publication or another request
\* ran beside it, what the tick measures still has its model and its bounds.
THEOREM LoopSurvives == Spec => []LoopSurvivesScenarios
<1>1. Init => SurvivalInv
  BY InitTyped, InitUndisturbed DEF SurvivalInv
<1>2. SurvivalInv => LoopSurvivesScenarios
  BY DEF SurvivalInv, Undisturbed, LoopSurvivesScenarios
<1> QED
  BY <1>1, <1>2, NextSurvival, PTL DEF Spec

-----------------------------------------------------------------------------
(* One complaint per agent, claim and tick.                                *)

Shopping == Publishing \cup {"market", "shop", "claim", "append"}
Measuring == {"sample", "measure", "get", "file"}

\* The tick comes back to no agent and to no claim that it complained for.
Onward(r, log) ==
    /\ r.who \in Range(r.agents) => r.pc = "sample" /\ r.todo = <<>>
    /\ r.pc # "sample" => r.sla \notin Range(r.todo)
    /\ \A f \in Range(log) :
          /\ f[1] \notin Range(r.agents)
          /\ f[1] = r.who => /\ f[2] \notin Range(r.todo)
                             /\ r.pc # "sample" => f[2] # r.sla

\* Nobody holds two claims on one SLA, for the loop appends only what it did not
\* find there and nobody else appends.
Once(r, log, held) ==
    /\ IsInjective(log) /\ IsInjective(r.agents) /\ IsInjective(r.todo)
    /\ \A a \in Agents : IsInjective(held[a])
    /\ r.pc \in {"claim", "append"} => r.sla \notin Range(held[r.who])
    /\ r.pc \in Shopping => log = <<>>
    /\ r.pc \in Measuring => Onward(r, log)

OnceInv == Once(thread[Loop], filed, portfolio)

LEMMA EmptyInjective == IsInjective(<<>>) /\ Range(<<>>) = {}
  BY DEF IsInjective, Range

LEMMA InjectiveAppend ==
    ASSUME NEW S, NEW s \in Seq(S), NEW e \in S, IsInjective(s), e \notin Range(s)
    PROVE  IsInjective(Append(s, e))
<1>1. /\ Len(s) \in Nat /\ DOMAIN s = 1..Len(s)
      /\ DOMAIN Append(s, e) = 1..(Len(s) + 1) /\ Append(s, e)[Len(s) + 1] = e
      /\ \A n \in 1..Len(s) : Append(s, e)[n] = s[n]
  OBVIOUS
<1>2. \A n \in 1..Len(s) : s[n] # e
  BY <1>1 DEF Range
<1>3. \A m, n \in 1..Len(s) : s[m] = s[n] => m = n
  BY <1>1 DEF IsInjective
<1>4. \A m, n \in 1..(Len(s) + 1) : Append(s, e)[m] = Append(s, e)[n] => m = n
  <2> TAKE m, n \in 1..(Len(s) + 1)
  <2>1. CASE m \in 1..Len(s) /\ n \in 1..Len(s)
    BY <1>1, <1>3, <2>1
  <2>2. CASE m = Len(s) + 1 \/ n = Len(s) + 1
    BY <1>1, <1>2, <2>2
  <2> QED
    BY <1>1, <2>1, <2>2
<1>5. DOMAIN Append(s, e) = 1..(Len(s) + 1)
  BY <1>1
<1> QED
  BY <1>4, <1>5, Zenon DEF IsInjective

LEMMA InjectiveTail ==
    ASSUME NEW S, NEW s \in Seq(S), s # <<>>, IsInjective(s)
    PROVE  IsInjective(Tail(s)) /\ Head(s) \notin Range(Tail(s))
<1>1. /\ Len(s) \in Nat \ {0} /\ DOMAIN s = 1..Len(s) /\ Head(s) = s[1]
      /\ DOMAIN Tail(s) = 1..(Len(s) - 1)
      /\ \A n \in 1..(Len(s) - 1) : Tail(s)[n] = s[n + 1]
  OBVIOUS
<1>2. \A m, n \in 1..Len(s) : s[m] = s[n] => m = n
  BY <1>1 DEF IsInjective
<1>3. \A m, n \in 1..(Len(s) - 1) : Tail(s)[m] = Tail(s)[n] => m = n
  <2> TAKE m, n \in 1..(Len(s) - 1)
  <2>1. m + 1 \in 1..Len(s) /\ n + 1 \in 1..Len(s)
    BY <1>1
  <2> QED
    BY <1>1, <1>2, <2>1
<1>4. ASSUME NEW n \in 1..(Len(s) - 1) PROVE Tail(s)[n] # Head(s)
  <2>1. n + 1 \in 1..Len(s) /\ 1 \in 1..Len(s) /\ n + 1 # 1
    BY <1>1
  <2> QED
    BY <1>1, <1>2, <2>1
<1> QED
  BY <1>1, <1>3, <1>4 DEF IsInjective, Range

\* What the other threads do: a reset clears portfolios.
LEMMA OthersOnce ==
    ASSUME TypeInv, OnceInv, thread'[Loop] = thread[Loop], UNCHANGED filed,
           \A a \in Agents : portfolio'[a] = portfolio[a] \/ portfolio'[a] = <<>>
    PROVE  OnceInv'
<1>1. \A a \in Agents : IsInjective(portfolio'[a])
  BY EmptyInjective DEF OnceInv, Once
<1>2. thread[Loop].who \in Agents
  BY Typed, Fields, Apart
<1>3. thread[Loop].pc \in {"claim", "append"} =>
          thread[Loop].sla \notin Range(portfolio'[thread[Loop].who])
  BY <1>2, EmptyInjective DEF OnceInv, Once
<1> QED
  BY <1>1, <1>3 DEF OnceInv, Once

LEMMA WorkersOnce ==
    ASSUME TypeInv, OnceInv, NEW w \in Workers,
           RequestStep(w) \/ Publish(w) \/ CallFails(w)
    PROVE  OnceInv'
<1>1. \E n : Goto(w, n) /\ UNCHANGED filed
  BY Apart DEF RequestStep, Reset, HospitalReshops, CloudBargain, ChangeAS, Request, Wipe,
     ClearModels, ClearBounds, ClearLive, ClearAgent, Visit, CheckBounds, WriteModel, Answer,
     Publish, PostSLA, PutModel, PutBounds, ListLive, CallFails
<1>2. thread'[Loop] = thread[Loop]
  BY <1>1, GotoMoves, Apart
<1>3. portfolio \in [Agents -> Seq(SLA)]
  BY Typed
<1>4. \A a \in Agents : portfolio'[a] = portfolio[a] \/ portfolio'[a] = <<>>
  <2>1. CASE ClearAgent(w)
    BY <1>3, <2>1 DEF ClearAgent
  <2>2. CASE ~ClearAgent(w)
    <3>1. UNCHANGED portfolio
      BY <2>2 DEF RequestStep, Reset, HospitalReshops, CloudBargain, ChangeAS, Request, Wipe,
         ClearModels, ClearBounds, ClearLive, Visit, CheckBounds, WriteModel, Answer,
         Publish, PostSLA, PutModel, PutBounds, ListLive, CallFails, orchestrator
    <3> QED
      BY <3>1
  <2> QED
    BY <2>1, <2>2
<1> QED
  BY <1>1, <1>2, <1>4, OthersOnce

LEMMA LoopPublishes ==
    ASSUME TypeInv, OnceInv, Publish(Loop)
    PROVE  OnceInv'
<1>. DEFINE r == thread[Loop]
<1>1. r \in Thread /\ Loop \in Threads /\ r.pc \in Publishing /\ UNCHANGED <<filed, portfolio>>
  BY Typed, Apart
  DEF Publish, PostSLA, PutModel, PutBounds, ListLive, At, Publishing, orchestrator
<1>2. /\ filed = <<>> /\ IsInjective(filed) /\ IsInjective(r.agents) /\ IsInjective(r.todo)
      /\ \A a \in Agents : IsInjective(portfolio[a])
  BY <1>1 DEF OnceInv, Once, Shopping
<1>3. ASSUME NEW pc
      PROVE  LET n == [Moved(Loop, pc) EXCEPT !.plan = Tail(r.plan)]
             IN  n.pc = pc /\ n.agents = r.agents /\ n.todo = r.todo
  BY <1>1 DEF Moved, Thread
<1>5. LET n == AfterPublishing(Loop)
      IN  /\ n.pc \in {"post", "market", "done", "idle"}
          /\ IsInjective(n.agents) /\ IsInjective(n.todo)
  BY <1>2, <1>3, Idles, EmptyInjective DEF AfterPublishing
<1>6. PICK n : /\ Goto(Loop, n) /\ n.pc \in Publishing \cup {"market", "done", "idle"}
               /\ IsInjective(n.agents) /\ IsInjective(n.todo)
  BY <1>1, <1>2, <1>5, MovedFields
  DEF Publish, PostSLA, PutModel, PutBounds, ListLive, Publishing
<1>7. n.pc \notin {"claim", "append"} /\ n.pc \notin Measuring
  BY <1>6 DEF Publishing, Measuring
<1>8. thread'[Loop] = n
  BY <1>1, <1>6, GotoMoves
<1> QED
  BY <1>1, <1>2, <1>6, <1>7, <1>8 DEF OnceInv, Once

LEMMA TickOnce ==
    ASSUME TypeInv, OnceInv, TickStep
    PROVE  OnceInv'
<1>. DEFINE r == thread[Loop]
<1>r. /\ r \in Thread /\ Loop \in Threads /\ Once(r, filed, portfolio)
      /\ r.todo \in Seq(SLA) /\ r.agents \in Seq(Agents) /\ r.sla \in SLA /\ r.who \in Agents
      /\ portfolio \in [Agents -> Seq(SLA)] /\ filed \in Seq(Agents \X SLA)
      /\ \A n : Goto(Loop, n) => thread'[Loop] = n
  BY Typed, Fields, Apart, GotoMoves DEF OnceInv
<1>h. /\ IsInjective(filed) /\ IsInjective(r.agents) /\ IsInjective(r.todo)
      /\ \A a \in Agents : IsInjective(portfolio[a])
  BY <1>r DEF Once
\* Shopping, nothing has been complained of yet.
<1>s. ASSUME NEW n, Goto(Loop, n), n.pc \in Shopping, filed' = <<>>,
             IsInjective(n.agents), IsInjective(n.todo),
             \A a \in Agents : IsInjective(portfolio'[a]),
             n.pc \in {"claim", "append"} => n.sla \notin Range(portfolio'[n.who])
      PROVE  OnceInv'
  <2>1. n.pc \notin Measuring /\ thread'[Loop] = n
    BY <1>r, <1>s DEF Shopping, Measuring, Publishing
  <2> QED
    BY <1>s, <2>1, EmptyInjective DEF OnceInv, Once
\* Measuring, the portfolios stay as they are.
<1>t. ASSUME NEW n, Goto(Loop, n), n.pc \in Measuring, UNCHANGED portfolio,
             IsInjective(filed'), IsInjective(n.agents), IsInjective(n.todo),
             Onward(n, filed')
      PROVE  OnceInv'
  <2>1. n.pc \notin Shopping /\ n.pc \notin {"claim", "append"} /\ thread'[Loop] = n
    BY <1>r, <1>t DEF Shopping, Measuring, Publishing
  <2> QED
    BY <1>h, <1>t, <2>1 DEF OnceInv, Once
<1>m. r.pc \in Measuring => Onward(r, filed)
  BY <1>r DEF Once
<1>1. CASE StartTick
  <2>0. "tick" \in Jobs /\ "post" \in Steps /\ "market" \in Steps
    BY StepNames
  <2>1. ASSUME NEW pc \in Steps
        PROVE  /\ Start("tick", pc) \in Thread /\ Start("tick", pc).pc = pc
               /\ Start("tick", pc).agents = <<>> /\ Start("tick", pc).todo = <<>>
    BY <2>0, Starts
  <2>2. ASSUME NEW plan
        PROVE  LET n == [Start("tick", "post") EXCEPT !.plan = plan]
               IN  n.pc = "post" /\ n.agents = <<>> /\ n.todo = <<>>
    BY <2>0, <2>1 DEF Thread
  <2>3. PICK n : /\ Goto(Loop, n) /\ n.pc \in {"post", "market"}
                 /\ n.agents = <<>> /\ n.todo = <<>>
    BY <1>1, <2>0, <2>1, <2>2 DEF StartTick
  <2>4. filed' = <<>> /\ UNCHANGED portfolio
    BY <1>1 DEF StartTick, orchestrator
  <2> QED
    BY <1>s, <1>h, <2>3, <2>4, EmptyInjective DEF Shopping, Publishing
<1>2. CASE ReadMarket
  <2>. DEFINE n == [Moved(Loop, "shop") EXCEPT !.market = stored, !.rest = Buyers]
  <2>1. n.pc = "shop" /\ n.agents = r.agents /\ n.todo = r.todo
    BY <1>r DEF Moved, Thread
  <2>2. Goto(Loop, n) /\ filed' = filed /\ filed = <<>> /\ UNCHANGED portfolio
    BY <1>2, <1>r DEF ReadMarket, At, orchestrator, Once, Shopping
  <2>. HIDE DEF n
  <2> QED
    BY <1>s, <1>h, <2>1, <2>2 DEF Shopping
<1>3. CASE PostClaim
  <2>1. /\ r.pc = "claim" /\ Goto(Loop, Moved(Loop, "append"))
        /\ UNCHANGED <<filed, portfolio>>
    BY <1>3 DEF PostClaim, At, orchestrator
  <2>2. filed = <<>> /\ r.sla \notin Range(portfolio[r.who])
    BY <1>r, <2>1 DEF Once, Shopping
  <2>3. LET n == Moved(Loop, "append")
        IN  /\ n.pc = "append" /\ n.agents = r.agents /\ n.todo = r.todo
            /\ n.sla = r.sla /\ n.who = r.who
    BY <1>r, MovedFields
  <2> QED
    BY <1>s, <1>h, <2>1, <2>2, <2>3 DEF Shopping
<1>4. CASE AppendClaim
  <2>. DEFINE n == [Moved(Loop, "shop") EXCEPT !.made = @ + 1]
  <2>1. n.pc = "shop" /\ n.agents = r.agents /\ n.todo = r.todo
    BY <1>r DEF Moved, Thread
  <2>2. /\ Goto(Loop, n) /\ r.pc = "append" /\ filed' = filed
        /\ portfolio' = [portfolio EXCEPT ![r.who] = Append(@, r.sla)]
    BY <1>4 DEF AppendClaim, At
  <2>3. filed = <<>> /\ r.sla \notin Range(portfolio[r.who])
    BY <1>r, <2>2 DEF Once, Shopping
  <2>4. IsInjective(Append(portfolio[r.who], r.sla))
    BY <1>r, <1>h, <2>3, InjectiveAppend
  <2>5. \A a \in Agents : IsInjective(portfolio'[a])
    BY <1>r, <1>h, <2>2, <2>4
  <2>. HIDE DEF n
  <2> QED
    BY <1>s, <1>h, <2>1, <2>2, <2>3, <2>5 DEF Shopping
<1>5. CASE EndShopping
  <2>. DEFINE n == [Start("tick", "sample") EXCEPT !.agents = AgentList]
  <2>1. /\ Start("tick", "sample") \in Thread /\ Start("tick", "sample").pc = "sample"
        /\ Start("tick", "sample").todo = <<>>
    <3>1. "tick" \in Jobs /\ "sample" \in Steps
      BY StepNames
    <3> QED
      BY <3>1, Starts
  <2>2. n.pc = "sample" /\ n.agents = AgentList /\ n.todo = <<>>
    BY <2>1 DEF Thread
  <2>3. Goto(Loop, n) /\ filed' = filed /\ filed = <<>> /\ UNCHANGED portfolio
    BY <1>5, <1>r DEF EndShopping, At, orchestrator, Once, Shopping
  <2>. HIDE DEF n
  <2>4. Onward(n, filed')
    BY <2>2, <2>3, EmptyInjective DEF Onward
  <2>5. IsInjective(AgentList)
    BY SimulatorAssumption
  <2> QED
    BY <1>t, <1>h, <2>2, <2>3, <2>4, <2>5, EmptyInjective DEF Measuring
<1>6. ASSUME NEW a \in Buyers, Shop(a)
      PROVE  OnceInv'
  <2>1. r.pc = "shop" /\ filed' = filed /\ filed = <<>> /\ UNCHANGED portfolio
    BY <1>6, <1>r DEF Shop, At, orchestrator, Once, Shopping
  <2>2. ASSUME NEW s \in Acceptable(a),
               Goto(Loop, [Moved(Loop, "claim") EXCEPT !.sla = s, !.who = a, !.rest = @ \ {a}])
        PROVE  OnceInv'
    <3>. DEFINE n == [Moved(Loop, "claim") EXCEPT !.sla = s, !.who = a, !.rest = @ \ {a}]
    <3>1. /\ n.pc = "claim" /\ n.agents = r.agents /\ n.todo = r.todo
          /\ n.sla = s /\ n.who = a
      BY <1>r DEF Moved, Thread
    <3>2. s \notin Range(portfolio[a])
      BY DEF Acceptable
    <3>3. Goto(Loop, n)
      BY <2>2
    <3>. HIDE DEF n
    <3> QED
      BY <1>s, <1>h, <2>1, <3>1, <3>2, <3>3 DEF Shopping
  <2>3. ASSUME Goto(Loop, [r EXCEPT !.rest = @ \ {a}])
        PROVE  OnceInv'
    <3>. DEFINE n == [r EXCEPT !.rest = @ \ {a}]
    <3>1. n.pc = "shop" /\ n.agents = r.agents /\ n.todo = r.todo /\ Goto(Loop, n)
      BY <1>r, <2>1, <2>3 DEF Thread
    <3>. HIDE DEF n
    <3> QED
      BY <1>s, <1>h, <2>1, <3>1 DEF Shopping
  <2> QED
    BY <1>6, <2>2, <2>3 DEF Shop
<1>7. CASE NextAgent
  <2>1. r.pc = "sample" /\ r.todo = <<>> /\ UNCHANGED <<filed, portfolio>> /\ Onward(r, filed)
    BY <1>7, <1>m DEF NextAgent, At, orchestrator, Measuring
  <2>2. CASE r.agents = <<>>
    <3>1. /\ thread'[Loop] = Idle /\ Idle.pc = "idle"
          /\ Idle.agents = <<>> /\ Idle.todo = <<>>
      BY <1>7, <1>r, <2>2, Idles DEF NextAgent
    <3> QED
      BY <1>h, <2>1, <3>1, EmptyInjective
      DEF OnceInv, Once, Shopping, Publishing, Measuring
  <2>3. CASE r.agents # <<>>
    <3>. DEFINE a == Head(r.agents)
                n == [r EXCEPT !.agents = Tail(@), !.who = a, !.todo = portfolio[a]]
    <3>1. /\ n.pc = "sample" /\ n.agents = Tail(r.agents) /\ n.who = a
          /\ n.todo = portfolio[a] /\ Goto(Loop, n)
      BY <1>7, <1>r, <2>1, <2>3 DEF Thread, NextAgent
    <3>2. /\ a \in Agents /\ a \in Range(r.agents) /\ a \notin Range(Tail(r.agents))
          /\ Range(Tail(r.agents)) \subseteq Range(r.agents)
          /\ IsInjective(Tail(r.agents))
      BY <1>r, <1>h, <2>3, RangeSeq, InjectiveTail
    <3>. HIDE DEF n, a
    <3>3. Onward(n, filed')
      BY <2>1, <3>1, <3>2 DEF Onward
    <3> QED
      BY <1>t, <1>h, <2>1, <3>1, <3>2, <3>3 DEF Measuring
  <2> QED
    BY <2>2, <2>3
<1>8. CASE NextClaim
  <2>. DEFINE s == Head(r.todo)
              n == [r EXCEPT !.sla = s, !.todo = Tail(@),
                             !.pc = IF s \in DOMAIN models THEN "measure" ELSE @]
  <2>1. /\ r.pc = "sample" /\ r.todo # <<>> /\ UNCHANGED <<filed, portfolio>>
        /\ Goto(Loop, n) /\ Onward(r, filed)
    BY <1>8, <1>m DEF NextClaim, At, orchestrator, Measuring
  <2>2. /\ n.pc \in {"sample", "measure"} /\ n.agents = r.agents /\ n.who = r.who
        /\ n.sla = s /\ n.todo = Tail(r.todo)
    BY <1>r, <2>1 DEF Thread
  <2>3. /\ s \in Range(r.todo) /\ s \notin Range(Tail(r.todo))
        /\ Range(Tail(r.todo)) \subseteq Range(r.todo) /\ IsInjective(Tail(r.todo))
    BY <1>r, <1>h, <2>1, RangeSeq, InjectiveTail
  <2>. HIDE DEF n, s
  <2>4. Onward(n, filed')
    BY <2>1, <2>2, <2>3 DEF Onward
  <2> QED
    BY <1>t, <1>h, <2>1, <2>2, <2>3, <2>4 DEF Measuring
<1>9. CASE Measure
  <2>1. r.pc = "measure" /\ UNCHANGED <<filed, portfolio>> /\ Onward(r, filed)
    BY <1>9, <1>m DEF Measure, Die, At, orchestrator, Measuring
  <2>2. ASSUME NEW bad, Goto(Loop, [Moved(Loop, "get") EXCEPT !.bad = bad])
        PROVE  OnceInv'
    <3>. DEFINE n == [Moved(Loop, "get") EXCEPT !.bad = bad]
    <3>1. /\ n.pc = "get" /\ n.agents = r.agents /\ n.who = r.who /\ n.sla = r.sla
          /\ n.todo = r.todo /\ Goto(Loop, n)
      BY <1>r, <2>2 DEF Moved, Thread
    <3>. HIDE DEF n
    <3>2. Onward(n, filed')
      BY <2>1, <3>1 DEF Onward
    <3> QED
      BY <1>t, <1>h, <2>1, <3>1, <3>2 DEF Measuring
  <2>3. CASE UNCHANGED thread
    BY <2>1, <2>3 DEF OnceInv
  <2> QED
    BY <1>9, <2>2, <2>3 DEF Measure, Die
<1>10. CASE GetSLA
  <2>. DEFINE pc == IF r.sla \in stored /\ r.bad THEN "file" ELSE "sample"
              n == [Moved(Loop, pc) EXCEPT !.bad = FALSE]
  <2>1. r.pc = "get" /\ UNCHANGED <<filed, portfolio>> /\ Onward(r, filed) /\ Goto(Loop, n)
    BY <1>10, <1>m DEF GetSLA, At, orchestrator, Measuring
  <2>2. pc \in {"file", "sample"}
    OBVIOUS
  <2>3. /\ n.pc = pc /\ n.agents = r.agents /\ n.who = r.who /\ n.sla = r.sla
        /\ n.todo = r.todo
    <3>. HIDE DEF pc
    <3> QED
      BY <1>r DEF Moved, Thread
  <2>. HIDE DEF n, pc
  <2>4. Onward(n, filed')
    BY <2>1, <2>2, <2>3 DEF Onward
  <2> QED
    BY <1>t, <1>h, <2>1, <2>2, <2>3, <2>4 DEF Measuring
<1>11. CASE FileComplaint
  <2>. DEFINE n == Moved(Loop, "sample")
              e == <<r.who, r.sla>>
  <2>1. /\ r.pc = "file" /\ UNCHANGED portfolio /\ Onward(r, filed) /\ Goto(Loop, n)
        /\ filed' = Append(filed, e)
    BY <1>11, <1>m DEF FileComplaint, At, orchestrator, Measuring
  <2>2. /\ n.pc = "sample" /\ n.agents = r.agents /\ n.who = r.who /\ n.sla = r.sla
        /\ n.todo = r.todo
    BY <1>r, MovedFields
  <2>3. e \in Agents \X SLA /\ e[1] = r.who /\ e[2] = r.sla
    BY <1>r
  <2>. HIDE DEF n, e
  <2>4. e \notin Range(filed)
    BY <2>1, <2>3 DEF Onward
  <2>5. IsInjective(filed') /\ Range(filed') = Range(filed) \cup {e}
    BY <1>r, <1>h, <2>1, <2>3, <2>4, InjectiveAppend, RangeSeq
  <2>6. Onward(n, filed')
    BY <2>1, <2>2, <2>3, <2>5 DEF Onward
  <2> QED
    BY <1>t, <1>h, <2>1, <2>2, <2>5, <2>6 DEF Measuring
<1> QED
  BY <1>1, <1>2, <1>3, <1>4, <1>5, <1>6, <1>7, <1>8, <1>9, <1>10, <1>11 DEF TickStep

LEMMA InitOnce == Init => OnceInv
<1> SUFFICES ASSUME Init PROVE OnceInv
  OBVIOUS
<1>. DEFINE r == thread[Loop]
<1>1. /\ Start("seed", "post") \in Thread /\ Start("seed", "post").pc = "post"
      /\ Start("seed", "post").agents = <<>> /\ Start("seed", "post").todo = <<>>
  <2>1. "seed" \in Jobs /\ "post" \in Steps
    BY StepNames
  <2> QED
    BY <2>1, Starts
<1>2. ASSUME NEW plan
      PROVE  LET n == [Start("seed", "post") EXCEPT !.plan = plan]
             IN  n.pc = "post" /\ n.agents = <<>> /\ n.todo = <<>>
  BY <1>1 DEF Thread
<1>3. r.pc \in {"idle", "post"} /\ r.agents = <<>> /\ r.todo = <<>>
  BY <1>2, Idles, Apart DEF Init
<1>4. filed = <<>> /\ \A a \in Agents : portfolio[a] = <<>>
  BY DEF Init
<1> QED
  BY <1>3, <1>4, EmptyInjective DEF OnceInv, Once, Measuring

LEMMA NextOnce == TypeInv /\ OnceInv /\ [Next]_vars => OnceInv'
<1> SUFFICES ASSUME TypeInv, OnceInv, [Next]_vars PROVE OnceInv'
  OBVIOUS
<1>1. CASE UNCHANGED vars
  BY <1>1 DEF vars, orchestrator, OnceInv
<1>2. CASE CallFails(Loop)
  BY <1>2 DEF CallFails, orchestrator, OnceInv
<1>3. CASE Next /\ ~CallFails(Loop)
  BY <1>3, TickOnce, LoopPublishes, WorkersOnce DEF Next, Threads
<1> QED
  BY <1>1, <1>2, <1>3

\* However resets, scenarios and failing calls interleave with a tick, no agent
\* complains twice of an SLA in it: for every market and number of threads.
THEOREM ComplainsOnce == Spec => []OneComplaintPerTick
<1>1. Init => TypeInv /\ OnceInv
  BY InitTyped, InitOnce
<1>2. TypeInv /\ OnceInv /\ [Next]_vars => TypeInv' /\ OnceInv'
  BY NextTyped, NextOnce
<1>3. OnceInv => OneComplaintPerTick
  BY DEF OnceInv, Once, IsInjective, OneComplaintPerTick
<1> QED
  BY <1>1, <1>2, <1>3, PTL DEF Spec

-----------------------------------------------------------------------------
(* Whose step it is.                                                       *)

StepOf(t) ==
    \/ Publish(t) \/ CallFails(t)
    \/ t \in Workers /\ RequestStep(t)
    \/ t = Loop /\ TickStep

LEMMA Steppers ==
    ASSUME Next
    PROVE  \E t \in Threads : StepOf(t)
  BY Apart DEF Next, StepOf

\* A step of the tick moves the main thread.
LEMMA TickGoes ==
    ASSUME TypeInv, TickStep
    PROVE  \A w \in Workers : thread'[w] = thread[w]
  BY Apart DEF TickStep, StartTick, ReadMarket, PostClaim, AppendClaim, EndShopping, Shop,
     NextAgent, NextClaim, Measure, Die, GetSLA, FileComplaint, Goto, TypeInv, TypeOK

\* A step moves the thread that takes it and leaves the others where they are.
LEMMA OthersStay ==
    ASSUME TypeInv, NEW t \in Threads, StepOf(t)
    PROVE  \A u \in Threads \ {t} : thread'[u] = thread[u]
<1>1. CASE Publish(t)
  <2>1. \E n : Goto(t, n)
    BY <1>1 DEF Publish, PostSLA, PutModel, PutBounds, ListLive
  <2>. QED
    BY <2>1, GotoMoves
<1>2. CASE CallFails(t)
  <2>1. UNCHANGED thread \/ \E n : Goto(t, n)
    BY <1>2 DEF CallFails
  <2>. QED
    BY <2>1, GotoMoves
<1>3. CASE t \in Workers /\ RequestStep(t)
  <2>1. \E n : Goto(t, n)
    BY <1>3 DEF RequestStep, Reset, HospitalReshops, CloudBargain, ChangeAS, Wipe, ClearModels,
                ClearBounds, ClearLive, ClearAgent, Visit, CheckBounds, WriteModel, Answer
  <2>. QED
    BY <2>1, GotoMoves
<1>4. CASE t = Loop /\ TickStep
  BY <1>4, TickGoes DEF Threads
<1>. QED
  BY <1>1, <1>2, <1>3, <1>4 DEF StepOf

\* The requests, and what their threads begin with.
LEMMA RequestBegins ==
    ASSUME TypeInv, NEW w \in Workers,
           \/ Reset(w) \/ HospitalReshops(w) \/ CloudBargain(w)
           \/ \E a \in Agents, scenario \in Scenarios : ChangeAS(w, scenario, a)
    PROVE  /\ thread[w].pc = "idle" /\ thread'[w].pc # "idle"
           /\ UNCHANGED <<alive, orchestrator, aggregator, faults>>
           /\ \/ Reset(w) /\ thread'[w].job = "reset"
              \/ HospitalReshops(w) /\ thread'[w].job = "hospital"
              \/ CloudBargain(w) /\ thread'[w].job = "cloud"
              \/ \E a \in Agents, scenario \in {"degrade", "fix"} :
                    ChangeAS(w, scenario, a) /\ thread'[w].job = scenario
<1>w. w \in Threads
  BY Apart
<1>q. UNCHANGED <<alive, orchestrator, aggregator, faults>> /\ thread[w].pc = "idle"
  BY DEF Reset, HospitalReshops, CloudBargain, ChangeAS, Request
<1>j. \A scenario \in Scenarios : scenario \in Jobs
  BY StepNames
<1>1. ASSUME Reset(w) PROVE thread'[w].pc # "idle" /\ thread'[w].job = "reset"
  <2>. DEFINE n == [Start("reset", "wipe") EXCEPT !.plan = Drawn(Seeds(ReSeed))]
  <2>1. "reset" \in Jobs
    BY <1>1, <1>j DEF Reset, Request
  <2>2. /\ Start("reset", "wipe") \in Thread /\ Start("reset", "wipe").pc = "wipe"
        /\ Start("reset", "wipe").job = "reset"
    BY <2>1, Starts, StepNames
  <2>3. n.pc = "wipe" /\ n.job = "reset" /\ Goto(w, n)
    BY <1>1, <2>2 DEF Thread, Reset
  <2>. HIDE DEF n
  <2>. QED
    BY <1>w, <2>3, GotoMoves
<1>2. ASSUME HospitalReshops(w) PROVE thread'[w].pc # "idle" /\ thread'[w].job = "hospital"
  <2>1. "hospital" \in Jobs
    BY <1>2, <1>j DEF HospitalReshops, Request
  <2>2. /\ Start("hospital", "check") \in Thread /\ Start("hospital", "check").pc = "check"
        /\ Start("hospital", "check").job = "hospital"
        /\ Start("hospital", "failed").pc = "failed" /\ Start("hospital", "failed").job = "hospital"
    BY <2>1, Starts, StepNames
  <2>3. \A s : /\ [Start("hospital", "check") EXCEPT !.sla = s].pc = "check"
               /\ [Start("hospital", "check") EXCEPT !.sla = s].job = "hospital"
    BY <2>2 DEF Thread
  <2>4. PICK n : Goto(w, n) /\ n.pc \in {"check", "failed"} /\ n.job = "hospital"
    BY <1>2, <2>2, <2>3 DEF HospitalReshops
  <2>. QED
    BY <1>w, <2>4, GotoMoves
<1>3. ASSUME CloudBargain(w) PROVE thread'[w].pc # "idle" /\ thread'[w].job = "cloud"
  <2>. DEFINE n == [Start("cloud", "post") EXCEPT !.plan = Drawn(<<Bargain>>)]
  <2>1. "cloud" \in Jobs
    BY <1>3, <1>j DEF CloudBargain, Request
  <2>2. /\ Start("cloud", "post") \in Thread /\ Start("cloud", "post").pc = "post"
        /\ Start("cloud", "post").job = "cloud"
    BY <2>1, Starts, StepNames
  <2>3. n.pc = "post" /\ n.job = "cloud" /\ Goto(w, n)
    BY <1>3, <2>2 DEF Thread, CloudBargain
  <2>. HIDE DEF n
  <2>. QED
    BY <1>w, <2>3, GotoMoves
<1>4. ASSUME NEW a \in Agents, NEW scenario \in Scenarios, ChangeAS(w, scenario, a)
      PROVE  /\ thread'[w].pc # "idle" /\ thread'[w].job = scenario
             /\ scenario \in {"degrade", "fix"}
  <2>. DEFINE n == [Start(scenario, "visit") EXCEPT
                       !.who = a, !.todo = live, !.scope = Range(live)]
  <2>1. /\ Start(scenario, "visit") \in Thread /\ Start(scenario, "visit").pc = "visit"
        /\ Start(scenario, "visit").job = scenario
    BY <1>j, Starts, StepNames
  <2>2. n.pc = "visit" /\ n.job = scenario /\ Goto(w, n) /\ scenario \in {"degrade", "fix"}
    BY <1>4, <2>1 DEF Thread, ChangeAS
  <2>. HIDE DEF n
  <2>. QED
    BY <1>w, <2>2, GotoMoves
<1>. QED
  BY <1>q, <1>1, <1>2, <1>3, <1>4

\* A thread that does nothing can only begin something.
LEMMA IdleBegins ==
    ASSUME TypeInv, NEW t \in Threads, thread[t].pc = "idle", StepOf(t)
    PROVE  thread'[t].pc # "idle"
<1>1. ~Publish(t) /\ ~CallFails(t)
  BY DEF Publish, PostSLA, PutModel, PutBounds, ListLive, CallFails, At
<1>2. CASE t \in Workers /\ RequestStep(t)
  <2>1. \/ Reset(t) \/ HospitalReshops(t) \/ CloudBargain(t)
        \/ \E a \in Agents, scenario \in Scenarios : ChangeAS(t, scenario, a)
    BY <1>2 DEF RequestStep, Wipe, ClearModels, ClearBounds, ClearLive, ClearAgent, Visit,
                CheckBounds, WriteModel, Answer, At
  <2>. QED
    BY <1>2, <2>1, RequestBegins
<1>3. CASE t = Loop /\ TickStep
  <2>1. StartTick
    BY <1>3 DEF TickStep, ReadMarket, PostClaim, AppendClaim, EndShopping, Shop, NextAgent,
                NextClaim, Measure, GetSLA, FileComplaint, At
  <2>2. Start("tick", "post") \in Thread /\ Start("tick", "post").pc = "post"
    BY Starts, StepNames
  <2>3. ASSUME NEW plan
        PROVE  [Start("tick", "post") EXCEPT !.plan = plan].pc = "post"
    BY <2>2 DEF Thread
  <2>4. Start("tick", "market").pc = "market"
    BY Starts, StepNames
  <2>5. PICK n : Goto(Loop, n) /\ n.pc \in {"post", "market"}
    BY <2>1, <2>3, <2>4 DEF StartTick
  <2>. QED
    BY <1>3, <2>5, GotoMoves
<1>. QED
  BY <1>1, <1>2, <1>3 DEF StepOf

\* Nobody else does anything while a worker resets or publishes.
LEMMA NobodyElse ==
    ASSUME TypeInv, ~Disturbs, ~Disturbs', NEW w \in Workers, Busy(w),
           thread[w].job \in {"reset", "cloud"}, NEW t \in Threads, StepOf(t)
    PROVE  t = w
<1> SUFFICES ASSUME t # w PROVE FALSE
  OBVIOUS
<1>1. w \in Threads /\ thread'[w] = thread[w]
  BY Apart, OthersStay
<1>2. Busy(t) \/ Busy(t)'
  BY IdleBegins DEF Busy
<1>3. Busy(w)' /\ thread'[w].job \in {"reset", "cloud"}
  BY <1>1 DEF Busy
<1>. QED
  BY <1>1, <1>2, <1>3 DEF Disturbs, Threads

\* Nor does another worker while a request is served.
LEMMA NoOtherWorker ==
    ASSUME TypeInv, ~Disturbs, ~Disturbs', NEW w \in Workers, Busy(w),
           NEW t \in Threads, StepOf(t)
    PROVE  t = w \/ t = Loop
<1> SUFFICES ASSUME t # w, t \in Workers PROVE FALSE
  BY DEF Threads
<1>1. w \in Threads /\ thread'[w] = thread[w]
  BY Apart, OthersStay
<1>2. Busy(t) \/ Busy(t)'
  BY IdleBegins DEF Busy
<1>3. Busy(w)'
  BY <1>1 DEF Busy
<1>. QED
  BY <1>1, <1>2, <1>3 DEF Disturbs

-----------------------------------------------------------------------------
(* What a reset that nothing disturbs makes of the market, step by step.   *)

Resetting(r) == r.job = "reset" /\ r.pc # "idle"

\* The SLA at the head of the plan, if the thread is at one of some steps.
Begun(r, steps) == IF r.pc \in steps THEN {Head(r.plan)} ELSE {}

\* Those that have been cleared are empty; the SLAs that are live and those that
\* are left of the plan are a pre-seed; and the dictionaries hold the live ones and
\* the one that is being published.
Rebuilt(r) ==
    LET listed == IF r.pc \in Clearing THEN 0 ELSE Len(live)
    IN  /\ r.pc \in Clearing \cup Publishing \cup {"done"}
        /\ r.pc = "done" => r.plan = <<>>
        /\ listed + Len(r.plan) = ReSeed
        /\ \A n \in 1..listed : live[n].template = Seeds(ReSeed)[n]
        /\ \A n \in 1..Len(r.plan) : r.plan[n].template = Seeds(ReSeed)[listed + n]
        /\ r.pc # "wipe" => claims = {}
        /\ r.pc \in Clearing \ {"wipe"} => stored = {}
        /\ r.pc \in Clearing \ {"wipe", "clear_models"} => models = <<>>
        /\ r.pc \in {"clear_live", "clear_agents"} => bounds = {}
        /\ r.pc = "clear_agents" => live = <<>>
        /\ r.pc \notin Clearing \ {"clear_agents"} =>
              \A a \in Agents : portfolio[a] = <<>> \/ (r.pc = "clear_agents" /\ a \in Range(r.agents))
        /\ r.pc \notin Clearing =>
              /\ stored = Range(live) \cup Begun(r, {"model", "bounds", "list"})
              /\ models = [s \in Range(live) \cup Begun(r, {"bounds", "list"}) |-> "nominal"]
              /\ bounds = Range(live) \cup Begun(r, {"list"})

ResetInv ==
    ~clash /\ faults = 0 =>
        \A w \in Workers : Resetting(thread[w]) => Rebuilt(thread[w])

LEMMA SurvivalFacts ==
    ASSUME SurvivalInv, Next, ~clash'
    PROVE  TypeInv /\ DutyInv /\ Undisturbed /\ ~clash /\ ~Disturbs /\ ~Disturbs'
  BY StillAlone DEF SurvivalInv, Undisturbed

\* A reset begins with a pre-seed as its plan.
LEMMA ResetBegins ==
    ASSUME TypeInv, NEW w \in Workers, Reset(w)
    PROVE  Rebuilt(thread[w])'
<1>. DEFINE n == [Start("reset", "wipe") EXCEPT !.plan = Drawn(Seeds(ReSeed))]
<1>1. w \in Threads /\ ReSeed \in Nat /\ nonces \in Nat
  BY Apart, Typed, SimulatorAssumption
<1>2. "reset" \in Jobs /\ "wipe" \in Steps
  BY StepNames DEF Reset, Request
<1>3. Start("reset", "wipe") \in Thread /\ Start("reset", "wipe").pc = "wipe"
  BY <1>2, Starts
<1>4. n.pc = "wipe" /\ n.plan = Drawn(Seeds(ReSeed)) /\ Goto(w, n)
  BY <1>3 DEF Thread, Reset
<1>. HIDE DEF n
<1>5. thread'[w] = n
  BY <1>1, <1>4, GotoMoves
<1>6. Seeds(ReSeed) \in Seq(Templates) /\ Len(Seeds(ReSeed)) = ReSeed
  BY <1>1, SeedTemplates
<1>7. Drawn(Seeds(ReSeed)) \in Seq(SLA) /\ Len(Drawn(Seeds(ReSeed))) = ReSeed
  BY <1>1, <1>6, DrawnSLAs DEF Reset
<1>8. \A i \in 1..ReSeed : Drawn(Seeds(ReSeed))[i].template = Seeds(ReSeed)[i]
  BY <1>6 DEF Drawn
<1>9. /\ \A i \in 1..Len(n.plan) : n.plan[i].template = Seeds(ReSeed)[0 + i]
      /\ 0 + Len(n.plan) = ReSeed
  <2>1. \A i \in 1..ReSeed : 0 + i = i
    BY <1>1
  <2>. QED
    BY <1>1, <1>4, <1>7, <1>8, <2>1
<1>10. /\ "wipe" \in Clearing /\ "wipe" \notin {"clear_live", "clear_agents", "clear_models"}
       /\ "wipe" # "done" /\ "wipe" # "clear_agents" /\ \A i : i \notin 1..0
  BY DEF Clearing
<1>. QED
  BY <1>4, <1>5, <1>9, <1>10, Zenon DEF Rebuilt

\* It forgets one thing after the other, then begins to publish.
LEMMA ClearingRebuilds ==
    ASSUME TypeInv, NEW w \in Workers, Resetting(thread[w]), Rebuilt(thread[w]), faults' = 0,
           faults = 0,
           Wipe(w) \/ ClearModels(w) \/ ClearBounds(w) \/ ClearLive(w) \/ ClearAgent(w)
    PROVE  Rebuilt(thread[w])'
<1>. DEFINE r == thread[w]
            n == thread'[w]
<1>1. /\ w \in Threads /\ r \in Thread /\ r.agents \in Seq(Agents) /\ live \in Seq(SLA)
      /\ portfolio \in [Agents -> Seq(SLA)] /\ r.plan \in Seq(SLA) /\ Ready(r)
  BY Apart, Typed, Fields
<1>2. ASSUME NEW pc, Goto(w, Moved(w, pc))
      PROVE  n.pc = pc /\ n.plan = r.plan /\ n.agents = r.agents
  BY <1>1, <1>2, GotoMoves, MovedFields
<1>3. CASE Wipe(w)
  <2>1. /\ r.pc = "wipe" /\ n.pc = "clear_models" /\ n.plan = r.plan
        /\ stored' = {} /\ claims' = {} /\ UNCHANGED orchestrator
    BY <1>2, <1>3 DEF Wipe, At
  <2>. HIDE DEF n, r
  <2>2. /\ {"wipe", "clear_models"} \subseteq Clearing
    BY DEF Clearing
  <2>. QED
    BY <2>1, <2>2 DEF Rebuilt, orchestrator, r, n
<1>4. CASE ClearModels(w)
  <2>1. /\ r.pc = "clear_models" /\ n.pc = "clear_bounds" /\ n.plan = r.plan
        /\ models' = <<>> /\ UNCHANGED <<bounds, live, portfolio, aggregator>>
    BY <1>2, <1>4 DEF ClearModels, At
  <2>. HIDE DEF n, r
  <2>2. /\ {"clear_models", "clear_bounds"} \subseteq Clearing
    BY DEF Clearing
  <2>. QED
    BY <2>1, <2>2 DEF Rebuilt, aggregator, r, n
<1>5. CASE ClearBounds(w)
  <2>1. /\ r.pc = "clear_bounds" /\ n.pc = "clear_live" /\ n.plan = r.plan
        /\ bounds' = {} /\ UNCHANGED <<models, live, portfolio, aggregator>>
    BY <1>2, <1>5 DEF ClearBounds, At
  <2>. HIDE DEF n, r
  <2>2. /\ {"clear_bounds", "clear_live"} \subseteq Clearing
    BY DEF Clearing
  <2>. QED
    BY <2>1, <2>2 DEF Rebuilt, aggregator, r, n
<1>6. CASE ClearLive(w)
  <2>1. /\ Goto(w, [Moved(w, "clear_agents") EXCEPT !.agents = AgentList])
        /\ n = [Moved(w, "clear_agents") EXCEPT !.agents = AgentList]
    BY <1>1, <1>6, GotoMoves DEF ClearLive
  <2>2. n.pc = "clear_agents" /\ n.plan = r.plan /\ n.agents = AgentList
    <3>. DEFINE m == [Moved(w, "clear_agents") EXCEPT !.agents = AgentList]
    <3>1. m.pc = "clear_agents" /\ m.plan = r.plan /\ m.agents = AgentList
      BY <1>1 DEF Moved, Thread
    <3>. HIDE DEF m, n, r
    <3>2. n = m
      BY <2>1 DEF m
    <3>. QED
      BY <3>1, <3>2
  <2>3. r.pc = "clear_live" /\ live' = <<>> /\ UNCHANGED <<models, bounds, portfolio, aggregator>>
    BY <1>6 DEF ClearLive, At
  <2>. HIDE DEF n, r
  <2>4. /\ {"clear_live", "clear_agents"} \subseteq Clearing
    BY DEF Clearing
  <2>5. \A a \in Agents : a \in Range(n.agents)
    BY <2>2 DEF Agents
  <2>. QED
    BY <2>2, <2>3, <2>4, <2>5 DEF Rebuilt, aggregator, r, n
<1>7. CASE ClearAgent(w)
  <2>. DEFINE left == Tail(r.agents)
              pc == IF left # <<>> THEN "clear_agents"
                    ELSE IF r.plan = <<>> THEN "done" ELSE "post"
  <2>1. /\ r.pc = "clear_agents" /\ portfolio' = [portfolio EXCEPT ![Head(r.agents)] = <<>>]
        /\ Goto(w, [Moved(w, pc) EXCEPT !.agents = left])
        /\ UNCHANGED <<models, bounds, live, aggregator>>
    BY <1>7 DEF ClearAgent, At
  <2>2. n.pc = pc /\ n.plan = r.plan /\ n.agents = left
    <3>. DEFINE m == [Moved(w, pc) EXCEPT !.agents = left]
    <3>1. m.pc = pc /\ m.plan = r.plan /\ m.agents = left
      BY <1>1 DEF Moved, Thread
    <3>2. n = m
      BY <1>1, <2>1, GotoMoves
    <3>. HIDE DEF m, n, r, pc
    <3>. QED
      BY <3>1, <3>2
  <2>3. /\ r.agents # <<>> /\ left \in Seq(Agents) /\ Range(r.agents) = {Head(r.agents)} \cup Range(left)
    BY <1>1, <2>1, RangeSeq DEF Ready
  <2>. HIDE DEF n, r
  <2>4. /\ models = <<>> /\ bounds = {} /\ live = <<>> /\ stored = {} /\ claims = {}
        /\ 0 + Len(r.plan) = ReSeed
        /\ \A k \in 1..Len(r.plan) : r.plan[k].template = Seeds(ReSeed)[0 + k]
        /\ \A a \in Agents : portfolio[a] = <<>> \/ a \in Range(r.agents)
    BY <2>1 DEF Rebuilt, Clearing, r
  <2>5. \A a \in Agents : portfolio'[a] = <<>> \/ a \in Range(left)
    BY <1>1, <2>1, <2>3, <2>4
  <2>6. left = <<>> => Range(left) = {}
    BY DEF Range
  <2>7. CASE pc = "clear_agents"
    BY <2>1, <2>2, <2>4, <2>5, <2>7 DEF Rebuilt, aggregator, n, Clearing
  <2>8. CASE pc # "clear_agents"
    <3>1. /\ n.pc \in {"done", "post"} /\ (n.pc = "done" => n.plan = <<>>)
          /\ n.pc \notin Clearing /\ n.pc \in Publishing \cup {"done"}
      BY <2>2, <2>8 DEF Clearing, Publishing
    <3>2. \A a \in Agents : portfolio'[a] = <<>>
      BY <2>5, <2>6, <2>8
    <3>3. Len(live') = 0 /\ Range(live') = {} /\ models' = [s \in {} |-> "nominal"]
      BY <2>1, <2>4 DEF Range
    <3>4. /\ Begun(n, {"model", "bounds", "list"}) = {} /\ Begun(n, {"bounds", "list"}) = {}
          /\ Begun(n, {"list"}) = {}
      BY <3>1 DEF Begun
    <3>5. /\ stored' = {} /\ bounds' = {} /\ claims' = {}
      BY <2>1, <2>4 DEF aggregator
    <3>6. \A k : k \notin 1..0
      OBVIOUS
    <3>. QED
      BY <2>2, <2>4, <3>1, <3>2, <3>3, <3>4, <3>5, <3>6 DEF Rebuilt, n
  <2>. QED
    BY <2>7, <2>8
<1>. QED
  BY <1>3, <1>4, <1>5, <1>6, <1>7

\* It publishes the pre-seed, one SLA after the other.
LEMMA PublishRebuilds ==
    ASSUME TypeInv, NEW w \in Workers, Resetting(thread[w]), Rebuilt(thread[w]), Publish(w)
    PROVE  Rebuilt(thread[w])'
<1>. DEFINE r == thread[w]
            n == thread'[w]
            s == Head(r.plan)
<1>1. /\ w \in Threads /\ r \in Thread /\ live \in Seq(SLA) /\ r.plan \in Seq(SLA) /\ r.plan # <<>>
      /\ s \in SLA /\ r.pc \in Publishing /\ r.job = "reset" /\ Published(w) = s
  <2>1. w \in Threads /\ r.pc \in Publishing
    BY Apart DEF Publish, PostSLA, PutModel, PutBounds, ListLive, At, Publishing
  <2>2. r \in Thread /\ live \in Seq(SLA) /\ r.plan \in Seq(SLA) /\ r.plan # <<>> /\ s \in SLA
    BY <2>1, Typed, Fields, PublishedSLA DEF Published
  <2>. QED
    BY <2>1, <2>2 DEF Resetting, Published
<1>2. ASSUME NEW pc, Goto(w, Moved(w, pc))
      PROVE  n.pc = pc /\ n.plan = r.plan
  BY <1>1, <1>2, GotoMoves, MovedFields
<1>3. /\ \A pc \in Publishing \cup {"done"} : pc \notin Clearing
      /\ {"post", "model", "bounds", "list"} = Publishing /\ "done" \notin Publishing
  BY DEF Publishing, Clearing
<1>. HIDE DEF r, n, s
<1>4. /\ Len(live) + Len(r.plan) = ReSeed
      /\ \A k \in 1..Len(live) : live[k].template = Seeds(ReSeed)[k]
      /\ \A k \in 1..Len(r.plan) : r.plan[k].template = Seeds(ReSeed)[Len(live) + k]
      /\ claims = {} /\ \A a \in Agents : portfolio[a] = <<>>
      /\ stored = Range(live) \cup Begun(r, {"model", "bounds", "list"})
      /\ models = [x \in Range(live) \cup Begun(r, {"bounds", "list"}) |-> "nominal"]
      /\ bounds = Range(live) \cup Begun(r, {"list"})
  BY <1>1, <1>3 DEF Rebuilt, r, Clearing
\* What has to be shown of a step that leaves the list and the plan.
<1>5. ASSUME n.pc \in Publishing, n.plan = r.plan, UNCHANGED <<live, claims, portfolio>>,
             stored' = Range(live) \cup Begun(n, {"model", "bounds", "list"}),
             models' = [x \in Range(live) \cup Begun(n, {"bounds", "list"}) |-> "nominal"],
             bounds' = Range(live) \cup Begun(n, {"list"})
      PROVE  Rebuilt(thread[w])'
  <2>1. n.pc \notin Clearing /\ n.pc # "done" /\ n.pc # "wipe" /\ n.pc # "clear_agents"
        /\ n.pc # "clear_live"
    BY <1>3, <1>5 DEF Publishing
  <2>. QED
    BY <1>4, <1>5, <2>1 DEF Rebuilt, n
<1>6. CASE PostSLA(w)
  <2>1. /\ r.pc = "post" /\ n.pc = "model" /\ n.plan = r.plan
        /\ stored' = stored \cup {s} /\ UNCHANGED <<orchestrator, claims>>
    BY <1>1, <1>2, <1>6 DEF PostSLA, At, r
  <2>. QED
    BY <1>3, <1>4, <1>5, <2>1 DEF orchestrator, Begun, s
<1>7. CASE PutModel(w)
  <2>1. /\ r.pc = "model" /\ n.pc = "bounds" /\ n.plan = r.plan
        /\ models' = WithModel(s, "nominal") /\ UNCHANGED <<bounds, live, portfolio, aggregator>>
    BY <1>1, <1>2, <1>7 DEF PutModel, At, r
  <2>2. DOMAIN models = Range(live) /\ models = [x \in Range(live) |-> "nominal"]
    BY <1>4, <2>1 DEF Begun
  <2>3. models' = [x \in Range(live) \cup {s} |-> "nominal"]
    BY <2>1, <2>2 DEF WithModel
  <2>. QED
    BY <1>3, <1>4, <1>5, <2>1, <2>3 DEF aggregator, Begun, s
<1>8. CASE PutBounds(w)
  <2>1. /\ r.pc = "bounds" /\ n.pc = "list" /\ n.plan = r.plan
        /\ bounds' = bounds \cup {s} /\ UNCHANGED <<models, live, portfolio, aggregator>>
    BY <1>1, <1>2, <1>8 DEF PutBounds, At, r
  <2>. QED
    BY <1>3, <1>4, <1>5, <2>1 DEF aggregator, Begun, s
<1>9. CASE ListLive(w)
  <2>. DEFINE left == Tail(r.plan)
              pc == IF left # <<>> THEN "post" ELSE "done"
  <2>1. /\ r.pc = "list" /\ live' = Append(live, s) /\ Goto(w, AfterPublishing(w))
        /\ UNCHANGED <<models, bounds, portfolio, aggregator>>
    BY <1>1, <1>9 DEF ListLive, At, r
  <2>2. n.pc = pc /\ n.plan = left
    <3>. DEFINE m == [Moved(w, pc) EXCEPT !.plan = left]
    <3>1. m.pc = pc /\ m.plan = left
      BY <1>1 DEF Moved, Thread, r
    <3>2. AfterPublishing(w) = m
      BY <1>1 DEF AfterPublishing, r
    <3>3. n = AfterPublishing(w)
      BY <1>1, <2>1, GotoMoves DEF n
    <3>. HIDE DEF m, pc
    <3>. QED
      BY <3>1, <3>2, <3>3
  <2>3. /\ Range(live') = Range(live) \cup {s} /\ live' \in Seq(SLA)
    BY <1>1, <2>1, RangeSeq
  <2>4. /\ Len(live) \in Nat /\ Len(live') = Len(live) + 1
        /\ live'[Len(live) + 1] = s /\ \A k \in 1..Len(live) : live'[k] = live[k]
    BY <1>1, <2>1
  <2>5. /\ Len(r.plan) \in Nat \ {0} /\ Len(left) = Len(r.plan) - 1 /\ s = r.plan[1]
        /\ \A k \in 1..Len(left) : left[k] = r.plan[k + 1] /\ k + 1 \in 1..Len(r.plan)
    BY <1>1 DEF s
  <2>6. \A k \in 1..Len(live') : live'[k].template = Seeds(ReSeed)[k]
    <3> SUFFICES ASSUME NEW k \in 1..Len(live')
                 PROVE  live'[k].template = Seeds(ReSeed)[k]
      OBVIOUS
    <3>1. CASE k \in 1..Len(live)
      BY <1>4, <2>4, <3>1
    <3>2. CASE k = Len(live) + 1
      <4>1. r.plan[1].template = Seeds(ReSeed)[Len(live) + 1]
        BY <1>4, <2>5
      <4>. QED
        BY <2>4, <2>5, <3>2, <4>1
    <3>. QED
      BY <2>4, <3>1, <3>2
  <2>7. \A k \in 1..Len(left) : left[k].template = Seeds(ReSeed)[Len(live') + k]
    <3> SUFFICES ASSUME NEW k \in 1..Len(left)
                 PROVE  left[k].template = Seeds(ReSeed)[Len(live') + k]
      OBVIOUS
    <3>1. left[k].template = Seeds(ReSeed)[Len(live) + (k + 1)]
      BY <1>4, <2>5
    <3>2. Len(live) + (k + 1) = Len(live') + k
      BY <2>4
    <3>. QED
      BY <3>1, <3>2
  <2>8. Len(live') + Len(left) = ReSeed
    <3>1. Len(live) + Len(r.plan) = ReSeed
      BY <1>4
    <3>2. /\ Len(live) \in Nat /\ Len(live') = Len(live) + 1
          /\ Len(r.plan) \in Nat /\ Len(left) = Len(r.plan) - 1
      BY <2>4, <2>5
    <3>. HIDE DEF left
    <3>3. \A i, j \in Nat : (i + 1) + (j - 1) = i + j
      OBVIOUS
    <3>. QED
      BY <3>1, <3>2, <3>3
  <2>9. /\ stored' = Range(live') /\ bounds' = Range(live')
        /\ models' = [x \in Range(live') |-> "nominal"]
        /\ claims' = {} /\ \A a \in Agents : portfolio'[a] = <<>>
    BY <1>4, <2>1, <2>3 DEF aggregator, Begun, s
  <2>10. /\ n.pc \notin Clearing /\ n.pc \in Publishing \cup {"done"}
         /\ n.pc = "done" => n.plan = <<>>
         /\ n.pc # "wipe" /\ n.pc # "clear_agents" /\ n.pc # "clear_live"
         /\ Begun(n, {"model", "bounds", "list"}) = {} /\ Begun(n, {"bounds", "list"}) = {}
         /\ Begun(n, {"list"}) = {}
    BY <1>3, <2>2 DEF Publishing, Begun
  <2>. HIDE DEF left, pc
  <2>. QED
    BY <2>2, <2>6, <2>7, <2>8, <2>9, <2>10 DEF Rebuilt, n
<1>. QED
  BY <1>6, <1>7, <1>8, <1>9 DEF Publish

\* The scenario of a thread only changes when it is answered.
LEMMA JobKeeps ==
    ASSUME TypeInv, DutyInv, NEW w \in Workers, thread[w].pc # "idle", StepOf(w)
    PROVE  thread'[w].job = thread[w].job \/ (Answer(w) /\ thread'[w] = Idle)
<1>. DEFINE r == thread[w]
<1>1. w \in Threads /\ r \in Thread /\ w # Loop
  BY Apart, Typed
<1>2. \A pc : Moved(w, pc).job = r.job
  BY <1>1, MovedFields
<1>3. ASSUME \/ Wipe(w) \/ ClearModels(w) \/ ClearBounds(w) \/ CheckBounds(w) \/ WriteModel(w)
             \/ PostSLA(w) \/ PutModel(w) \/ PutBounds(w) \/ CallFails(w)
      PROVE  thread'[w].job = r.job
  <2>1. \E pc : Goto(w, Moved(w, pc))
    BY <1>1, <1>3 DEF Wipe, ClearModels, ClearBounds, CheckBounds, WriteModel, PostSLA, PutModel,
                      PutBounds, CallFails
  <2>. QED
    BY <1>1, <1>2, <2>1, GotoMoves
<1>4. ASSUME ClearLive(w) \/ ClearAgent(w) PROVE thread'[w].job = r.job
  <2>1. \A pc, list : [Moved(w, pc) EXCEPT !.agents = list].job = r.job
    BY <1>1 DEF Moved, Thread
  <2>2. PICK n : Goto(w, n) /\ n.job = r.job
    BY <1>4, <2>1 DEF ClearLive, ClearAgent
  <2>. QED
    BY <1>1, <2>2, GotoMoves
<1>5. ASSUME Visit(w) PROVE thread'[w].job = r.job
  <2>1. \A pc : [Moved(w, pc) EXCEPT !.sla = Head(r.todo), !.todo = Tail(@)].job = r.job
    BY <1>1 DEF Moved, Thread
  <2>2. PICK n : Goto(w, n) /\ n.job = r.job
    BY <1>2, <1>5, <2>1 DEF Visit
  <2>. QED
    BY <1>1, <2>2, GotoMoves
<1>6. ASSUME Answer(w) PROVE thread'[w] = Idle
  BY <1>1, <1>6, GotoMoves DEF Answer
<1>7. ASSUME ListLive(w) PROVE thread'[w].job = r.job
  <2>1. \A pc : [Moved(w, pc) EXCEPT !.plan = Tail(r.plan)].job = r.job
    BY <1>1 DEF Moved, Thread
  <2>2. r.job \in {"reset", "cloud"}
    BY <1>7 DEF ListLive, At, DutyInv, OnDuty, Publishing
  <2>3. AfterPublishing(w).job = r.job
    BY <2>1, <2>2 DEF AfterPublishing
  <2>. QED
    BY <1>1, <1>7, <2>3, GotoMoves DEF ListLive
<1>8. ~Reset(w) /\ ~HospitalReshops(w) /\ ~CloudBargain(w)
      /\ \A a \in Agents, scenario \in Scenarios : ~ChangeAS(w, scenario, a)
  BY DEF Reset, HospitalReshops, CloudBargain, ChangeAS, Request
<1>. QED
  BY <1>1, <1>3, <1>4, <1>5, <1>6, <1>7, <1>8 DEF StepOf, RequestStep, Publish

LEMMA FaultsGrow ==
    ASSUME TypeInv, Next, faults' = 0
    PROVE  faults = 0 /\ \A t \in Threads : ~CallFails(t)
<1>1. faults \in Nat
  BY Typed
<1>2. \A t \in Threads : CallFails(t) => faults' = faults + 1
  BY DEF CallFails
<1>3. PICK t \in Threads : StepOf(t)
  BY Steppers
<1>4. StepOf(t) => faults' \in {faults, faults + 1}
  BY DEF StepOf, Publish, PostSLA, PutModel, PutBounds, ListLive, CallFails, RequestStep, Reset,
         HospitalReshops, CloudBargain, ChangeAS, Request, Draw, Wipe, ClearModels, ClearBounds,
         ClearLive, ClearAgent, Visit, CheckBounds, WriteModel, Answer, TickStep, StartTick,
         ReadMarket, PostClaim, AppendClaim, EndShopping, Shop, NextAgent, NextClaim, Measure,
         GetSLA, FileComplaint, counters
<1>. QED
  BY <1>1, <1>2, <1>3, <1>4

\* What an idle worker does is to take a request.
LEMMA WorkerBegins ==
    ASSUME TypeInv, NEW w \in Workers, StepOf(w), thread[w].pc = "idle"
    PROVE  \/ Reset(w) \/ HospitalReshops(w) \/ CloudBargain(w)
           \/ \E a \in Agents, scenario \in Scenarios : ChangeAS(w, scenario, a)
  BY Apart DEF StepOf, Publish, PostSLA, PutModel, PutBounds, ListLive, CallFails, RequestStep,
     Wipe, ClearModels, ClearBounds, ClearLive, ClearAgent, Visit, CheckBounds, WriteModel, Answer,
     At

\* A reset begins with its request and nowhere else.
LEMMA ResetsBegin ==
    ASSUME TypeInv, DutyInv, Next, NEW w \in Workers,
           ~Resetting(thread[w]), Resetting(thread[w])'
    PROVE  Reset(w)
<1>1. PICK t \in Threads : StepOf(t)
  BY Steppers
<1>2. w \in Threads /\ t = w
  BY <1>1, Apart, OthersStay DEF Resetting
<1>3. thread[w].pc = "idle"
  BY <1>1, <1>2, JobKeeps, Idles DEF Resetting
<1>. QED
  BY <1>1, <1>2, <1>3, WorkerBegins, RequestBegins DEF Resetting

\* While nothing disturbs a reset, each step is the reset's next one.
LEMMA ResetSteps ==
    ASSUME SurvivalInv, Next, ~clash', faults' = 0, NEW w \in Workers, Resetting(thread[w])
    PROVE  \/ Publish(w)
           \/ Wipe(w) \/ ClearModels(w) \/ ClearBounds(w) \/ ClearLive(w) \/ ClearAgent(w)
           \/ Answer(w)
<1>1. PICK t \in Threads : StepOf(t)
  BY Steppers
<1>2. t = w
  BY <1>1, SurvivalFacts, NobodyElse DEF Resetting, Busy
<1>3. w # Loop /\ ~CallFails(w)
  BY Apart, SurvivalFacts, FaultsGrow
<1>4. OnDuty(thread[w]) /\ thread[w].job = "reset" /\ thread[w].pc # "idle"
  BY SurvivalFacts DEF DutyInv, Resetting
<1>5. RequestStep(w) =>
        \/ Wipe(w) \/ ClearModels(w) \/ ClearBounds(w) \/ ClearLive(w) \/ ClearAgent(w)
        \/ Answer(w)
  BY <1>4 DEF RequestStep, Reset, HospitalReshops, CloudBargain, ChangeAS, Request, Visit,
              CheckBounds, WriteModel, At, OnDuty
<1>. QED
  BY <1>1, <1>2, <1>3, <1>5 DEF StepOf

LEMMA NextReset == SurvivalInv /\ ResetInv /\ [Next]_vars => ResetInv'
<1> SUFFICES ASSUME SurvivalInv, ResetInv, [Next]_vars PROVE ResetInv'
  OBVIOUS
<1>1. CASE UNCHANGED vars
  BY <1>1 DEF vars, orchestrator, aggregator, counters, ResetInv, Resetting, Rebuilt, Begun
<1>2. CASE Next
  <2> SUFFICES ASSUME ~clash', faults' = 0, NEW w \in Workers, Resetting(thread[w])'
               PROVE  Rebuilt(thread[w])'
    BY DEF ResetInv
  <2>1. TypeInv /\ DutyInv /\ ~clash /\ faults = 0
    BY <1>2, SurvivalFacts, FaultsGrow
  <2>2. CASE Resetting(thread[w])
    <3>1. Rebuilt(thread[w])
      BY <2>1, <2>2 DEF ResetInv
    <3>2. ~Answer(w)
      <4>1. Answer(w) => thread'[w] = Idle
        BY <2>1, Apart, GotoMoves DEF Answer
      <4>. QED
        BY <4>1, Idles DEF Resetting
    <3>. QED
      BY <1>2, <2>1, <2>2, <3>1, <3>2, ResetSteps, ClearingRebuilds, PublishRebuilds
  <2>3. CASE ~Resetting(thread[w])
    BY <1>2, <2>1, <2>3, ResetsBegin, ResetBegins
  <2>. QED
    BY <2>2, <2>3
<1>. QED
  BY <1>1, <1>2

LEMMA SurvivalInvariant == Spec => []SurvivalInv
<1>1. Init => SurvivalInv
  BY InitTyped, InitUndisturbed DEF SurvivalInv
<1>. QED
  BY <1>1, NextSurvival, PTL DEF Spec

\* A reset that nothing disturbed leaves the market that a pre-seed makes, for
\* every number of agents, templates and SLAs to seed.
THEOREM ResetsAreClean == Spec => []CleanReset
<1>1. Init => ResetInv
  BY Idles, Apart DEF Init, ResetInv, Resetting
<1>2. ASSUME TypeInv, ResetInv PROVE CleanReset
  <2> SUFFICES ASSUME NEW w \in Workers, At(w, "done"), thread[w].job = "reset", ~clash, faults = 0
               PROVE  /\ [i \in DOMAIN live |-> live[i].template] = Seeds(ReSeed)
                      /\ stored = Range(live) /\ bounds = stored
                      /\ models = [s \in stored |-> "nominal"]
                      /\ claims = {} /\ \A a \in Agents : portfolio[a] = <<>>
    BY DEF CleanReset
  <2>1. Rebuilt(thread[w]) /\ thread[w].pc = "done" /\ "done" \notin Clearing
    BY <1>2 DEF ResetInv, Resetting, At, Clearing
  <2>2. live \in Seq(SLA) /\ ReSeed \in Nat
    BY <1>2, Typed, SimulatorAssumption
  <2>3. /\ thread[w].plan = <<>> /\ Len(live) + Len(thread[w].plan) = ReSeed
        /\ \A n \in 1..Len(live) : live[n].template = Seeds(ReSeed)[n]
    BY <2>1 DEF Rebuilt
  <2>4. Len(live) = ReSeed
    BY <2>2, <2>3
  <2>5. [i \in DOMAIN live |-> live[i].template] = Seeds(ReSeed)
    BY <2>2, <2>3, <2>4 DEF Seeds
  <2>6. \A steps : "done" \notin steps => Begun(thread[w], steps) = {}
    BY <2>1 DEF Begun
  <2>7. /\ stored = Range(live) /\ bounds = Range(live)
        /\ models = [s \in Range(live) |-> "nominal"]
        /\ claims = {} /\ \A a \in Agents : portfolio[a] = <<>>
    BY <2>1, <2>6 DEF Rebuilt
  <2>. QED
    BY <2>5, <2>7
<1>3. SurvivalInv => TypeInv
  BY DEF SurvivalInv
<1>. QED
  BY <1>1, <1>2, <1>3, NextReset, SurvivalInvariant, PTL DEF Spec

-----------------------------------------------------------------------------
(* What the agents hold is stored.                                         *)

Calm == ~clash /\ faults = 0 /\ \A w \in Workers : ~Resetting(thread[w])

\* What is held is stored; what is about to be claimed or held is stored.
HeldInv ==
    Calm =>
        /\ \A a \in Agents : \A s \in Range(portfolio[a]) : s \in stored /\ <<a, s>> \in claims
        /\ thread[Loop].pc \in {"shop", "claim", "append"} => thread[Loop].market \subseteq stored
        /\ thread[Loop].pc \in {"claim", "append"} => thread[Loop].sla \in stored
        /\ thread[Loop].pc = "append" => <<thread[Loop].who, thread[Loop].sla>> \in claims

\* What is stored only grows, and the main thread claims and holds nothing new.
LEMMA HeldKeeps ==
    ASSUME TypeInv, HeldInv, Calm, NEW t \in Threads, StepOf(t), portfolio' = portfolio,
           stored \subseteq stored', claims \subseteq claims',
           t = Loop => thread'[Loop].pc \notin {"shop", "claim", "append"}
    PROVE  HeldInv'
<1>1. t # Loop => thread'[Loop] = thread[Loop]
  BY Apart, OthersStay
<1>2. /\ \A a \in Agents : \A s \in Range(portfolio'[a]) : s \in stored' /\ <<a, s>> \in claims'
  BY DEF HeldInv
<1>3. CASE t = Loop
  BY <1>2, <1>3 DEF HeldInv
<1>4. CASE t # Loop
  <2>1. thread'[Loop] = thread[Loop]
    BY <1>1, <1>4
  <2>. QED
    BY <1>2, <2>1 DEF HeldInv
<1>. QED
  BY <1>3, <1>4

\* The tick: it claims what is on the market it read, which was stored.
LEMMA TickHolds ==
    ASSUME TypeInv, HeldInv, Calm, TickStep
    PROVE  HeldInv'
<1>. DEFINE r == thread[Loop]
<1>r. /\ r \in Thread /\ Loop \in Threads /\ portfolio \in [Agents -> Seq(SLA)] /\ r.sla \in SLA
      /\ r.who \in Agents /\ Ready(r)
  BY Typed, Fields, Apart
<1>s. StepOf(Loop)
  BY DEF StepOf
<1>h. /\ \A a \in Agents : \A s \in Range(portfolio[a]) : s \in stored /\ <<a, s>> \in claims
      /\ r.pc \in {"shop", "claim", "append"} => r.market \subseteq stored
      /\ r.pc \in {"claim", "append"} => r.sla \in stored
      /\ r.pc = "append" => <<r.who, r.sla>> \in claims
  BY DEF HeldInv
<1>1. CASE ReadMarket
  <2>. DEFINE n == [Moved(Loop, "shop") EXCEPT !.market = stored, !.rest = Buyers]
  <2>1. n.pc = "shop" /\ n.market = stored
    BY <1>r DEF Moved, Thread
  <2>2. Goto(Loop, n) /\ UNCHANGED <<portfolio, stored, claims>>
    BY <1>1 DEF ReadMarket, orchestrator, aggregator
  <2>. HIDE DEF n
  <2>3. thread'[Loop] = n
    BY <1>r, <2>2, GotoMoves
  <2>. QED
    BY <1>h, <2>1, <2>2, <2>3 DEF HeldInv
<1>2. ASSUME NEW a \in Buyers, Shop(a) PROVE HeldInv'
  <2>1. /\ r.pc = "shop" /\ UNCHANGED <<portfolio, stored, claims>>
    BY <1>2 DEF Shop, At, orchestrator, aggregator
  <2>2. ASSUME NEW s
        PROVE  LET n == [Moved(Loop, "claim") EXCEPT !.sla = s, !.who = a, !.rest = @ \ {a}]
               IN  n.pc = "claim" /\ n.market = r.market /\ n.sla = s
    BY <1>r DEF Moved, Thread
  <2>3. /\ [r EXCEPT !.rest = @ \ {a}].pc = "shop"
        /\ [r EXCEPT !.rest = @ \ {a}].market = r.market
    BY <1>r, <2>1 DEF Thread
  <2>4. \A s \in Acceptable(a) : s \in stored
    BY <1>h, <2>1 DEF Acceptable
  <2>5. PICK n : /\ Goto(Loop, n) /\ n.market = r.market
                 /\ n.pc = "shop" \/ (n.pc = "claim" /\ n.sla \in stored)
    <3>1. CASE Goto(Loop, [r EXCEPT !.rest = @ \ {a}])
      BY <2>3, <3>1
    <3>2. ASSUME NEW s \in Acceptable(a),
                 Goto(Loop, [Moved(Loop, "claim") EXCEPT !.sla = s, !.who = a, !.rest = @ \ {a}])
          PROVE  \E n : /\ Goto(Loop, n) /\ n.market = r.market
                        /\ n.pc = "shop" \/ (n.pc = "claim" /\ n.sla \in stored)
      <4>. DEFINE n == [Moved(Loop, "claim") EXCEPT !.sla = s, !.who = a, !.rest = @ \ {a}]
      <4>1. n.pc = "claim" /\ n.market = r.market /\ n.sla = s
        BY <2>2, Zenon
      <4>2. Goto(Loop, n)
        BY <3>2, Zenon
      <4>. HIDE DEF n
      <4>. QED
        BY <2>4, <4>1, <4>2
    <3>. QED
      BY <1>2, <3>1, <3>2, Zenon DEF Shop
  <2>6. thread'[Loop] = n
    BY <1>r, <2>5, GotoMoves
  <2>. QED
    BY <1>h, <2>1, <2>5, <2>6 DEF HeldInv
<1>3. CASE PostClaim
  <2>1. /\ r.pc = "claim" /\ Goto(Loop, Moved(Loop, "append")) /\ UNCHANGED <<portfolio, stored>>
        /\ claims' = claims \cup ({<<r.who, r.sla>>} \cap (Agents \X stored))
    BY <1>3 DEF PostClaim, At, orchestrator
  <2>2. /\ thread'[Loop].pc = "append" /\ thread'[Loop].who = r.who /\ thread'[Loop].sla = r.sla
        /\ thread'[Loop].market = r.market
    <3>1. Moved(Loop, "append").market = r.market
      BY <1>r DEF Moved, Thread
    <3>. QED
      BY <1>r, <2>1, <3>1, GotoMoves, MovedFields
  <2>3. claims \subseteq claims' /\ <<r.who, r.sla>> \in claims'
    BY <1>r, <1>h, <2>1
  <2>. QED
    BY <1>h, <2>1, <2>2, <2>3 DEF HeldInv
<1>4. CASE AppendClaim
  <2>. DEFINE n == [Moved(Loop, "shop") EXCEPT !.made = @ + 1]
  <2>1. n.pc = "shop" /\ n.market = r.market
    BY <1>r DEF Moved, Thread
  <2>2. /\ r.pc = "append" /\ Goto(Loop, n) /\ UNCHANGED <<stored, claims>>
        /\ portfolio' = [portfolio EXCEPT ![r.who] = Append(@, r.sla)]
    BY <1>4 DEF AppendClaim, At, aggregator
  <2>. HIDE DEF n
  <2>3. thread'[Loop] = n
    BY <1>r, <2>2, GotoMoves
  <2>4. \A a \in Agents : \A s \in Range(portfolio'[a]) :
            s \in Range(portfolio[a]) \/ (a = r.who /\ s = r.sla)
    <3>1. Range(Append(portfolio[r.who], r.sla)) = Range(portfolio[r.who]) \cup {r.sla}
      BY <1>r, RangeSeq
    <3>. QED
      BY <1>r, <2>2, <3>1
  <2>5. r.sla \in stored /\ <<r.who, r.sla>> \in claims
    BY <1>h, <2>2
  <2>6. \A a \in Agents : \A s \in Range(portfolio'[a]) : s \in stored /\ <<a, s>> \in claims
    BY <1>h, <2>4, <2>5
  <2>. QED
    BY <1>h, <2>1, <2>2, <2>3, <2>6 DEF HeldInv
<1>5. CASE StartTick \/ EndShopping \/ NextAgent \/ NextClaim \/ Measure \/ GetSLA \/ FileComplaint
  <2>1. UNCHANGED <<portfolio, stored, claims>>
    BY <1>5 DEF StartTick, EndShopping, NextAgent, NextClaim, Measure, Die, GetSLA, FileComplaint,
                orchestrator, aggregator
  <2>2. thread'[Loop].pc \notin {"shop", "claim", "append"}
    <3>1. CASE StartTick
      <4>1. Start("tick", "post") \in Thread /\ Start("tick", "post").pc = "post"
        BY Starts, StepNames
      <4>2. \A plan : [Start("tick", "post") EXCEPT !.plan = plan].pc = "post"
        BY <4>1 DEF Thread
      <4>3. Start("tick", "market").pc = "market"
        BY Starts, StepNames
      <4>4. PICK n : Goto(Loop, n) /\ n.pc \in {"post", "market"}
        BY <3>1, <4>2, <4>3 DEF StartTick
      <4>. QED
        BY <1>r, <4>4, GotoMoves
    <3>2. CASE EndShopping
      <4>1. Start("tick", "sample") \in Thread /\ Start("tick", "sample").pc = "sample"
        BY Starts, StepNames
      <4>2. [Start("tick", "sample") EXCEPT !.agents = AgentList].pc = "sample"
        BY <4>1 DEF Thread
      <4>3. PICK n : Goto(Loop, n) /\ n.pc = "sample"
        BY <3>2, <4>2 DEF EndShopping
      <4>. QED
        BY <1>r, <4>3, GotoMoves
    <3>3. CASE NextAgent \/ NextClaim
      <4>1. r.pc = "sample"
        BY <3>3 DEF NextAgent, NextClaim, At
      <4>4. NextAgent => \E n : Goto(Loop, n) /\ n.pc \in {"idle", "sample"}
        <5> SUFFICES ASSUME NextAgent
                     PROVE  \E n : Goto(Loop, n) /\ n.pc \in {"idle", "sample"}
          OBVIOUS
        <5>. DEFINE a == Head(r.agents)
                    n == [r EXCEPT !.agents = Tail(@), !.who = a, !.todo = portfolio[a]]
        <5>1. n.pc = "sample" /\ Idle.pc = "idle"
          BY <1>r, <4>1, Idles DEF Thread
        <5>2. Goto(Loop, Idle) \/ Goto(Loop, n)
          BY DEF NextAgent
        <5>. HIDE DEF n
        <5>. QED
          BY <5>1, <5>2
      <4>5. NextClaim => \E n : Goto(Loop, n) /\ n.pc \in {"measure", "sample"}
        <5> SUFFICES ASSUME NextClaim
                     PROVE  \E n : Goto(Loop, n) /\ n.pc \in {"measure", "sample"}
          OBVIOUS
        <5>. DEFINE s == Head(r.todo)
                    n == [r EXCEPT !.sla = s, !.todo = Tail(@),
                                   !.pc = IF s \in DOMAIN models THEN "measure" ELSE @]
        <5>1. n.pc \in {"measure", "sample"}
          BY <1>r, <4>1 DEF Thread
        <5>2. Goto(Loop, n)
          BY DEF NextClaim
        <5>. QED
          BY <5>1, <5>2
      <4>6. PICK n : Goto(Loop, n) /\ n.pc \in {"idle", "measure", "sample"}
        BY <3>3, <4>4, <4>5
      <4>. QED
        BY <1>r, <4>6, GotoMoves
    <3>4. CASE Measure
      <4>1. \A bad : [Moved(Loop, "get") EXCEPT !.bad = bad].pc = "get"
        BY <1>r DEF Moved, Thread
      <4>2. r.pc = "measure"
        BY <3>4 DEF Measure, At
      <4>3. CASE Die
        BY <4>2, <4>3 DEF Die
      <4>4. CASE ~Die
        <5>1. PICK n : Goto(Loop, n) /\ n.pc = "get"
          BY <3>4, <4>1, <4>4 DEF Measure
        <5>. QED
          BY <1>r, <5>1, GotoMoves
      <4>. QED
        BY <4>3, <4>4
    <3>6. CASE GetSLA
      <4>1. \A pc : [Moved(Loop, pc) EXCEPT !.bad = FALSE].pc = pc
        BY <1>r DEF Moved, Thread
      <4>2. PICK n : Goto(Loop, n) /\ n.pc \in {"file", "sample"}
        BY <3>6, <4>1 DEF GetSLA
      <4>. QED
        BY <1>r, <4>2, GotoMoves
    <3>5. CASE FileComplaint
      BY <1>r, <3>5, GotoMoves, MovedFields DEF FileComplaint
    <3>. QED
      BY <1>5, <3>1, <3>2, <3>3, <3>4, <3>5, <3>6
  <2>. QED
    BY <1>r, <1>s, <2>1, <2>2, HeldKeeps
<1>. QED
  BY <1>1, <1>2, <1>3, <1>4, <1>5 DEF TickStep

\* A publication stores one SLA more, if it changes what is stored at all.
LEMMA PublishStores ==
    ASSUME TypeInv, NEW t \in Threads, Publish(t)
    PROVE  /\ portfolio' = portfolio /\ claims' = claims /\ stored \subseteq stored'
           /\ thread'[t].pc \notin {"shop", "claim", "append"}
<1>1. UNCHANGED <<portfolio, claims>> /\ stored \subseteq stored'
  BY DEF Publish, PostSLA, PutModel, PutBounds, ListLive, orchestrator, aggregator
<1>2. CASE PostSLA(t) \/ PutModel(t) \/ PutBounds(t)
  <2>1. \E pc \in {"model", "bounds", "list"} : Goto(t, Moved(t, pc))
    BY <1>2 DEF PostSLA, PutModel, PutBounds
  <2>. QED
    BY <1>1, <2>1, Typed, GotoMoves, MovedFields
<1>3. CASE ListLive(t)
  <2>. DEFINE left == Tail(thread[t].plan)
  <2>1. \A pc : [Moved(t, pc) EXCEPT !.plan = left].pc = pc
    BY Typed DEF Moved, Thread
  <2>2. AfterPublishing(t).pc \in {"post", "idle", "market", "done"}
    BY <2>1, Idles DEF AfterPublishing
  <2>. QED
    BY <1>1, <1>3, <2>2, GotoMoves DEF ListLive
<1>. QED
  BY <1>2, <1>3 DEF Publish

\* A request that resets nothing leaves what is held and what is stored.
LEMMA ServiceHolds ==
    ASSUME DutyInv, NEW w \in Workers, ~Resetting(thread[w]), RequestStep(w)
    PROVE  UNCHANGED <<portfolio, aggregator>>
<1>1. thread[w].pc \notin Clearing
  BY DEF DutyInv, OnDuty, Resetting, Clearing
<1>. QED
  BY <1>1 DEF RequestStep, Reset, HospitalReshops, CloudBargain, ChangeAS, Request, Wipe,
     ClearModels, ClearBounds, ClearLive, ClearAgent, Visit, CheckBounds, WriteModel, Answer, At,
     Clearing, orchestrator, aggregator

\* When an undisturbed reset is over, nobody holds a claim and the tick has not begun.
LEMMA ResetEnds ==
    ASSUME SurvivalInv, ResetInv, Next, ~clash', faults' = 0, NEW w \in Workers,
           Resetting(thread[w]), ~Resetting(thread[w])'
    PROVE  /\ \A a \in Agents : portfolio'[a] = <<>>
           /\ thread'[Loop].pc = "idle"
<1>1. TypeInv /\ DutyInv /\ ~clash /\ faults = 0 /\ ~Disturbs
  BY SurvivalFacts, FaultsGrow
<1>2. Rebuilt(thread[w]) /\ w \in Threads /\ w # Loop
  BY <1>1, Apart DEF ResetInv
<1>3. Answer(w)
  <2> SUFFICES ASSUME ~Answer(w) PROVE FALSE
    OBVIOUS
  <2>1. Rebuilt(thread[w])' /\ StepOf(w)
    <3>1. \/ Publish(w) \/ Wipe(w) \/ ClearModels(w) \/ ClearBounds(w) \/ ClearLive(w)
          \/ ClearAgent(w)
      BY ResetSteps
    <3>2. StepOf(w)
      BY <3>1 DEF StepOf, RequestStep
    <3>. QED
      BY <1>1, <1>2, <3>1, <3>2, ClearingRebuilds, PublishRebuilds
  <2>2. thread'[w].pc # "idle"
    BY <2>1 DEF Rebuilt, Clearing, Publishing
  <2>3. thread'[w].job = "reset"
    BY <1>1, <2>1, JobKeeps DEF Resetting
  <2>. QED
    BY <2>2, <2>3 DEF Resetting
<1>4. thread[w].pc = "done" /\ UNCHANGED portfolio
  BY <1>2, <1>3 DEF Answer, At, Rebuilt, Clearing, Publishing, orchestrator
<1>5. \A a \in Agents : portfolio[a] = <<>>
  BY <1>2, <1>4 DEF Rebuilt, Clearing
<1>6. thread[Loop].pc = "idle"
  BY <1>1 DEF Disturbs, Busy, Resetting
<1>7. thread'[Loop] = thread[Loop]
  BY <1>1, <1>2, <1>3, Apart, OthersStay DEF StepOf, RequestStep
<1>. QED
  BY <1>4, <1>5, <1>6, <1>7

LEMMA NextHeld == SurvivalInv /\ ResetInv /\ HeldInv /\ [Next]_vars => HeldInv'
<1> SUFFICES ASSUME SurvivalInv, ResetInv, HeldInv, [Next]_vars PROVE HeldInv'
  OBVIOUS
<1>1. CASE UNCHANGED vars
  BY <1>1 DEF vars, orchestrator, aggregator, counters, HeldInv, Calm, Resetting
<1>2. CASE Next
  <2> SUFFICES ASSUME Calm' PROVE HeldInv'
    BY DEF HeldInv
  <2>0. ~clash' /\ faults' = 0 /\ \A w \in Workers : ~Resetting(thread[w])'
    BY DEF Calm
  <2>1. TypeInv /\ DutyInv /\ ~clash /\ faults = 0 /\ \A t \in Threads : ~CallFails(t)
    BY <1>2, <2>0, SurvivalFacts, FaultsGrow
  <2>2. CASE Calm
    <3>1. PICK t \in Threads : StepOf(t)
      BY <1>2, Steppers
    <3>2. CASE Publish(t)
      <4>1. /\ portfolio' = portfolio /\ claims \subseteq claims' /\ stored \subseteq stored'
            /\ thread'[t].pc \notin {"shop", "claim", "append"}
        BY <2>1, <3>2, PublishStores
      <4>. QED
        BY <2>1, <2>2, <3>1, <4>1, HeldKeeps
    <3>3. CASE t \in Workers /\ RequestStep(t)
      <4>1. t # Loop /\ UNCHANGED <<portfolio, aggregator>>
        BY <2>1, <2>2, <3>3, Apart, ServiceHolds DEF Calm
      <4>. QED
        BY <2>1, <2>2, <3>1, <4>1, HeldKeeps DEF aggregator
    <3>4. CASE t = Loop /\ TickStep
      BY <2>1, <2>2, <3>4, TickHolds
    <3>. QED
      BY <2>1, <3>1, <3>2, <3>3, <3>4 DEF StepOf
  <2>3. CASE ~Calm
    <3>1. PICK w \in Workers : Resetting(thread[w])
      BY <2>1, <2>3 DEF Calm
    <3>2. /\ \A a \in Agents : portfolio'[a] = <<>>
          /\ thread'[Loop].pc = "idle"
      BY <1>2, <2>0, <3>1, ResetEnds
    <3>3. Range(<<>>) = {}
      BY EmptyInjective
    <3>. QED
      BY <3>2, <3>3 DEF HeldInv
  <2>. QED
    BY <2>2, <2>3
<1>. QED
  BY <1>1, <1>2

\* The claims that the agents hold are stored by the aggregator, with the SLAs that
\* they are about, unless a reset is under way or something went wrong, for every
\* number of agents, templates and threads.
THEOREM HeldIsStored == Spec => []PortfolioIsStored
<1>1. Init => ResetInv /\ HeldInv
  <2> SUFFICES ASSUME Init PROVE ResetInv /\ HeldInv
    OBVIOUS
  <2>1. Range(<<>>) = {}
    BY EmptyInjective
  <2>2. \A a \in Agents : portfolio[a] = <<>>
    BY DEF Init
  <2>3. thread[Loop].pc \in {"idle", "post"}
    <3>1. "seed" \in Jobs /\ "post" \in Steps
      BY DEF Jobs, Steps
    <3>2. Start("seed", "post") \in Thread /\ Start("seed", "post").pc = "post"
      BY <3>1, Starts
    <3>3. \A plan : [Start("seed", "post") EXCEPT !.plan = plan].pc = "post"
      BY <3>2 DEF Thread
    <3>. QED
      BY <3>3, Apart, Idles DEF Init
  <2>4. ResetInv
    BY Idles, Apart DEF Init, ResetInv, Resetting
  <2>. QED
    BY <2>1, <2>2, <2>3, <2>4 DEF HeldInv
<1>2. SurvivalInv /\ HeldInv => PortfolioIsStored
  <2>1. SurvivalInv => faults = 0 \/ faults > 0
    BY Typed DEF SurvivalInv
  <2>. QED
    BY <2>1 DEF HeldInv, Calm, PortfolioIsStored, Resetting, Busy
<1>. QED
  BY <1>1, <1>2, NextHeld, NextReset, SurvivalInvariant, PTL DEF Spec

-----------------------------------------------------------------------------
(* What a step does to the SLAs that its thread is to publish.             *)

\* The thread is past nothing of its plan; or it has a new one.
Kept(r, n) ==
    /\ n.plan = r.plan /\ n.scope = r.scope /\ n.job = r.job
    /\ n.pc = "idle" => r.pc = "idle"

Blank(n) == n.plan = <<>> /\ n.job # "seed"

\* The thread begins to publish SLAs whose nonces it has just drawn.
Drew(n) ==
    /\ n.job # "seed" /\ n.scope = {}
    /\ \E templates \in Seq(Templates) : Draw(templates) /\ n.plan = Drawn(templates)

LEMMA KeptFields ==
    ASSUME TypeInv, NEW t \in Threads, NEW pc, pc # "idle"
    PROVE  /\ Kept(thread[t], Moved(t, pc))
           /\ \A x : /\ Kept(thread[t], [Moved(t, pc) EXCEPT !.bad = x])
                     /\ Kept(thread[t], [Moved(t, pc) EXCEPT !.agents = x])
                     /\ Kept(thread[t], [Moved(t, pc) EXCEPT !.made = x])
           /\ \A x, y : /\ Kept(thread[t], [Moved(t, pc) EXCEPT !.market = x, !.rest = y])
                        /\ Kept(thread[t], [Moved(t, pc) EXCEPT !.sla = x, !.todo = y])
  BY Typed DEF Kept, Moved, Thread

LEMMA BlankStarts ==
    ASSUME NEW job \in Jobs \ {"seed"}, NEW pc \in Steps
    PROVE  /\ Blank(Start(job, pc)) /\ Start(job, pc).scope = {}
           /\ \A x : /\ Blank([Start(job, pc) EXCEPT !.agents = x])
                     /\ Blank([Start(job, pc) EXCEPT !.sla = x])
                     /\ [Start(job, pc) EXCEPT !.sla = x].scope = {}
           /\ \A x, y, z : /\ Blank([Start(job, pc) EXCEPT !.who = x, !.todo = y, !.scope = z])
                           /\ [Start(job, pc) EXCEPT !.who = x, !.todo = y, !.scope = z].scope = z
<1>1. Start(job, pc) \in Thread /\ Start(job, pc).plan = <<>> /\ Start(job, pc).job = job
  BY Starts
<1>2. Start(job, pc).scope = {}
  BY DEF Start
<1>. HIDE DEF Start
<1>. QED
  BY <1>1, <1>2 DEF Blank, Thread

LEMMA PlanStarts ==
    ASSUME NEW job \in Jobs \ {"seed"}, NEW pc \in Steps, NEW x
    PROVE  /\ [Start(job, pc) EXCEPT !.plan = x].plan = x
           /\ [Start(job, pc) EXCEPT !.plan = x].pc = pc
           /\ [Start(job, pc) EXCEPT !.plan = x].scope = {}
           /\ [Start(job, pc) EXCEPT !.plan = x].job # "seed"
<1>1. Start(job, pc) \in Thread /\ Start(job, pc).job = job /\ Start(job, pc).pc = pc
  BY Starts
<1>2. Start(job, pc).scope = {}
  BY DEF Start
<1>. HIDE DEF Start
<1>. QED
  BY <1>1, <1>2 DEF Thread

LEMMA BlankIdle == Blank(Idle) /\ Idle.scope = {}
<1>1. "tick" \in Jobs \ {"seed"} /\ "idle" \in Steps
  BY StepNames
<1>. QED
  BY <1>1, BlankStarts DEF Idle

\* The tick draws at its beginning only.
LEMMA TickPlans ==
    ASSUME TypeInv, TickStep
    PROVE  /\ UNCHANGED <<live, models, stored>>
           /\ \/ UNCHANGED nonces /\ (Kept(thread[Loop], thread'[Loop]) \/ Blank(thread'[Loop]))
              \/ \E template \in Templates :
                    /\ Draw(<<template>>) /\ thread'[Loop].plan = Drawn(<<template>>)
                    /\ thread'[Loop].job # "seed" /\ thread'[Loop].pc # "idle"
<1>. DEFINE r == thread[Loop]
            n == thread'[Loop]
<1>r. Loop \in Threads /\ r \in Thread
  BY Typed, Apart
<1>u. UNCHANGED <<live, models, stored>>
  BY DEF TickStep, StartTick, ReadMarket, PostClaim, AppendClaim, EndShopping, Shop, NextAgent,
         NextClaim, Measure, Die, GetSLA, FileComplaint, orchestrator, aggregator
<1>j. "tick" \in Jobs \ {"seed"} /\ {"market", "post", "sample", "idle"} \subseteq Steps
  BY StepNames
<1>1. CASE StartTick
  <2>1. CASE Goto(Loop, Start("tick", "market")) /\ UNCHANGED nonces
    <3>1. Blank(Start("tick", "market"))
      BY <1>j, BlankStarts
    <3>2. n = Start("tick", "market")
      BY <1>r, <2>1, GotoMoves
    <3>. QED
      BY <1>u, <2>1, <3>1, <3>2
  <2>2. ASSUME NEW template \in Range(TemplateList), Draw(<<template>>),
               Goto(Loop, [Start("tick", "post") EXCEPT !.plan = Drawn(<<template>>)])
        PROVE  /\ template \in Templates /\ n.plan = Drawn(<<template>>) /\ n.job # "seed"
               /\ n.pc # "idle"
    <3>. DEFINE m == [Start("tick", "post") EXCEPT !.plan = Drawn(<<template>>)]
    <3>1. m.plan = Drawn(<<template>>) /\ m.job # "seed" /\ m.pc # "idle"
      <4>1. "tick" \in Jobs \ {"seed"} /\ "post" \in Steps
        BY <1>j
      <4>. QED
        BY <4>1, PlanStarts
    <3>2. n = m
      BY <1>r, <2>2, GotoMoves
    <3>. HIDE DEF m, n
    <3>. QED
      BY <3>1, <3>2 DEF Templates
  <2>. QED
    BY <1>1, <1>u, <2>1, <2>2 DEF StartTick
<1>2. CASE ReadMarket \/ PostClaim \/ AppendClaim \/ GetSLA \/ FileComplaint
  <2>1. PICK m : Goto(Loop, m) /\ Kept(r, m)
    BY <1>r, <1>2, KeptFields DEF ReadMarket, PostClaim, AppendClaim, GetSLA, FileComplaint
  <2>2. UNCHANGED nonces
    BY <1>2 DEF ReadMarket, PostClaim, AppendClaim, GetSLA, FileComplaint, counters
  <2>. QED
    BY <1>r, <1>u, <2>1, <2>2, GotoMoves
<1>3. ASSUME NEW a \in Buyers, Shop(a) PROVE UNCHANGED nonces /\ Kept(r, n)
  <2>1. \A s : Kept(r, [Moved(Loop, "claim") EXCEPT !.sla = s, !.who = a, !.rest = @ \ {a}])
    BY <1>r DEF Kept, Moved, Thread
  <2>2. Kept(r, [r EXCEPT !.rest = @ \ {a}])
    BY <1>r DEF Kept, Thread
  <2>3. PICK m : Goto(Loop, m) /\ Kept(r, m)
    BY <1>3, <2>1, <2>2 DEF Shop
  <2>. QED
    BY <1>r, <1>3, <2>3, GotoMoves DEF Shop, counters
<1>4. CASE EndShopping
  <2>1. PICK m : Goto(Loop, m) /\ Blank(m)
    BY <1>j, <1>4, BlankStarts DEF EndShopping
  <2>. QED
    BY <1>r, <1>u, <1>4, <2>1, GotoMoves DEF EndShopping, counters
<1>5. CASE NextAgent
  <2>. DEFINE a == Head(r.agents)
              m == [r EXCEPT !.agents = Tail(@), !.who = a, !.todo = portfolio[a]]
  <2>1. Kept(r, m)
    BY <1>r DEF Kept, Thread
  <2>2. Goto(Loop, Idle) \/ Goto(Loop, m)
    BY <1>5 DEF NextAgent
  <2>. HIDE DEF m
  <2>. QED
    BY <1>r, <1>u, <1>5, <2>1, <2>2, BlankIdle, GotoMoves DEF NextAgent, counters
<1>6. CASE NextClaim
  <2>. DEFINE s == Head(r.todo)
              m == [r EXCEPT !.sla = s, !.todo = Tail(@),
                             !.pc = IF s \in DOMAIN models THEN "measure" ELSE @]
  <2>1. Kept(r, m)
    BY <1>r DEF Kept, Thread
  <2>2. Goto(Loop, m)
    BY <1>6 DEF NextClaim
  <2>. HIDE DEF m
  <2>. QED
    BY <1>r, <1>u, <1>6, <2>1, <2>2, GotoMoves DEF NextClaim, counters
<1>7. CASE Measure
  <2>1. CASE Die
    BY <1>u, <1>7, <2>1 DEF Die, Measure, counters, Kept
  <2>2. CASE ~Die
    <3>1. PICK m : Goto(Loop, m) /\ Kept(r, m)
      BY <1>r, <1>7, <2>2, KeptFields DEF Measure
    <3>. QED
      BY <1>r, <1>u, <1>7, <3>1, GotoMoves DEF Measure, counters
  <2>. QED
    BY <2>1, <2>2
<1>. QED
  BY <1>u, <1>1, <1>2, <1>3, <1>4, <1>5, <1>6, <1>7 DEF TickStep

\* The requests draw when they publish, and copy the list when they walk it.
LEMMA RequestPlans ==
    ASSUME TypeInv, NEW w \in Workers, RequestStep(w)
    PROVE  /\ live' \in {live, <<>>}
           /\ \/ UNCHANGED nonces /\ Kept(thread[w], thread'[w])
              \/ /\ UNCHANGED nonces /\ Blank(thread'[w])
                 /\ thread'[w].scope = {} \/ (Serving /\ thread'[w].scope = Range(live))
              \/ Drew(thread'[w])
<1>. DEFINE r == thread[w]
            n == thread'[w]
<1>r. w \in Threads /\ r \in Thread
  BY Typed, Apart
<1>l. live' \in {live, <<>>}
  BY DEF RequestStep, Reset, HospitalReshops, CloudBargain, ChangeAS, Request, Wipe, ClearModels,
         ClearBounds, ClearLive, ClearAgent, Visit, CheckBounds, WriteModel, Answer, orchestrator
<1>j. /\ {"wipe", "check", "failed", "post", "visit"} \subseteq Steps
      /\ \A job \in {"reset", "hospital", "cloud", "degrade", "fix"} \cap Scenarios :
            job \in Jobs \ {"seed"}
  BY StepNames DEF Jobs
<1>1. CASE Reset(w)
  <2>. DEFINE m == [Start("reset", "wipe") EXCEPT !.plan = Drawn(Seeds(ReSeed))]
  <2>1. m.plan = Drawn(Seeds(ReSeed)) /\ m.scope = {} /\ m.job # "seed"
    <3>1. "reset" \in Jobs \ {"seed"} /\ "wipe" \in Steps
      BY <1>j, <1>1 DEF Reset, Request
    <3>. QED
      BY <3>1, PlanStarts
  <2>2. Goto(w, m) /\ Draw(Seeds(ReSeed)) /\ Seeds(ReSeed) \in Seq(Templates)
    BY <1>1, SeedTemplates, SimulatorAssumption DEF Reset
  <2>. HIDE DEF m
  <2>. QED
    BY <1>r, <1>l, <2>1, <2>2, GotoMoves DEF Drew
<1>2. CASE CloudBargain(w)
  <2>. DEFINE m == [Start("cloud", "post") EXCEPT !.plan = Drawn(<<Bargain>>)]
  <2>1. m.plan = Drawn(<<Bargain>>) /\ m.scope = {} /\ m.job # "seed"
    <3>1. "cloud" \in Jobs \ {"seed"} /\ "post" \in Steps
      BY <1>j, <1>2 DEF CloudBargain, Request
    <3>. QED
      BY <3>1, PlanStarts
  <2>2. Goto(w, m) /\ Draw(<<Bargain>>) /\ <<Bargain>> \in Seq(Templates)
    BY <1>2 DEF CloudBargain, Templates
  <2>. HIDE DEF m
  <2>. QED
    BY <1>r, <1>l, <2>1, <2>2, GotoMoves DEF Drew
<1>3. CASE HospitalReshops(w)
  <2>1. PICK m : Goto(w, m) /\ Blank(m) /\ m.scope = {}
    <3>1. "hospital" \in Jobs \ {"seed"} /\ "check" \in Steps /\ "failed" \in Steps
      BY <1>j, <1>3 DEF HospitalReshops, Request
    <3>2. /\ \A s : LET m == [Start("hospital", "check") EXCEPT !.sla = s]
                   IN  Blank(m) /\ m.scope = {}
          /\ Blank(Start("hospital", "failed")) /\ Start("hospital", "failed").scope = {}
      BY <3>1, BlankStarts
    <3>. QED
      BY <1>3, <3>2 DEF HospitalReshops
  <2>. QED
    BY <1>r, <1>l, <1>3, <2>1, GotoMoves DEF HospitalReshops
<1>4. ASSUME NEW a \in Agents, NEW scenario \in Scenarios, ChangeAS(w, scenario, a)
      PROVE  UNCHANGED nonces /\ Blank(n) /\ Serving /\ n.scope = Range(live)
  <2>1. scenario \in Jobs \ {"seed"} /\ "visit" \in Steps
    BY <1>j, <1>4 DEF ChangeAS
  <2>. DEFINE m == [Start(scenario, "visit") EXCEPT
                       !.who = a, !.todo = live, !.scope = Range(live)]
  <2>2. Blank(m) /\ m.scope = Range(live)
    <3>1. \A x, y, z : /\ Blank([Start(scenario, "visit") EXCEPT !.who = x, !.todo = y, !.scope = z])
                      /\ [Start(scenario, "visit") EXCEPT !.who = x, !.todo = y, !.scope = z].scope = z
      BY <2>1, BlankStarts
    <3>. QED
      BY <3>1
  <2>3. Goto(w, m) /\ Serving /\ UNCHANGED nonces
    BY <1>4 DEF ChangeAS, Request
  <2>. HIDE DEF m
  <2>. QED
    BY <1>r, <2>2, <2>3, GotoMoves
<1>5. CASE \/ Wipe(w) \/ ClearModels(w) \/ ClearBounds(w) \/ ClearLive(w) \/ ClearAgent(w)
           \/ Visit(w) \/ CheckBounds(w) \/ WriteModel(w)
  <2>1. PICK m : Goto(w, m) /\ Kept(r, m)
    BY <1>r, <1>5, KeptFields DEF Wipe, ClearModels, ClearBounds, ClearLive, ClearAgent, Visit,
       CheckBounds, WriteModel
  <2>2. UNCHANGED nonces
    BY <1>5 DEF Wipe, ClearModels, ClearBounds, ClearLive, ClearAgent, Visit, CheckBounds,
                WriteModel, counters
  <2>. QED
    BY <1>r, <1>l, <2>1, <2>2, GotoMoves
<1>6. CASE Answer(w)
  BY <1>r, <1>l, <1>6, BlankIdle, GotoMoves DEF Answer, counters
<1>. QED
  BY <1>l, <1>1, <1>2, <1>3, <1>4, <1>5, <1>6 DEF RequestStep

\* What is published goes from the plan to the list.
LEMMA PublishPlans ==
    ASSUME TypeInv, NEW t \in Threads, Publish(t)
    PROVE  /\ UNCHANGED nonces /\ thread[t].plan # <<>>
           /\ \/ UNCHANGED live /\ Kept(thread[t], thread'[t])
              \/ /\ live' = Append(live, Head(thread[t].plan))
                 /\ \/ Blank(thread'[t]) /\ thread'[t].scope = {}
                    \/ /\ thread'[t].plan = Tail(thread[t].plan)
                       /\ thread'[t].scope = thread[t].scope /\ thread'[t].job = thread[t].job
                       /\ thread'[t].pc # "idle"
<1>. DEFINE r == thread[t]
<1>r. r \in Thread
  BY Typed
<1>1. UNCHANGED nonces /\ r.plan # <<>>
  BY Typed DEF Publish, PostSLA, PutModel, PutBounds, ListLive, counters, At, Ready, Publishing
<1>2. CASE PostSLA(t) \/ PutModel(t) \/ PutBounds(t)
  <2>1. UNCHANGED live
    BY <1>2 DEF PostSLA, PutModel, PutBounds, orchestrator
  <2>2. PICK pc \in {"model", "bounds", "list"} : Goto(t, Moved(t, pc))
    BY <1>2 DEF PostSLA, PutModel, PutBounds
  <2>3. Kept(r, Moved(t, pc)) /\ thread'[t] = Moved(t, pc)
    BY <2>2, KeptFields, GotoMoves
  <2>. QED
    BY <1>1, <2>1, <2>3
<1>3. CASE ListLive(t)
  <2>. DEFINE left == Tail(r.plan)
  <2>1. ASSUME NEW pc
        PROVE  LET m == [Moved(t, pc) EXCEPT !.plan = left]
               IN  m.plan = left /\ m.scope = r.scope /\ m.job = r.job /\ m.pc = pc
    BY <1>r DEF Moved, Thread
  <2>2. LET m == AfterPublishing(t)
        IN  \/ Blank(m) /\ m.scope = {}
            \/ m.plan = left /\ m.scope = r.scope /\ m.job = r.job /\ m.pc # "idle"
    BY <2>1, BlankIdle DEF AfterPublishing
  <2>3. live' = Append(live, Head(r.plan)) /\ thread'[t] = AfterPublishing(t)
    BY <1>3, GotoMoves DEF ListLive, Published
  <2>. QED
    BY <1>1, <2>2, <2>3
<1>. QED
  BY <1>2, <1>3 DEF Publish

LEMMA FaultPlans ==
    ASSUME TypeInv, NEW t \in Threads, CallFails(t)
    PROVE  UNCHANGED <<nonces, live>> /\ Kept(thread[t], thread'[t])
<1>1. UNCHANGED <<nonces, live>>
  BY DEF CallFails, orchestrator
<1>2. UNCHANGED thread \/ Goto(t, Moved(t, "failed"))
  BY DEF CallFails
<1>. QED
  BY <1>1, <1>2, KeptFields, GotoMoves DEF Kept

-----------------------------------------------------------------------------
(* A nonce is drawn once.                                                  *)

\* The nonces of some SLAs have been drawn.
Dated(slas) == \A s \in slas : s.nonce <= nonces

\* What a tick publishes was not live when a request copied the list; and no
\* request is served before the market is seeded.
NonceInv ==
    /\ Dated(Range(live)) /\ \A t \in Threads : Dated(Range(thread[t].plan))
    /\ \A w \in Workers :
          Dated(thread[w].scope) /\ (thread[Loop].job = "seed" => thread[w].scope = {})
    /\ thread[Loop].pc = "idle" => thread[Loop].plan = <<>>
    /\ thread[Loop].job # "seed" /\ ~clash =>
          /\ Len(thread[Loop].plan) <= 1
          /\ Range(thread[Loop].plan) \cap Range(live) = {}
          /\ \A w \in Workers : Range(thread[Loop].plan) \cap thread[w].scope = {}

LEMMA DrawnFresh ==
    ASSUME NEW templates \in Seq(Templates), nonces \in Nat, Draw(templates)
    PROVE  /\ nonces <= nonces' /\ Range(Drawn(templates)) \subseteq SLA
           /\ \A s \in Range(Drawn(templates)) : nonces < s.nonce /\ s.nonce <= nonces'
<1>1. Len(templates) \in Nat /\ DOMAIN templates = 1..Len(templates)
  OBVIOUS
<1>2. Drawn(templates) = [i \in 1..Len(templates) |->
                              [nonce |-> nonces + i, template |-> templates[i]]]
  BY <1>1 DEF Drawn
<1>3. nonces' = nonces + Len(templates)
  BY DEF Draw
<1>4. ASSUME NEW s \in Range(Drawn(templates))
      PROVE  nonces < s.nonce /\ s.nonce <= nonces'
  <2>1. PICK i \in 1..Len(templates) : s = [nonce |-> nonces + i, template |-> templates[i]]
    BY <1>2 DEF Range
  <2>2. s.nonce = nonces + i
    BY <2>1
  <2>. QED
    BY <1>1, <1>3, <2>2
<1>5. Range(Drawn(templates)) \subseteq SLA
  BY DrawnSLAs, RangeSeq
<1>. QED
  BY <1>1, <1>3, <1>4, <1>5

LEMMA SLANonces == \A s \in SLA : s.nonce \in Nat
  BY SimulatorAssumption DEF SLA, Alien

\* What was drawn stays drawn.
LEMMA StaysDated ==
    ASSUME NEW slas, slas \subseteq SLA, Dated(slas), nonces \in Nat, nonces' \in Nat,
           nonces <= nonces'
    PROVE  \A s \in slas : s.nonce <= nonces'
  BY SLANonces DEF Dated

\* The list and the thread after a step, all of them drawn.
LEMMA StepDates ==
    ASSUME TypeInv, NonceInv, NEW t \in Threads, StepOf(t)
    PROVE  /\ nonces \in Nat /\ nonces' \in Nat /\ nonces <= nonces'
           /\ \A s \in Range(live') \cup Range(thread'[t].plan) : s.nonce <= nonces'
           /\ t \in Workers => \A s \in thread'[t].scope : s.nonce <= nonces'
<1>. DEFINE r == thread[t]
            n == thread'[t]
<1>1. /\ nonces \in Nat /\ live \in Seq(SLA) /\ r \in Thread /\ r.plan \in Seq(SLA)
      /\ r.scope \subseteq SLA
  BY Typed, Fields
<1>2. Range(live) \subseteq SLA /\ Range(r.plan) \subseteq SLA
  BY <1>1, RangeSeq
<1>3. /\ Dated(Range(live)) /\ Dated(Range(r.plan))
      /\ t \in Workers => Dated(r.scope)
  BY DEF NonceInv
<1>4. Range(<<>>) = {}
  BY EmptyInjective
<1>5. CASE UNCHANGED nonces
  <2>1. CASE Publish(t)
    <3>1. r.plan # <<>>
      BY <2>1, PublishPlans
    <3>2. /\ Head(r.plan) \in Range(r.plan) /\ Range(Tail(r.plan)) \subseteq Range(r.plan)
          /\ Range(Append(live, Head(r.plan))) = Range(live) \cup {Head(r.plan)}
      BY <1>1, <1>2, <3>1, RangeSeq
    <3>3. Range(live') \subseteq Range(live) \cup Range(r.plan)
      BY <2>1, <3>2, PublishPlans
    <3>4. Range(n.plan) \subseteq Range(r.plan) /\ n.scope \subseteq r.scope
      BY <1>4, <2>1, <3>2, PublishPlans DEF Kept, Blank
    <3>. QED
      BY <1>1, <1>3, <1>5, <3>3, <3>4 DEF Dated
  <2>2. CASE CallFails(t)
    BY <1>1, <1>3, <1>5, <2>2, FaultPlans DEF Kept, Dated
  <2>3. CASE t \in Workers /\ RequestStep(t)
    <3>1. Range(live') \subseteq Range(live)
      BY <1>4, <2>3, RequestPlans
    <3>2. \/ n.plan = r.plan /\ n.scope = r.scope
          \/ n.plan = <<>> /\ n.scope \in {{}, Range(live)}
          \/ Drew(n)
      BY <2>3, RequestPlans DEF Kept, Blank
    <3>3. CASE Drew(n)
      <4>1. PICK templates \in Seq(Templates) : Draw(templates) /\ n.plan = Drawn(templates)
        BY <3>3 DEF Drew
      <4>2. \A s \in Range(n.plan) : s.nonce <= nonces'
        BY <1>1, <4>1, DrawnFresh
      <4>. QED
        BY <1>1, <1>3, <1>5, <3>1, <3>3, <4>2 DEF Dated, Drew
    <3>. QED
      BY <1>1, <1>3, <1>4, <1>5, <2>3, <3>1, <3>2, <3>3 DEF Dated
  <2>4. CASE t = Loop /\ TickStep
    <3>1. UNCHANGED live /\ t \notin Workers
      BY <2>4, TickPlans, Apart
    <3>2. \/ n.plan = r.plan \/ n.plan = <<>>
          \/ \E template \in Templates : Draw(<<template>>) /\ n.plan = Drawn(<<template>>)
      BY <2>4, TickPlans DEF Kept, Blank
    <3>3. ASSUME NEW template \in Templates, Draw(<<template>>), n.plan = Drawn(<<template>>)
          PROVE  \A s \in Range(n.plan) : s.nonce <= nonces'
      <4>1. <<template>> \in Seq(Templates)
        OBVIOUS
      <4>. QED
        BY <1>1, <3>3, <4>1, DrawnFresh
    <3>4. \A s \in Range(n.plan) : s.nonce <= nonces'
      <4>1. CASE n.plan = r.plan \/ n.plan = <<>>
        BY <1>3, <1>4, <1>5, <4>1 DEF Dated
      <4>. QED
        BY <3>2, <3>3, <4>1
    <3>. QED
      BY <1>1, <1>3, <1>5, <3>1, <3>4 DEF Dated
  <2>. QED
    BY <2>1, <2>2, <2>3, <2>4 DEF StepOf
<1>6. CASE ~UNCHANGED nonces
  <2>1. ~Publish(t) /\ ~CallFails(t)
    BY <1>6, PublishPlans, FaultPlans
  <2>2. PICK templates \in Seq(Templates) : Draw(templates) /\ n.plan = Drawn(templates)
    <3>1. CASE t \in Workers /\ RequestStep(t)
      BY <1>6, <3>1, RequestPlans DEF Drew
    <3>2. CASE t = Loop /\ TickStep
      <4>1. PICK template \in Templates : Draw(<<template>>) /\ n.plan = Drawn(<<template>>)
        BY <1>6, <3>2, TickPlans
      <4>2. <<template>> \in Seq(Templates)
        OBVIOUS
      <4>. QED
        BY <4>1, <4>2
    <3>. QED
      BY <2>1, <3>1, <3>2 DEF StepOf
  <2>3. nonces <= nonces' /\ \A s \in Range(n.plan) : s.nonce <= nonces'
    BY <1>1, <2>2, DrawnFresh
  <2>4. nonces' \in Nat
    BY <1>1, <2>2, DrawnSLAs
  <2>5. Range(live') \subseteq Range(live)
    BY <1>4, <2>1, RequestPlans, TickPlans DEF StepOf
  <2>6. t \in Workers => n.scope = {}
    BY <1>6, <2>1, RequestPlans, Apart DEF StepOf, Drew
  <2>7. \A s \in Range(live) : s.nonce <= nonces'
    BY <1>1, <1>2, <1>3, <2>3, <2>4, StaysDated
  <2>. QED
    BY <1>1, <2>3, <2>4, <2>5, <2>6, <2>7
<1>. QED
  BY <1>5, <1>6

\* What the main thread is about to publish, when nothing is disturbed.
LEMMA LoopFresh ==
    ASSUME TypeInv, NonceInv, ~clash, StepOf(Loop), thread'[Loop].job # "seed"
    PROVE  /\ Len(thread'[Loop].plan) <= 1
           /\ Range(thread'[Loop].plan) \cap Range(live') = {}
           /\ \A w \in Workers : Range(thread'[Loop].plan) \cap thread'[w].scope = {}
<1>. DEFINE r == thread[Loop]
            n == thread'[Loop]
<1>1. /\ nonces \in Nat /\ live \in Seq(SLA) /\ r.plan \in Seq(SLA) /\ Loop \in Threads
      /\ Range(live) \subseteq SLA /\ \A w \in Workers : thread[w].scope \subseteq SLA
  <2>1. Loop \in Threads /\ \A w \in Workers : w \in Threads
    BY Apart
  <2>. QED
    BY <2>1, Typed, Fields, RangeSeq
<1>2. \A w \in Workers : thread'[w] = thread[w]
  BY <1>1, Apart, OthersStay
<1>3. Range(<<>>) = {} /\ Len(<<>>) = 0
  BY EmptyInjective
<1>4. CASE n.plan = <<>>
  BY <1>3, <1>4
<1>5. CASE Kept(r, n) /\ UNCHANGED live
  BY <1>2, <1>5 DEF Kept, NonceInv
<1>6. CASE Publish(Loop)
  <2>1. CASE n.plan = Tail(r.plan) /\ n.job = r.job
    <3>1. Len(r.plan) <= 1 /\ r.plan # <<>>
      BY <1>1, <1>6, <2>1, PublishPlans DEF NonceInv
    <3>2. n.plan = <<>>
      BY <1>1, <2>1, <3>1
    <3>. QED
      BY <1>4, <3>2
  <2>. QED
    BY <1>1, <1>4, <1>5, <1>6, <2>1, PublishPlans DEF Blank
<1>7. CASE TickStep
  <2>1. ASSUME NEW template \in Templates, Draw(<<template>>), n.plan = Drawn(<<template>>)
        PROVE  /\ Len(n.plan) <= 1 /\ Range(n.plan) \cap Range(live) = {}
               /\ \A w \in Workers : Range(n.plan) \cap thread[w].scope = {}
    <3>1. <<template>> \in Seq(Templates) /\ Len(<<template>>) = 1
      OBVIOUS
    <3>2. Len(n.plan) = 1 /\ \A s \in Range(n.plan) : s \in SLA /\ nonces < s.nonce
      BY <1>1, <2>1, <3>1, DrawnSLAs, DrawnFresh
    <3>3. ASSUME NEW slas, slas \subseteq SLA, Dated(slas) PROVE Range(n.plan) \cap slas = {}
      <4> SUFFICES ASSUME NEW s \in Range(n.plan), s \in slas PROVE FALSE
        OBVIOUS
      <4>1. s.nonce \in Nat /\ s.nonce <= nonces /\ nonces < s.nonce
        BY <3>2, <3>3, SLANonces DEF Dated
      <4>. QED
        BY <1>1, <4>1
    <3>. QED
      BY <1>1, <3>2, <3>3 DEF NonceInv
  <2>. QED
    BY <1>2, <1>4, <1>5, <1>7, <2>1, TickPlans DEF Blank
<1>8. CASE CallFails(Loop)
  BY <1>1, <1>5, <1>8, FaultPlans
<1>. QED
  BY <1>6, <1>7, <1>8, Apart DEF StepOf

\* What the main thread publishes stays apart from what a request takes or copies.
LEMMA WorkersFresh ==
    ASSUME TypeInv, DutyInv, NonceInv, ~clash, ~Disturbs, NEW t \in Workers, StepOf(t),
           thread[Loop].job # "seed"
    PROVE  /\ Range(thread[Loop].plan) \cap Range(live') = {}
           /\ \A w \in Workers : Range(thread[Loop].plan) \cap thread'[w].scope = {}
<1>. DEFINE p == Range(thread[Loop].plan)
<1>1. t \in Threads /\ \A w \in Workers \ {t} : thread'[w] = thread[w]
  BY Apart, OthersStay
<1>2. p \cap Range(live) = {} /\ \A w \in Workers : p \cap thread[w].scope = {}
  BY DEF NonceInv
<1>3. Range(<<>>) = {}
  BY EmptyInjective
<1>4. CASE Publish(t)
  <2>1. thread[t].job \in {"reset", "cloud"} /\ thread[t].pc # "idle"
    BY <1>4 DEF Publish, PostSLA, PutModel, PutBounds, ListLive, At, DutyInv, OnDuty, Publishing
  <2>2. thread[Loop].pc = "idle"
    BY <2>1 DEF Disturbs, Busy
  <2>3. p = {}
    BY <1>3, <2>2 DEF NonceInv
  <2>. QED
    BY <2>3
<1>5. CASE RequestStep(t)
  <2>1. p \cap Range(live') = {}
    BY <1>2, <1>3, <1>5, RequestPlans
  <2>2. p \cap thread'[t].scope = {}
    BY <1>2, <1>5, RequestPlans DEF Kept, Drew
  <2>. QED
    BY <1>1, <1>2, <2>1, <2>2
<1>6. CASE CallFails(t)
  BY <1>1, <1>2, <1>6, FaultPlans DEF Kept
<1>. QED
  BY <1>4, <1>5, <1>6, Apart DEF StepOf

LEMMA NextNonce == SurvivalInv /\ NonceInv /\ [Next]_vars => NonceInv'
<1> SUFFICES ASSUME SurvivalInv, NonceInv, [Next]_vars PROVE NonceInv'
  OBVIOUS
<1>1. CASE UNCHANGED vars
  BY <1>1 DEF vars, orchestrator, aggregator, counters, NonceInv, Dated
<1>2. CASE Next
  <2>1. TypeInv /\ DutyInv
    BY DEF SurvivalInv
  <2>2. PICK t \in Threads : StepOf(t)
    BY <1>2, Steppers
  <2>3. \A u \in Threads \ {t} : thread'[u] = thread[u]
    BY <2>1, <2>2, OthersStay
  <2>4. /\ nonces \in Nat /\ nonces' \in Nat /\ nonces <= nonces'
        /\ \A s \in Range(live') \cup Range(thread'[t].plan) : s.nonce <= nonces'
        /\ t \in Workers => \A s \in thread'[t].scope : s.nonce <= nonces'
    BY <2>1, <2>2, StepDates
  <2>5. \A u \in Threads : Dated(Range(thread[u].plan))'
    <3> SUFFICES ASSUME NEW u \in Threads, u # t PROVE Dated(Range(thread[u].plan))'
      BY <2>4 DEF Dated
    <3>1. Range(thread[u].plan) \subseteq SLA /\ Dated(Range(thread[u].plan))
      BY <2>1, Typed, Fields, RangeSeq DEF NonceInv
    <3>. QED
      BY <2>3, <2>4, <3>1, StaysDated DEF Dated
  <2>6. \A w \in Workers : Dated(thread[w].scope)'
    <3> SUFFICES ASSUME NEW w \in Workers, w # t PROVE Dated(thread[w].scope)'
      BY <2>4 DEF Dated
    <3>1. w \in Threads
      BY Apart
    <3>2. thread[w].scope \subseteq SLA /\ Dated(thread[w].scope)
      BY <2>1, <3>1, Typed, Fields DEF NonceInv
    <3>. QED
      BY <2>3, <2>4, <3>1, <3>2, StaysDated DEF Dated
  <2>7. ASSUME NEW w \in Workers, thread'[Loop].job = "seed" PROVE thread'[w].scope = {}
    <3>1. w \in Threads /\ w # Loop /\ Loop \in Threads
      BY Apart
    <3>2. thread[Loop].job = "seed"
      <4>1. CASE t # Loop
        BY <2>3, <2>7, <3>1, <4>1
      <4>2. CASE t = Loop
        BY <2>1, <2>2, <2>7, <3>1, <4>2, Apart, TickPlans, PublishPlans, FaultPlans
           DEF StepOf, Kept, Blank
      <4>. QED
        BY <4>1, <4>2
    <3>3. thread[w].scope = {}
      BY <3>2 DEF NonceInv
    <3>4. CASE w # t
      BY <2>3, <3>1, <3>3, <3>4
    <3>5. CASE w = t
      BY <2>1, <2>2, <3>1, <3>2, <3>3, <3>5, RequestPlans, PublishPlans, FaultPlans
         DEF StepOf, Kept, Drew, Serving
    <3>. QED
      BY <3>4, <3>5
  <2>8. thread'[Loop].pc = "idle" => thread'[Loop].plan = <<>>
    <3>1. CASE t # Loop
      BY <2>3, <3>1, Apart DEF NonceInv
    <3>2. CASE t = Loop
      BY <2>1, <2>2, <3>2, Apart, TickPlans, PublishPlans, FaultPlans
         DEF StepOf, Kept, Blank, NonceInv
    <3>. QED
      BY <3>1, <3>2
  <2>9. ASSUME thread'[Loop].job # "seed", ~clash'
        PROVE  /\ Len(thread'[Loop].plan) <= 1
               /\ Range(thread'[Loop].plan) \cap Range(live') = {}
               /\ \A w \in Workers : Range(thread'[Loop].plan) \cap thread'[w].scope = {}
    <3>1. ~clash /\ ~Disturbs
      BY <1>2, <2>9, SurvivalFacts
    <3>2. CASE t = Loop
      BY <2>1, <2>2, <2>9, <3>1, <3>2, LoopFresh
    <3>3. CASE t \in Workers
      <4>1. thread'[Loop] = thread[Loop]
        BY <2>3, <3>3, Apart
      <4>2. Len(thread[Loop].plan) <= 1
        BY <2>9, <3>1, <4>1 DEF NonceInv
      <4>. QED
        BY <2>1, <2>2, <2>9, <3>1, <3>3, <4>1, <4>2, WorkersFresh
    <3>. QED
      BY <3>2, <3>3 DEF Threads
  <2>10. Dated(Range(live))'
    BY <2>4 DEF Dated
  <2>. QED
    BY <2>5, <2>6, <2>7, <2>8, <2>9, <2>10 DEF NonceInv
<1>. QED
  BY <1>1, <1>2

-----------------------------------------------------------------------------
(* fix_as restores the quality of what it walks.                           *)

\* What fix_as has still to look at.
Ahead(r) == Range(r.todo) \cup {s \in {r.sla} : r.pc = "write"}

Fixing(r) == r.job = "fix" /\ r.pc \in {"visit", "write", "done"}

\* Of the SLAs it was asked for, those that it is past are of nominal quality.
Mended(r) ==
    \A s \in r.scope \cap stored :
        s.template \in Range(TemplateList) /\ r.who \in Cosigners[s.template] =>
            s \in Ahead(r) \/ (s \in DOMAIN models /\ models[s] = "nominal")

FixInv ==
    ~clash =>
        \A w \in Workers :
            Fixing(thread[w]) =>
                Mended(thread[w]) /\ (thread[w].pc = "done" => Ahead(thread[w]) = {})

\* It begins with all of them ahead.
LEMMA FixBegins ==
    ASSUME TypeInv, DutyInv, NEW w \in Workers, StepOf(w), ~Fixing(thread[w]), Fixing(thread[w])'
    PROVE  Mended(thread[w])' /\ thread'[w].pc # "done"
<1>. DEFINE r == thread[w]
            n == thread'[w]
<1>1. w \in Threads /\ r \in Thread /\ w # Loop
  BY Apart, Typed
<1>2. r.pc = "idle"
  <2> SUFFICES ASSUME r.pc # "idle" PROVE FALSE
    OBVIOUS
  <2>1. r.job = "fix"
    BY <1>1, JobKeeps, Idles DEF Fixing
  <2>2. r.pc \notin {"visit", "write", "done"}
    BY <2>1 DEF Fixing
  <2>3. Answer(w) \/ CallFails(w)
    BY <1>1, <2>1, <2>2 DEF StepOf, Publish, PostSLA, PutModel, PutBounds, ListLive, RequestStep,
       Reset, HospitalReshops, CloudBargain, ChangeAS, Request, Wipe, ClearModels, ClearBounds,
       ClearLive, ClearAgent, Visit, CheckBounds, WriteModel, At, DutyInv, OnDuty, Publishing,
       Clearing
  <2>4. n.pc \in {"idle", "failed"}
    BY <1>1, <2>3, GotoMoves, MovedFields, Idles DEF Answer, CallFails
  <2>. QED
    BY <2>4 DEF Fixing
<1>3. PICK a \in Agents : ChangeAS(w, "fix", a)
  BY <1>2, WorkerBegins, RequestBegins DEF Fixing
<1>. DEFINE m == [Start("fix", "visit") EXCEPT !.who = a, !.todo = live, !.scope = Range(live)]
<1>4. m.pc = "visit" /\ m.todo = live /\ m.scope = Range(live)
  <2>1. "fix" \in Jobs /\ "visit" \in Steps
    BY <1>3, StepNames DEF ChangeAS, Request
  <2>2. Start("fix", "visit") \in Thread /\ Start("fix", "visit").pc = "visit"
    BY <2>1, Starts
  <2>. QED
    BY <2>2 DEF Thread
<1>5. n = m
  BY <1>1, <1>3, GotoMoves DEF ChangeAS
<1>. HIDE DEF m
<1>. QED
  BY <1>4, <1>5 DEF Mended, Ahead

\* It looks at the next one, or writes the model of the one it looked at.
LEMMA FixMends ==
    ASSUME TypeInv, DutyInv, NEW w \in Workers, StepOf(w), Fixing(thread[w]), Mended(thread[w]),
           thread[w].pc = "done" => Ahead(thread[w]) = {}, Fixing(thread[w])'
    PROVE  Mended(thread[w])' /\ (thread'[w].pc = "done" => Ahead(thread[w])' = {})
<1>. DEFINE r == thread[w]
            n == thread'[w]
<1>1. w \in Threads /\ r \in Thread /\ w # Loop /\ r.todo \in Seq(SLA)
  BY Apart, Typed, Fields
<1>2. Visit(w) \/ WriteModel(w)
  <2>1. ~Answer(w) /\ ~CallFails(w)
    <3>1. Answer(w) \/ CallFails(w) => n.pc \in {"idle", "failed"}
      BY <1>1, GotoMoves, MovedFields, Idles DEF Answer, CallFails
    <3>. QED
      BY <3>1 DEF Fixing
  <2>. QED
    BY <1>1, <2>1 DEF StepOf, Publish, PostSLA, PutModel, PutBounds, ListLive, RequestStep,
       Reset, HospitalReshops, CloudBargain, ChangeAS, Request, Wipe, ClearModels, ClearBounds,
       ClearLive, ClearAgent, CheckBounds, At, Fixing
<1>3. CASE Visit(w) /\ r.todo = <<>>
  <2>1. UNCHANGED <<models, stored>> /\ Goto(w, Moved(w, "done")) /\ r.pc = "visit"
    BY <1>3 DEF Visit, orchestrator, aggregator, At
  <2>2. /\ n.pc = "done" /\ n.todo = <<>> /\ n.scope = r.scope /\ n.who = r.who
    BY <1>1, <1>3, <2>1, GotoMoves, MovedFields, KeptFields DEF Kept
  <2>3. Range(<<>>) = {}
    BY EmptyInjective
  <2>4. Ahead(n) = {} /\ Ahead(r) = {}
    BY <1>3, <2>1, <2>2, <2>3 DEF Ahead
  <2>. QED
    BY <2>1, <2>2, <2>4 DEF Mended
<1>4. CASE Visit(w) /\ r.todo # <<>>
  <2>. DEFINE s == Head(r.todo)
              pc == IF s \notin stored \/ r.who \notin Cosigners[s.template] THEN "visit"
                    ELSE IF HasTemplate(s) THEN "write" ELSE "visit"
              m == [Moved(w, pc) EXCEPT !.sla = s, !.todo = Tail(@)]
  <2>1. UNCHANGED <<models, stored>> /\ Goto(w, m) /\ r.pc = "visit"
    BY <1>4 DEF Visit, orchestrator, aggregator, At, Fixing
  <2>2. m.pc = pc /\ m.sla = s /\ m.todo = Tail(r.todo) /\ m.scope = r.scope /\ m.who = r.who
    BY <1>1 DEF Moved, Thread
  <2>. HIDE DEF m
  <2>3. n = m
    BY <1>1, <2>1, GotoMoves
  <2>4. Range(r.todo) = {s} \cup Range(Tail(r.todo))
    BY <1>1, <1>4, RangeSeq
  <2>. HIDE DEF s
  <2>5. n.pc # "done"
    BY <2>2, <2>3
  <2>6. ASSUME NEW x \in n.scope \cap stored', x.template \in Range(TemplateList),
               n.who \in Cosigners[x.template]
        PROVE  x \in Ahead(n) \/ (x \in DOMAIN models' /\ models'[x] = "nominal")
    <3>1. x \in Ahead(r) \/ (x \in DOMAIN models /\ models[x] = "nominal")
      BY <2>1, <2>2, <2>3, <2>6 DEF Mended
    <3>2. x \in Ahead(r) => x = s \/ x \in Range(Tail(r.todo))
      BY <2>1, <2>4 DEF Ahead
    <3>3. x = s => n.pc = "write"
      BY <2>1, <2>2, <2>3, <2>6 DEF HasTemplate
    <3>. QED
      BY <2>1, <2>2, <2>3, <3>1, <3>2, <3>3 DEF Ahead
  <2>. QED
    BY <2>5, <2>6 DEF Mended
<1>5. CASE WriteModel(w)
  <2>1. /\ r.pc = "write" /\ UNCHANGED stored /\ Goto(w, Moved(w, "visit"))
        /\ models' = WithModel(r.sla, "nominal")
    BY <1>5 DEF WriteModel, At, aggregator, Fixing
  <2>2. n.pc = "visit" /\ n.todo = r.todo /\ n.scope = r.scope /\ n.who = r.who
    BY <1>1, <2>1, GotoMoves, MovedFields, KeptFields DEF Kept
  <2>3. /\ DOMAIN models' = DOMAIN models \cup {r.sla} /\ models'[r.sla] = "nominal"
        /\ \A x \in DOMAIN models \ {r.sla} : models'[x] = models[x]
    BY <2>1 DEF WithModel
  <2>4. Ahead(r) = Range(r.todo) \cup {r.sla} /\ Range(r.todo) \subseteq Ahead(n)
    BY <2>1, <2>2 DEF Ahead
  <2>5. ASSUME NEW x \in n.scope \cap stored', x.template \in Range(TemplateList),
               n.who \in Cosigners[x.template]
        PROVE  x \in Ahead(n) \/ (x \in DOMAIN models' /\ models'[x] = "nominal")
    <3>1. x \in Ahead(r) \/ (x \in DOMAIN models /\ models[x] = "nominal")
      BY <2>1, <2>2, <2>5 DEF Mended
    <3>. QED
      BY <2>3, <2>4, <3>1
  <2>. QED
    BY <2>2, <2>5 DEF Mended
<1>. QED
  BY <1>2, <1>3, <1>4, <1>5

\* The main thread stores nothing that it walks, and writes nominal models only.
LEMMA LoopSpares ==
    ASSUME TypeInv, NonceInv, ~clash, StepOf(Loop), NEW w \in Workers, Mended(thread[w])
    PROVE  Mended(thread[w])'
<1>. DEFINE r == thread[w]
<1>1. Loop \in Threads /\ w \in Threads /\ Loop \notin Workers /\ thread'[w] = r
  BY Apart, OthersStay
<1>2. ASSUME thread[Loop].pc \in Publishing PROVE Published(Loop) \notin r.scope
  <2>1. CASE thread[Loop].job = "seed"
    BY <2>1 DEF NonceInv
  <2>2. CASE thread[Loop].job # "seed"
    <3>1. Range(thread[Loop].plan) \cap r.scope = {}
      BY <2>2 DEF NonceInv
    <3>2. Head(thread[Loop].plan) \in Range(thread[Loop].plan)
      BY <1>1, <1>2, Typed, Fields, RangeSeq DEF Ready
    <3>. QED
      BY <3>1, <3>2 DEF Published
  <2>. QED
    BY <2>1, <2>2
<1>3. r.scope \cap stored' \subseteq stored
  <2>1. CASE PostSLA(Loop)
    BY <1>2, <2>1 DEF PostSLA, At, Publishing
  <2>2. CASE CallFails(Loop)
    BY <1>2, <2>2 DEF CallFails, aggregator, Publishing
  <2>3. CASE PutModel(Loop) \/ PutBounds(Loop) \/ ListLive(Loop)
    BY <2>3 DEF PutModel, PutBounds, ListLive, aggregator
  <2>4. CASE TickStep
    BY <2>4, TickPlans
  <2>. QED
    BY <1>1, <2>1, <2>2, <2>3, <2>4 DEF StepOf, Publish
<1>4. models' = models \/ models' = WithModel(Published(Loop), "nominal")
  BY <1>1, TickPlans DEF StepOf, Publish, PostSLA, PutModel, PutBounds, ListLive, CallFails,
                         orchestrator
<1>5. \A x \in DOMAIN models :
          models[x] = "nominal" => x \in DOMAIN models' /\ models'[x] = "nominal"
  BY <1>4 DEF WithModel
<1>. QED
  BY <1>1, <1>3, <1>5 DEF Mended, Ahead

LEMMA NextFix == SurvivalInv /\ NonceInv /\ FixInv /\ [Next]_vars => FixInv'
<1> SUFFICES ASSUME SurvivalInv, NonceInv, FixInv, [Next]_vars PROVE FixInv'
  OBVIOUS
<1>1. CASE UNCHANGED vars
  BY <1>1 DEF vars, orchestrator, aggregator, FixInv, Fixing, Mended, Ahead
<1>2. CASE Next
  <2> SUFFICES ASSUME ~clash', NEW w \in Workers, Fixing(thread[w])'
               PROVE  Mended(thread[w])' /\ (thread'[w].pc = "done" => Ahead(thread[w])' = {})
    BY DEF FixInv
  <2>1. TypeInv /\ DutyInv /\ ~clash /\ ~Disturbs /\ ~Disturbs'
    BY <1>2, SurvivalFacts
  <2>2. PICK t \in Threads : StepOf(t)
    BY <1>2, Steppers
  <2>3. w \in Threads /\ Loop \in Threads /\ w # Loop
    BY Apart
  <2>4. CASE Fixing(thread[w])
    <3>1. Mended(thread[w]) /\ (thread[w].pc = "done" => Ahead(thread[w]) = {})
      BY <2>1, <2>4 DEF FixInv
    <3>2. t = w \/ t = Loop
      BY <2>1, <2>2, <2>4, NoOtherWorker DEF Fixing, Busy
    <3>3. CASE t = w
      BY <2>1, <2>2, <2>4, <3>1, <3>3, FixMends
    <3>4. CASE t = Loop
      <4>1. thread'[w] = thread[w]
        BY <2>1, <2>2, <2>3, <3>4, OthersStay
      <4>. QED
        BY <2>1, <2>2, <3>1, <3>4, <4>1, LoopSpares DEF Ahead
    <3>. QED
      BY <3>2, <3>3, <3>4
  <2>5. CASE ~Fixing(thread[w])
    <3>1. t = w
      BY <2>1, <2>2, <2>3, <2>5, OthersStay DEF Fixing
    <3>. QED
      BY <2>1, <2>2, <2>5, <3>1, FixBegins
  <2>. QED
    BY <2>4, <2>5
<1>. QED
  BY <1>1, <1>2

\* What Init says of the nonces, and that no request is served yet.
LEMMA InitNonce == Init => NonceInv /\ FixInv
<1> SUFFICES ASSUME Init PROVE NonceInv /\ FixInv
  OBVIOUS
<1>. DEFINE seeds == [i \in 1..PreSeed |-> [nonce |-> i, template |-> Seeds(PreSeed)[i]]]
            m == [Start("seed", "post") EXCEPT !.plan = seeds]
<1>1. live = <<>> /\ nonces = PreSeed /\ PreSeed \in Nat
  BY SimulatorAssumption DEF Init
<1>2. Range(<<>>) = {} /\ Idle.plan = <<>> /\ Idle.scope = {} /\ Idle.pc = "idle" /\ Idle.job = "tick"
  BY EmptyInjective, BlankIdle, Idles DEF Blank
<1>3. m.plan = seeds /\ m.job = "seed" /\ m.pc = "post"
  <2>1. "seed" \in Jobs /\ "post" \in Steps
    BY StepNames
  <2>2. Start("seed", "post") \in Thread /\ Start("seed", "post").pc = "post"
        /\ Start("seed", "post").job = "seed"
    BY <2>1, Starts
  <2>. QED
    BY <2>2 DEF Thread
<1>4. \A s \in Range(seeds) : s.nonce <= nonces
  BY <1>1 DEF Range
<1>5. \A w \in Workers : thread[w] = Idle
  BY Apart DEF Init
<1>6. thread[Loop] = m \/ thread[Loop] = Idle
  BY Apart DEF Init
<1>. HIDE DEF m, seeds
<1>7. \A t \in Threads : Dated(Range(thread[t].plan))
  BY <1>2, <1>3, <1>4, <1>5, <1>6 DEF Dated, Threads
<1>8. Len(<<>>) = 0
  OBVIOUS
<1>9. NonceInv
  BY <1>1, <1>2, <1>3, <1>5, <1>6, <1>7, <1>8 DEF NonceInv, Dated
<1>10. FixInv
  BY <1>2, <1>5 DEF FixInv, Fixing
<1>. QED
  BY <1>9, <1>10

\* When fix_as is answered, every SLA made from a configured template that was live
\* when it was asked for and that its AS cosigned is of nominal quality, whatever the
\* tick did meanwhile: for every market, list and number of threads.
THEOREM FixRestoresConfigured == Spec => []FixRestoresTemplates
<1>1. ASSUME FixInv PROVE FixRestoresTemplates
  <2> SUFFICES ASSUME NEW w \in Workers, At(w, "done"), thread[w].job = "fix", ~clash,
                      NEW s \in SLA, s.template \in Range(TemplateList), s \in stored,
                      s \in thread[w].scope, thread[w].who \in Cosigners[s.template]
               PROVE  s \in DOMAIN models /\ models[s] = "nominal"
    BY DEF FixRestoresTemplates, Restored
  <2>1. Mended(thread[w]) /\ Ahead(thread[w]) = {}
    BY <1>1 DEF FixInv, Fixing, At
  <2>. QED
    BY <2>1 DEF Mended
<1>. QED
  BY <1>1, InitNonce, NextNonce, NextFix, SurvivalInvariant, PTL DEF Spec
=============================================================================
