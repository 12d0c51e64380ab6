--------------------------- MODULE UserAgentProofs ---------------------------
(***************************************************************************)
(* The state file lags the portfolio, for any number of worker threads, any*)
(* market and any number of claims, edits, restarts, crashes and faults.   *)
(* The inductive invariant is the type invariant with CopiesArePrefixes:   *)
(* the copies in flight are what a save will write next, so nothing about  *)
(* the file is inductive without them.  No two copies need be comparable   *)
(* at any time, other than through the portfolio they come from.           *)
(***************************************************************************)
EXTENDS UserAgent, TLAPS

UserAgentInv == TypeOK /\ CopiesArePrefixes

\* What a thread may hold while the portfolio is p.
GoodJob(job, p) == job \in Jobs /\ IsPrefix(job.copy.portfolio, p)

-----------------------------------------------------------------------------
(* Prefixes and profiles.                                                  *)

LEMMA PrefixRefl ==
    ASSUME NEW S, NEW s \in Seq(S)
    PROVE  IsPrefix(s, s) /\ IsPrefix(<<>>, s)
  BY DEF IsPrefix

LEMMA PrefixAppend ==
    ASSUME NEW S, NEW s \in Seq(S), NEW t \in Seq(S), NEW e \in S, IsPrefix(s, t)
    PROVE  IsPrefix(s, Append(t, e)) /\ Append(t, e) \in Seq(S)
  BY DEF IsPrefix

LEMMA FreshProfile == Fresh \in Profile /\ Fresh.portfolio = <<>>
<1>1. <<>> \in Routing
  <2>1. <<>> \in [{} -> SUBSET Claim]
    OBVIOUS
  <2> QED
    BY <2>1 DEF Routing
<1> QED
  BY <1>1, UserAgentAssumption DEF Fresh, Profile

LEMMA StepNames ==
    /\ "idle" \in Steps /\ "post_claim" \in Steps /\ "append" \in Steps
    /\ "answer" \in Steps /\ "sync_policy" \in Steps /\ "copy_portfolio" \in Steps
    /\ "sync_portfolio" \in Steps /\ "copy_routing" \in Steps
    /\ "sync_routing" \in Steps /\ "read_policy" \in Steps
    /\ "read_portfolio" \in Steps /\ "read_routing" \in Steps
    /\ "replace" \in Steps /\ "saved" \in Steps /\ "exit" \in Steps
  BY DEF Steps

\* A request starts with an empty copy.
LEMMA JobGood ==
    ASSUME NEW p \in Seq(Claim), NEW pc \in Steps, NEW claims \in SUBSET Claim
    PROVE  GoodJob(Job(pc, claims), p)
<1> DEFINE job == Job(pc, claims)
<1>1. job.copy = Fresh /\ job \in Jobs
  BY FreshProfile DEF Job, Jobs
<1>2. IsPrefix(<<>>, p)
  BY PrefixRefl
<1> QED
  BY <1>1, <1>2, FreshProfile DEF GoodJob

LEMMA IdleGood ==
    ASSUME NEW p \in Seq(Claim)
    PROVE  GoodJob(Idle, p)
<1>1. {} \in SUBSET Claim /\ "idle" \in Steps
  BY StepNames
<1>2. GoodJob(Job("idle", {}), p)
  BY <1>1, JobGood
<1> QED
  BY <1>2 DEF Idle

LEMMA MovedGood ==
    ASSUME TypeOK, NEW t \in Threads, NEW pc \in Steps, NEW p \in Seq(Claim),
           GoodJob(thread[t], p)
    PROVE  GoodJob(Moved(t, pc), p)
  BY DEF TypeOK, GoodJob, Jobs, Moved

LEMMA ProfileFields ==
    ASSUME NEW f \in Profile
    PROVE  /\ f.policy \in Policies /\ f.portfolio \in Seq(Claim)
           /\ f.routing \in Routing
           /\ \A x \in Policies : [f EXCEPT !.policy = x] \in Profile
           /\ \A x \in Seq(Claim) : [f EXCEPT !.portfolio = x] \in Profile
           /\ \A x \in Routing : [f EXCEPT !.routing = x] \in Profile
  BY DEF Profile

-----------------------------------------------------------------------------
(* A step that moves one thread, and leaves the others where they are.     *)

\* The portfolio in memory, or what it was extended to.
Keeps(p) ==
    /\ p \in Seq(Claim)
    /\ \A s \in Seq(Claim) : IsPrefix(s, agent.portfolio) => IsPrefix(s, p)

LEMMA GotoKeeps ==
    ASSUME UserAgentInv, process # "down", UNCHANGED process,
           NEW t \in Threads, NEW job, Goto(t, job), GoodJob(job, agent'.portfolio),
           agent' \in Profile, Keeps(agent'.portfolio),
           state' \in Profile, IsPrefix(state'.portfolio, agent'.portfolio),
           disk'.kind \in {"none", "unreadable", "misshapen", "state"}, disk'.state \in Profile,
           IsPrefix(disk'.state.portfolio, agent'.portfolio),
           stored' \subseteq Claim, answered' \subseteq Claim
    PROVE  UserAgentInv'
<1>1. \A u \in Threads : thread'[u] = IF u = t THEN job ELSE thread[u]
  BY DEF UserAgentInv, TypeOK, Goto
<1>2. \A u \in Threads : GoodJob(thread'[u], agent'.portfolio)
  <2> TAKE u \in Threads
  <2>1. CASE u = t
    BY <1>1, <2>1
  <2>2. CASE u # t
    <3>1. thread[u] \in Jobs /\ thread[u].copy.portfolio \in Seq(Claim)
      BY ProfileFields DEF UserAgentInv, TypeOK, Jobs
    <3>2. IsPrefix(thread[u].copy.portfolio, agent.portfolio)
      BY DEF UserAgentInv, CopiesArePrefixes
    <3> QED
      BY <1>1, <2>2, <3>1, <3>2 DEF GoodJob, Keeps
  <2> QED
    BY <2>1, <2>2
<1>3. thread' \in [Threads -> Jobs]
  BY <1>2 DEF UserAgentInv, TypeOK, Goto, GoodJob
<1>4. TypeOK'
  BY <1>3 DEF UserAgentInv, TypeOK
<1>5. CopiesArePrefixes'
  BY <1>2 DEF CopiesArePrefixes, GoodJob
<1> QED
  BY <1>4, <1>5 DEF UserAgentInv

\* What the invariant says of a running process.
LEMMA Running ==
    ASSUME UserAgentInv, process # "down"
    PROVE  /\ agent \in Profile /\ state \in Profile /\ disk.state \in Profile
           /\ agent.portfolio \in Seq(Claim) /\ agent.routing \in Routing
           /\ state.portfolio \in Seq(Claim) /\ state.routing \in Routing
           /\ disk.kind \in {"none", "unreadable", "misshapen", "state"}
           /\ Keeps(agent.portfolio)
           /\ IsPrefix(state.portfolio, agent.portfolio)
           /\ IsPrefix(disk.state.portfolio, agent.portfolio)
           /\ \A t \in Threads : GoodJob(thread[t], agent.portfolio)
           /\ stored \subseteq Claim /\ answered \subseteq Claim
  BY ProfileFields
  DEF UserAgentInv, TypeOK, CopiesArePrefixes, Keeps, GoodJob

-----------------------------------------------------------------------------
(* Requests.                                                               *)

LEMMA KeepsAppend ==
    ASSUME UserAgentInv, process # "down", NEW c \in Claim
    PROVE  Keeps(Append(agent.portfolio, c))
<1>1. agent.portfolio \in Seq(Claim)
  BY Running
<1> QED
  BY <1>1, PrefixAppend DEF Keeps

LEMMA SetPolicyStep ==
    ASSUME UserAgentInv, NEW w \in Workers, NEW policy \in Policies, SetPolicy(w, policy)
    PROVE  UserAgentInv'
<1>1. process # "down" /\ w \in Threads
  BY DEF SetPolicy, Free, Threads
<1>2. agent' \in Profile /\ agent'.portfolio = agent.portfolio
  BY <1>1, Running, ProfileFields DEF SetPolicy, Profile
<1>3. state' \in Profile /\ state'.portfolio = state.portfolio
  BY <1>1, Running, ProfileFields DEF SetPolicy, Profile
<1>4. GoodJob(Job("sync_policy", {}), agent.portfolio)
  BY <1>1, Running, StepNames, JobGood
<1>5. Goto(w, Job("sync_policy", {})) /\ UNCHANGED <<process, disk, stored, answered>>
  BY DEF SetPolicy
<1> QED
  BY <1>1, <1>2, <1>3, <1>4, <1>5, Running, GotoKeeps

LEMMA ClaimSLAStep ==
    ASSUME UserAgentInv, NEW w \in Workers, NEW c \in Claim, ClaimSLA(w, c)
    PROVE  UserAgentInv'
<1>1. process # "down" /\ w \in Threads
  BY DEF ClaimSLA, Free, Threads
<1>2. GoodJob(Job("post_claim", {c}), agent.portfolio)
  BY <1>1, Running, StepNames, JobGood
<1>3. /\ Goto(w, Job("post_claim", {c}))
      /\ UNCHANGED <<process, agent, state, disk, stored, answered>>
  BY DEF ClaimSLA, memory
<1> QED
  BY <1>1, <1>2, <1>3, Running, GotoKeeps

LEMMA PostClaimStep ==
    ASSUME UserAgentInv, NEW w \in Workers, PostClaim(w) \/ PostClaimRaises(w)
    PROVE  UserAgentInv'
<1>1. process # "down" /\ w \in Threads
  BY DEF PostClaim, PostClaimRaises, At, Threads
<1>2. UNCHANGED <<process, agent, state, disk, answered>>
  BY DEF PostClaim, PostClaimRaises, memory
<1>3. stored' \subseteq Claim
  <2>1. thread[w].claims \subseteq Claim /\ stored \subseteq Claim
    BY <1>1 DEF UserAgentInv, TypeOK, Jobs
  <2>2. stored' \in Received(thread[w].claims)
    BY DEF PostClaim, PostClaimRaises
  <2> QED
    BY <2>1, <2>2 DEF Received
<1>4. GoodJob(Moved(w, "append"), agent.portfolio) /\ GoodJob(Idle, agent.portfolio)
  BY <1>1, Running, StepNames, MovedGood, IdleGood DEF UserAgentInv
<1>5. Goto(w, Moved(w, "append")) \/ Goto(w, Idle)
  BY DEF PostClaim, PostClaimRaises
<1> QED
  BY <1>1, <1>2, <1>3, <1>4, <1>5, Running, GotoKeeps

LEMMA AppendClaimStep ==
    ASSUME UserAgentInv, NEW w \in Workers, AppendClaim(w)
    PROVE  UserAgentInv'
<1>1. process # "down" /\ w \in Threads
  BY DEF AppendClaim, At, Threads
<1>2. PICK c \in thread[w].claims : agent' = [agent EXCEPT !.portfolio = Append(@, c)]
  BY DEF AppendClaim
<1>3. c \in Claim
  BY <1>1 DEF UserAgentInv, TypeOK, Jobs
<1>4. Append(agent.portfolio, c) \in Seq(Claim)
  BY <1>1, <1>3, Running
<1>5. agent' \in Profile /\ agent'.portfolio = Append(agent.portfolio, c)
  BY <1>1, <1>2, <1>4, Running DEF Profile
<1>6. Keeps(agent'.portfolio)
  BY <1>1, <1>3, <1>5, KeepsAppend
<1>7. IsPrefix(state.portfolio, agent'.portfolio) /\ IsPrefix(disk.state.portfolio, agent'.portfolio)
  BY <1>1, <1>6, Running, ProfileFields DEF Keeps
<1>8. GoodJob(thread[w], agent'.portfolio)
  <2>1. thread[w].copy.portfolio \in Seq(Claim)
    BY <1>1, ProfileFields DEF UserAgentInv, TypeOK, Jobs
  <2> QED
    BY <1>1, <1>6, <2>1, Running DEF GoodJob, Keeps
<1>9. GoodJob(Moved(w, "sync_policy"), agent'.portfolio)
  BY <1>1, <1>4, <1>5, <1>8, StepNames, MovedGood DEF UserAgentInv
<1>10. Goto(w, Moved(w, "sync_policy")) /\ UNCHANGED <<process, state, disk, stored, answered>>
  BY DEF AppendClaim
<1> QED
  BY <1>1, <1>5, <1>6, <1>7, <1>9, <1>10, Running, GotoKeeps

LEMMA SetRoutingStep ==
    ASSUME UserAgentInv, NEW w \in Workers, NEW d \in Destinations,
           NEW claims \in SUBSET ToSet(agent.portfolio), SetRouting(w, d, claims)
    PROVE  UserAgentInv'
<1>1. process # "down" /\ w \in Threads
  BY DEF SetRouting, Free, Threads
<1>2. agent \in Profile /\ agent.portfolio \in Seq(Claim) /\ agent.routing \in Routing
  BY <1>1, Running
<1>3. claims \in SUBSET Claim
  BY <1>2 DEF ToSet
<1> DEFINE r == [e \in DOMAIN agent.routing \cup {d} |->
                    IF e = d THEN claims ELSE agent.routing[e]]
<1>4. r \in Routing
  <2>1. PICK ds \in SUBSET Destinations : agent.routing \in [ds -> SUBSET Claim]
    BY <1>2 DEF Routing
  <2>2. r \in [ds \cup {d} -> SUBSET Claim]
    BY <2>1, <1>3
  <2> QED
    BY <2>2 DEF Routing
<1>5. agent' = [agent EXCEPT !.routing = r]
  BY <1>2 DEF SetRouting, Profile
<1>6. agent' \in Profile /\ agent'.portfolio = agent.portfolio
  BY <1>2, <1>4, <1>5 DEF Profile
<1>7. GoodJob(Job("sync_policy", {}), agent.portfolio)
  BY <1>2, StepNames, JobGood
<1>8. Goto(w, Job("sync_policy", {})) /\ UNCHANGED <<process, state, disk, stored, answered>>
  BY DEF SetRouting
<1> QED
  BY <1>1, <1>6, <1>7, <1>8, Running, GotoKeeps

LEMMA AnswerStep ==
    ASSUME UserAgentInv, NEW w \in Workers, Answer(w)
    PROVE  UserAgentInv'
<1>1. process # "down" /\ w \in Threads
  BY DEF Answer, At, Threads
<1>2. answered' \subseteq Claim
  BY <1>1 DEF Answer, UserAgentInv, TypeOK, Jobs
<1>3. GoodJob(Idle, agent.portfolio)
  BY <1>1, Running, IdleGood
<1>4. Goto(w, Idle) /\ UNCHANGED <<process, agent, state, disk, stored>>
  BY DEF Answer, memory
<1> QED
  BY <1>1, <1>2, <1>3, <1>4, Running, GotoKeeps

-----------------------------------------------------------------------------
(* _persist and save_state.                                                *)

\* The thread's job with another copy, and at another step.
LEMMA CopyGood ==
    ASSUME UserAgentInv, process # "down", NEW t \in Threads, NEW pc \in Steps,
           NEW copy \in Profile, IsPrefix(copy.portfolio, agent.portfolio)
    PROVE  /\ GoodJob([Moved(t, pc) EXCEPT !.copy = copy], agent.portfolio)
           /\ thread[t].copy \in Profile
           /\ IsPrefix(thread[t].copy.portfolio, agent.portfolio)
<1>1. thread[t] \in Jobs
  BY DEF UserAgentInv, TypeOK
<1>2. Moved(t, pc) \in Jobs
  BY <1>1 DEF Moved, Jobs
<1>3. [Moved(t, pc) EXCEPT !.copy = copy] \in Jobs
  BY <1>2 DEF Jobs
<1>4. [Moved(t, pc) EXCEPT !.copy = copy].copy = copy
  BY <1>2 DEF Jobs
<1> QED
  BY <1>1, <1>3, <1>4 DEF GoodJob, Jobs, UserAgentInv, CopiesArePrefixes

LEMMA SyncPolicyStep ==
    ASSUME UserAgentInv, NEW t \in Threads, SyncPolicy(t)
    PROVE  UserAgentInv'
<1>1. process # "down"
  BY DEF SyncPolicy, At
<1>2. state' \in Profile /\ state'.portfolio = state.portfolio
  BY <1>1, Running DEF SyncPolicy, Profile
<1>3. GoodJob(Moved(t, "copy_portfolio"), agent.portfolio)
  BY <1>1, Running, StepNames, MovedGood DEF UserAgentInv
<1>4. Goto(t, Moved(t, "copy_portfolio")) /\ UNCHANGED <<process, agent, disk, stored, answered>>
  BY DEF SyncPolicy
<1> QED
  BY <1>1, <1>2, <1>3, <1>4, Running, GotoKeeps

LEMMA CopyPortfolioStep ==
    ASSUME UserAgentInv, NEW t \in Threads, CopyPortfolio(t)
    PROVE  UserAgentInv'
<1>1. process # "down"
  BY DEF CopyPortfolio, At
<1> DEFINE copy == [thread[t].copy EXCEPT !.portfolio = agent.portfolio]
           job == [Moved(t, "sync_portfolio") EXCEPT !.copy = copy]
<1>2. thread[t] \in Jobs /\ agent.portfolio \in Seq(Claim)
  BY <1>1, Running DEF UserAgentInv, TypeOK
<1>3. copy \in Profile /\ copy.portfolio = agent.portfolio
  BY <1>2 DEF Jobs, Profile
<1>4. IsPrefix(copy.portfolio, agent.portfolio)
  BY <1>2, <1>3, PrefixRefl
<1>5. GoodJob(job, agent.portfolio)
  BY <1>1, <1>3, <1>4, StepNames, CopyGood
<1>6. job = [Moved(t, "sync_portfolio") EXCEPT !.copy.portfolio = agent.portfolio]
  BY <1>2 DEF Moved, Jobs
<1>7. Goto(t, job) /\ UNCHANGED <<process, agent, state, disk, stored, answered>>
  BY <1>6 DEF CopyPortfolio, memory
<1> HIDE DEF job
<1> QED
  BY <1>1, <1>5, <1>7, Running, GotoKeeps

LEMMA SyncPortfolioStep ==
    ASSUME UserAgentInv, NEW t \in Threads, SyncPortfolio(t)
    PROVE  UserAgentInv'
<1>1. process # "down"
  BY DEF SyncPortfolio, At
<1>2. thread[t].copy \in Profile /\ IsPrefix(thread[t].copy.portfolio, agent.portfolio)
  BY <1>1 DEF UserAgentInv, TypeOK, Jobs, CopiesArePrefixes
<1>3. state' \in Profile /\ state'.portfolio = thread[t].copy.portfolio
  BY <1>1, <1>2, Running DEF SyncPortfolio, Profile
<1>4. GoodJob(Moved(t, "copy_routing"), agent.portfolio)
  BY <1>1, Running, StepNames, MovedGood DEF UserAgentInv
<1>5. Goto(t, Moved(t, "copy_routing")) /\ UNCHANGED <<process, agent, disk, stored, answered>>
  BY DEF SyncPortfolio
<1> QED
  BY <1>1, <1>2, <1>3, <1>4, <1>5, Running, GotoKeeps

LEMMA CopyRoutingStep ==
    ASSUME UserAgentInv, NEW t \in Threads, CopyRouting(t)
    PROVE  UserAgentInv'
<1>1. process # "down"
  BY DEF CopyRouting, At
<1> DEFINE copy == [thread[t].copy EXCEPT !.routing = agent.routing]
           job == [Moved(t, "sync_routing") EXCEPT !.copy = copy]
<1>2. /\ thread[t] \in Jobs /\ agent.routing \in Routing
      /\ IsPrefix(thread[t].copy.portfolio, agent.portfolio)
  BY <1>1, Running DEF UserAgentInv, TypeOK, CopiesArePrefixes
<1>3. copy \in Profile /\ copy.portfolio = thread[t].copy.portfolio
  BY <1>2 DEF Jobs, Profile
<1>4. GoodJob(job, agent.portfolio)
  BY <1>1, <1>2, <1>3, StepNames, CopyGood
<1>5. job = [Moved(t, "sync_routing") EXCEPT !.copy.routing = agent.routing]
  BY <1>2 DEF Moved, Jobs
<1>6. Goto(t, job) /\ UNCHANGED <<process, agent, state, disk, stored, answered>>
  BY <1>5 DEF CopyRouting, memory
<1> HIDE DEF job
<1> QED
  BY <1>1, <1>4, <1>6, Running, GotoKeeps

LEMMA SyncRoutingStep ==
    ASSUME UserAgentInv, NEW t \in Threads, SyncRouting(t)
    PROVE  UserAgentInv'
<1>1. process # "down"
  BY DEF SyncRouting, At
<1>2. thread[t].copy.routing \in Routing
  BY ProfileFields DEF UserAgentInv, TypeOK, Jobs
<1>3. state' \in Profile /\ state'.portfolio = state.portfolio
  BY <1>1, <1>2, Running DEF SyncRouting, Profile
<1>4. GoodJob(Moved(t, "read_policy"), agent.portfolio)
  BY <1>1, Running, StepNames, MovedGood DEF UserAgentInv
<1>5. Goto(t, Moved(t, "read_policy")) /\ UNCHANGED <<process, agent, disk, stored, answered>>
  BY DEF SyncRouting
<1> QED
  BY <1>1, <1>3, <1>4, <1>5, Running, GotoKeeps

LEMMA ReadPolicyStep ==
    ASSUME UserAgentInv, NEW t \in Threads, ReadPolicy(t)
    PROVE  UserAgentInv'
<1>1. process # "down"
  BY DEF ReadPolicy, At
<1> DEFINE copy == [Fresh EXCEPT !.policy = state.policy]
           job == [Moved(t, "read_portfolio") EXCEPT !.copy = copy]
<1>2. state.policy \in Policies /\ agent.portfolio \in Seq(Claim)
  BY <1>1, Running, ProfileFields
<1>3. copy \in Profile /\ copy.portfolio = <<>>
  BY <1>2, FreshProfile, ProfileFields DEF Profile
<1>4. IsPrefix(copy.portfolio, agent.portfolio)
  BY <1>2, <1>3, PrefixRefl
<1>5. GoodJob(job, agent.portfolio)
  BY <1>1, <1>3, <1>4, StepNames, CopyGood
<1>6. Goto(t, job) /\ UNCHANGED <<process, agent, state, disk, stored, answered>>
  BY DEF ReadPolicy, memory
<1> HIDE DEF job
<1> QED
  BY <1>1, <1>5, <1>6, Running, GotoKeeps

LEMMA ReadPortfolioStep ==
    ASSUME UserAgentInv, NEW t \in Threads, ReadPortfolio(t)
    PROVE  UserAgentInv'
<1>1. process # "down"
  BY DEF ReadPortfolio, At
<1> DEFINE copy == [thread[t].copy EXCEPT !.portfolio = state.portfolio]
           job == [Moved(t, "read_routing") EXCEPT !.copy = copy]
<1>2. /\ thread[t] \in Jobs /\ state.portfolio \in Seq(Claim)
      /\ IsPrefix(state.portfolio, agent.portfolio)
  BY <1>1, Running DEF UserAgentInv, TypeOK
<1>3. copy \in Profile /\ copy.portfolio = state.portfolio
  BY <1>2 DEF Jobs, Profile
<1>4. GoodJob(job, agent.portfolio)
  BY <1>1, <1>2, <1>3, StepNames, CopyGood
<1>5. job = [Moved(t, "read_routing") EXCEPT !.copy.portfolio = state.portfolio]
  BY <1>2 DEF Moved, Jobs
<1>6. Goto(t, job) /\ UNCHANGED <<process, agent, state, disk, stored, answered>>
  BY <1>5 DEF ReadPortfolio, memory
<1> HIDE DEF job
<1> QED
  BY <1>1, <1>4, <1>6, Running, GotoKeeps

LEMMA ReadRoutingStep ==
    ASSUME UserAgentInv, NEW t \in Threads, ReadRouting(t)
    PROVE  UserAgentInv'
<1>1. process # "down"
  BY DEF ReadRouting, At
<1> DEFINE copy == [thread[t].copy EXCEPT !.routing = state.routing]
           job == [Moved(t, "replace") EXCEPT !.copy = copy]
<1>2. /\ thread[t] \in Jobs /\ state.routing \in Routing
      /\ IsPrefix(thread[t].copy.portfolio, agent.portfolio)
  BY <1>1, Running DEF UserAgentInv, TypeOK, CopiesArePrefixes
<1>3. copy \in Profile /\ copy.portfolio = thread[t].copy.portfolio
  BY <1>2 DEF Jobs, Profile
<1>4. GoodJob(job, agent.portfolio)
  BY <1>1, <1>2, <1>3, StepNames, CopyGood
<1>5. job = [Moved(t, "replace") EXCEPT !.copy.routing = state.routing]
  BY <1>2 DEF Moved, Jobs
<1>6. Goto(t, job) /\ UNCHANGED <<process, agent, state, disk, stored, answered>>
  BY <1>5 DEF ReadRouting, memory
<1> HIDE DEF job
<1> QED
  BY <1>1, <1>4, <1>6, Running, GotoKeeps

LEMMA ReplaceStep ==
    ASSUME UserAgentInv, NEW t \in Threads, Replace(t) \/ SaveFails(t)
    PROVE  UserAgentInv'
<1>1. process # "down"
  BY DEF Replace, SaveFails, At
<1>2. thread[t].copy \in Profile /\ IsPrefix(thread[t].copy.portfolio, agent.portfolio)
  BY <1>1 DEF UserAgentInv, TypeOK, Jobs, CopiesArePrefixes
<1>3. /\ disk'.kind \in {"none", "unreadable", "misshapen", "state"} /\ disk'.state \in Profile
      /\ IsPrefix(disk'.state.portfolio, agent.portfolio)
  BY <1>1, <1>2, Running DEF Replace, SaveFails, File
<1>4. thread[t].claims \in SUBSET Claim /\ {} \in SUBSET Claim
  BY DEF UserAgentInv, TypeOK, Jobs
<1>5. /\ GoodJob(Job("answer", thread[t].claims), agent.portfolio)
      /\ GoodJob(Job("saved", {}), agent.portfolio)
      /\ GoodJob(Job("exit", {}), agent.portfolio) /\ GoodJob(Idle, agent.portfolio)
  BY <1>1, <1>4, Running, StepNames, JobGood, IdleGood
<1>6. PICK job : Goto(t, job) /\ GoodJob(job, agent.portfolio)
  BY <1>5 DEF Replace, SaveFails, Saved
<1>7. UNCHANGED <<process, agent, state, stored, answered>>
  BY DEF Replace, SaveFails, memory
<1> QED
  BY <1>1, <1>3, <1>6, <1>7, Running, GotoKeeps

LEMMA PersistStep ==
    ASSUME UserAgentInv, NEW t \in Threads, Persist(t)
    PROVE  UserAgentInv'
  BY SyncPolicyStep, CopyPortfolioStep, SyncPortfolioStep, CopyRoutingStep,
     SyncRoutingStep, ReadPolicyStep, ReadPortfolioStep, ReadRoutingStep,
     ReplaceStep DEF Persist

-----------------------------------------------------------------------------
(* The life of the process, and every step.                                *)

LEMMA InvInit == Init => UserAgentInv
<1> SUFFICES ASSUME Init PROVE UserAgentInv
  OBVIOUS
<1>1. disk.kind \in {"none", "unreadable", "misshapen", "state"} /\ disk.state = Fresh
  BY DEF Init, NoFile, Unreadable, Misshapen
<1>2. Idle \in Jobs
  <2>1. <<>> \in Seq(Claim)
    OBVIOUS
  <2> QED
    BY <2>1, IdleGood DEF GoodJob
<1>3. thread \in [Threads -> Jobs] /\ \A t \in Threads : thread[t] = Idle
  BY <1>2 DEF Init
<1> QED
  BY <1>1, <1>3, FreshProfile DEF Init, UserAgentInv, TypeOK, CopiesArePrefixes

LEMMA BootStep ==
    ASSUME UserAgentInv, Boot
    PROVE  UserAgentInv'
<1>1. /\ process' = "running" /\ state' = disk.state /\ agent' = disk.state
      /\ UNCHANGED <<disk, thread, stored, answered>>
  BY DEF Boot
<1>2. /\ disk.state \in Profile /\ disk.state.portfolio \in Seq(Claim)
      /\ disk.kind \in {"none", "unreadable", "misshapen", "state"}
      /\ thread \in [Threads -> Jobs] /\ \A t \in Threads : thread[t] = Idle
      /\ stored \subseteq Claim /\ answered \subseteq Claim
  BY ProfileFields DEF Boot, UserAgentInv, TypeOK
<1>3. IsPrefix(disk.state.portfolio, disk.state.portfolio)
  BY <1>2, PrefixRefl
<1>4. GoodJob(Idle, disk.state.portfolio)
  BY <1>2, IdleGood
<1>5. TypeOK'
  BY <1>1, <1>2 DEF TypeOK
<1>6. CopiesArePrefixes'
  BY <1>1, <1>2, <1>3, <1>4 DEF CopiesArePrefixes, GoodJob
<1> QED
  BY <1>5, <1>6 DEF UserAgentInv

LEMMA BootFailsStep ==
    ASSUME UserAgentInv, BootFails
    PROVE  UserAgentInv'
  BY DEF BootFails, memory, UserAgentInv, TypeOK, CopiesArePrefixes

LEMMA EndsStep ==
    ASSUME UserAgentInv, Exit \/ Crash
    PROVE  UserAgentInv'
<1>1. /\ process' = "down" /\ agent' = Fresh /\ state' = Fresh
      /\ thread' = [t \in Threads |-> Idle] /\ UNCHANGED <<disk, stored, answered>>
  BY DEF Exit, Crash, Ends
<1>2. Idle \in Jobs
  <2>1. <<>> \in Seq(Claim)
    OBVIOUS
  <2> QED
    BY <2>1, IdleGood DEF GoodJob
<1>3. thread' \in [Threads -> Jobs] /\ \A t \in Threads : thread'[t] = Idle
  BY <1>1, <1>2
<1>4. TypeOK'
  BY <1>1, <1>3, FreshProfile DEF UserAgentInv, TypeOK
<1>5. CopiesArePrefixes'
  BY <1>1 DEF CopiesArePrefixes
<1> QED
  BY <1>4, <1>5 DEF UserAgentInv

LEMMA StartTickStep ==
    ASSUME UserAgentInv, StartTick
    PROVE  UserAgentInv'
<1>1. process # "down" /\ Tick \in Threads
  BY DEF StartTick, At, Threads
<1>2. GoodJob(Job("sync_policy", {}), agent.portfolio)
  BY <1>1, Running, StepNames, JobGood
<1>3. /\ Goto(Tick, Job("sync_policy", {}))
      /\ UNCHANGED <<process, agent, state, disk, stored, answered>>
  BY DEF StartTick, memory
<1> QED
  BY <1>1, <1>2, <1>3, Running, GotoKeeps

LEMMA LastSaveStep ==
    ASSUME UserAgentInv, LastSave
    PROVE  UserAgentInv'
<1>1. process # "down" /\ Main \in Threads
  BY DEF LastSave, Threads
<1>2. GoodJob(Job("read_policy", {}), agent.portfolio)
  BY <1>1, Running, StepNames, JobGood
<1>3. /\ Goto(Main, Job("read_policy", {}))
      /\ UNCHANGED <<process, agent, state, disk, stored, answered>>
  BY DEF LastSave, memory
<1> QED
  BY <1>1, <1>2, <1>3, Running, GotoKeeps

LEMMA TerminateStep ==
    ASSUME UserAgentInv, Terminate
    PROVE  UserAgentInv'
  BY DEF Terminate, memory, UserAgentInv, TypeOK, CopiesArePrefixes

LEMMA InvNext ==
    ASSUME UserAgentInv, [Next]_vars
    PROVE  UserAgentInv'
<1>1. CASE UNCHANGED vars
  BY <1>1 DEF vars, memory, UserAgentInv, TypeOK, CopiesArePrefixes
<1>2. ASSUME NEW w \in Workers, Request(w) PROVE UserAgentInv'
  BY <1>2, SetPolicyStep, ClaimSLAStep, SetRoutingStep DEF Request
<1>3. ASSUME NEW w \in Workers, Serve(w) PROVE UserAgentInv'
  BY <1>3, PostClaimStep, AppendClaimStep, AnswerStep DEF Serve
<1>4. ASSUME NEW t \in Threads, Persist(t) PROVE UserAgentInv'
  BY <1>4, PersistStep
<1>5. CASE Boot \/ BootFails \/ StartTick \/ Terminate \/ LastSave \/ Exit \/ Crash
  BY <1>5, BootStep, BootFailsStep, StartTickStep, TerminateStep, LastSaveStep, EndsStep
<1> QED
  BY <1>1, <1>2, <1>3, <1>4, <1>5 DEF Next

(***************************************************************************)
(* In every behaviour of the process, types are right and whatever any     *)
(* thread holds of the portfolio, in memory, in flight or in the file, is a*)
(* prefix of what the agent holds.                                         *)
(***************************************************************************)
THEOREM UserAgentInvariant == Spec => []UserAgentInv
<1>1. UserAgentInv /\ [Next]_vars => UserAgentInv'
  BY InvNext
<1> QED
  BY <1>1, InvInit, PTL DEF Spec

(***************************************************************************)
(* The type invariant of the user agent.                                   *)
(***************************************************************************)
THEOREM UserAgentTypes == Spec => []TypeOK
<1>1. UserAgentInv => TypeOK
  BY DEF UserAgentInv
<1> QED
  BY <1>1, UserAgentInvariant, PTL

(***************************************************************************)
(* The copies that user_agent/app.py:103-107 and state_store.py:186 make of*)
(* the portfolio are prefixes of it, whenever they were made.              *)
(***************************************************************************)
THEOREM CopiesHold == Spec => []CopiesArePrefixes
<1>1. UserAgentInv => CopiesArePrefixes
  BY DEF UserAgentInv
<1> QED
  BY <1>1, UserAgentInvariant, PTL

-----------------------------------------------------------------------------
(* The process implements the lagging log.                                 *)

LEMMA LogStutters ==
    ASSUME process # "down", process' # "down",
           agent'.portfolio = agent.portfolio, disk'.state = disk.state
    PROVE  UNCHANGED <<Held, disk.state.portfolio>>
  BY DEF Held

LEMMA LogGrows ==
    ASSUME UserAgentInv, NEW w \in Workers, AppendClaim(w)
    PROVE  Log!Grow
<1>1. process # "down" /\ process' = process /\ w \in Threads /\ disk' = disk
  BY DEF AppendClaim, At, Threads
<1>2. PICK c \in thread[w].claims : agent' = [agent EXCEPT !.portfolio = Append(@, c)]
  BY DEF AppendClaim
<1>3. c \in Claim /\ agent \in Profile /\ agent.portfolio \in Seq(Claim)
  BY <1>1, Running DEF UserAgentInv, TypeOK, Jobs
<1>4. agent'.portfolio = Append(agent.portfolio, c)
  BY <1>2, <1>3 DEF Profile
<1>5. Held = agent.portfolio /\ Held' = Append(agent.portfolio, c)
  BY <1>1, <1>4 DEF Held
<1>6. /\ Len(Held') \in DOMAIN Held' /\ Held'[Len(Held')] = c
      /\ Held' = Append(Held, c)
  BY <1>3, <1>5
<1>7. \E claim \in {Held'[n] : n \in DOMAIN Held'} : Held' = Append(Held, claim)
  BY <1>6
<1> QED
  BY <1>1, <1>7 DEF Log!Grow

LEMMA LogSaved ==
    ASSUME UserAgentInv, NEW t \in Threads, Replace(t)
    PROVE  Log!Save
<1>1. process # "down" /\ UNCHANGED <<process, agent>>
  BY DEF Replace, At, memory
<1> DEFINE copy == thread[t].copy.portfolio
<1>2. copy \in Seq(Claim) /\ IsPrefix(copy, agent.portfolio)
  BY <1>1, ProfileFields DEF UserAgentInv, TypeOK, CopiesArePrefixes, Jobs
<1>3. disk'.state.portfolio = copy
  BY DEF Replace, File
<1>4. Held = agent.portfolio /\ Held' = Held /\ agent.portfolio \in Seq(Claim)
  BY <1>1, Running DEF Held
<1> HIDE DEF copy
<1>5. Len(copy) \in 0..Len(Held) /\ copy = SubSeq(Held, 1, Len(copy))
  BY <1>2, <1>4 DEF IsPrefix
<1> QED
  BY <1>3, <1>4, <1>5 DEF Log!Save

LEMMA LogStep ==
    ASSUME UserAgentInv, [Next]_vars
    PROVE  [Log!Next]_<<Held, disk.state.portfolio>>
<1>1. CASE UNCHANGED vars
  BY <1>1 DEF vars, memory, Held
<1>2. ASSUME NEW w \in Workers, Request(w)
      PROVE  UNCHANGED <<Held, disk.state.portfolio>>
  <2>1. process # "down" /\ agent \in Profile
    BY <1>2 DEF Request, SetPolicy, ClaimSLA, SetRouting, Free, UserAgentInv, TypeOK
  <2>2. agent'.portfolio = agent.portfolio
    BY <1>2, <2>1 DEF Request, SetPolicy, ClaimSLA, SetRouting, memory, Profile
  <2>3. UNCHANGED <<process, disk>>
    BY <1>2 DEF Request, SetPolicy, ClaimSLA, SetRouting
  <2> QED
    BY <2>1, <2>2, <2>3, LogStutters
<1>3. ASSUME NEW w \in Workers, Serve(w) PROVE [Log!Next]_<<Held, disk.state.portfolio>>
  <2>1. CASE AppendClaim(w)
    BY <2>1, LogGrows DEF Log!Next
  <2>2. CASE PostClaim(w) \/ PostClaimRaises(w) \/ Answer(w)
    BY <2>2, LogStutters DEF PostClaim, PostClaimRaises, Answer, At, memory
  <2> QED
    BY <1>3, <2>1, <2>2 DEF Serve
<1>4. ASSUME NEW t \in Threads, Persist(t) PROVE [Log!Next]_<<Held, disk.state.portfolio>>
  <2>1. CASE Replace(t)
    BY <2>1, LogSaved DEF Log!Next
  <2>2. CASE SyncPolicy(t) \/ SyncPortfolio(t) \/ SyncRouting(t)
    BY <2>2, LogStutters DEF SyncPolicy, SyncPortfolio, SyncRouting, At
  <2>3. CASE \/ CopyPortfolio(t) \/ CopyRouting(t) \/ ReadPolicy(t)
             \/ ReadPortfolio(t) \/ ReadRouting(t) \/ SaveFails(t)
    BY <2>3, LogStutters
    DEF CopyPortfolio, CopyRouting, ReadPolicy, ReadPortfolio, ReadRouting, SaveFails,
        At, memory
  <2> QED
    BY <1>4, <2>1, <2>2, <2>3 DEF Persist
<1>5. CASE Boot \/ BootFails
  BY <1>5 DEF Boot, BootFails, memory, Held
<1>6. CASE StartTick \/ Terminate \/ LastSave
  BY <1>6, LogStutters DEF StartTick, Terminate, LastSave, At, memory
<1>7. CASE Exit \/ Crash
  BY <1>7 DEF Exit, Crash, Ends, Held, Log!Restart, Log!Next
<1> QED
  BY <1>1, <1>2, <1>3, <1>4, <1>5, <1>6, <1>7 DEF Next

(***************************************************************************)
(* The process implements LaggingLog: whatever the threads do to each      *)
(* other's saves, a crash takes back the latest claims only.               *)
(***************************************************************************)
THEOREM FileLags == Spec => FileLagsPortfolio
<1>1. Init => Log!Init
  BY DEF Init, Log!Init, Held, NoFile, Unreadable, Misshapen, Fresh
<1>2. UserAgentInv /\ [Next]_vars => [Log!Next]_<<Held, disk.state.portfolio>>
  BY LogStep
<1> QED
  BY <1>1, <1>2, UserAgentInvariant, PTL DEF Spec, FileLagsPortfolio, Log!Spec

=============================================================================
