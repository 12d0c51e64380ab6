------------------------------ MODULE UserAgent ------------------------------
(***************************************************************************)
(* The user AS's process (user_agent/app.py, main.py, state_store.py and   *)
(* the parts of agent/agent.py it calls).  Its handlers are plain          *)
(* functions that the framework runs in worker threads, a daemon thread    *)
(* persists the state every few seconds, and the main thread saves once    *)
(* more when the server has stopped.  Nothing locks the state they share:  *)
(* a thread may be overtaken wherever it calls something.                  *)
(***************************************************************************)
EXTENDS Integers, FiniteSets, SequencesExt

CONSTANTS
    Workers,        \* the threads that serve /local requests
    Tick,           \* the tick thread
    Main,           \* the main thread
    SLAs,           \* the SLAs of the market
    Barred,         \* those the user AS cosigns, but not as their source
    Seconds,        \* the values of claimed_at
    Policies,
    DefaultPolicy,
    Destinations,
    Covering,       \* Covering[d]: SLAs that share a hop with the path to d
    MaxClaims,      \* bound on the claims signed
    MaxEdits,       \* bound on the policies and routing decisions set
    MaxBoots,       \* bound on the starts of the process
    MaxFaults       \* bound on the saves and the calls that fail

Threads == Workers \cup {Tick, Main}

ASSUME UserAgentAssumption ==
    /\ Tick # Main /\ Tick \notin Workers /\ Main \notin Workers
    /\ Barred \subseteq SLAs
    /\ DefaultPolicy \in Policies
    /\ Covering \in [Destinations -> SUBSET SLAs]

\* SignedClaim: only claimed_at, in whole seconds, tells some of them apart.
Claim == [sla : SLAs, gb : 0..1, claimed_at : Seconds]

\* UserAgentState; a RoutingDecision is the set of its applied claims.
Routing == UNION {[ds -> SUBSET Claim] : ds \in SUBSET Destinations}

Profile == [policy : Policies, portfolio : Seq(Claim), routing : Routing]

Fresh == [policy |-> DefaultPolicy, portfolio |-> <<>>, routing |-> <<>>]

\* The state file: [kind |-> "state", state |-> a profile] if it can be read;
\* a misshapen one is JSON, but not an object.
NoFile == [kind |-> "none", state |-> Fresh]
Unreadable == [kind |-> "unreadable", state |-> Fresh]
Misshapen == [kind |-> "misshapen", state |-> Fresh]
File(profile) == [kind |-> "state", state |-> profile]

VARIABLES
    process,        \* "down", "running" or "stopping" (the server drains)
    agent,          \* service.agent: policy, portfolio, routing_decisions
    state,          \* service.state, the projection of it that is saved
    disk,           \* the state file
    thread,         \* what each thread is about to do
    stored,         \* external: the user's claims the aggregator stored
    answered,       \* history: the claims answered 200
    signed,         \* history: how many claims were signed
    edits,          \* history: how many policies and routings were set
    boots,          \* history: how often the process was started
    faults          \* history: how many saves and calls failed

memory == <<agent, state>>
counters == <<signed, edits, boots, faults>>
vars == <<process, memory, disk, thread, stored, answered, counters>>

-----------------------------------------------------------------------------

\* A request is about a claim or about none; `copy' is what the thread has
\* read of the state.
Job(pc, claims) == [pc |-> pc, claims |-> claims, copy |-> Fresh]

Steps ==
    {"idle", "post_claim", "append", "answer",
     "sync_policy", "copy_portfolio", "sync_portfolio", "copy_routing",
     "sync_routing", "read_policy", "read_portfolio", "read_routing",
     "replace", "saved", "exit"}

Jobs == [pc : Steps, claims : SUBSET Claim, copy : Profile]

Idle == Job("idle", {})

Init ==
    /\ process = "down"
    /\ agent = Fresh /\ state = Fresh
    /\ disk \in {NoFile, Unreadable, Misshapen}
    /\ thread = [t \in Threads |-> Idle]
    /\ stored = {} /\ answered = {}
    /\ signed = 0 /\ edits = 0 /\ boots = 0 /\ faults = 0

At(t, pc) == process # "down" /\ thread[t].pc = pc

Goto(t, next) == thread' = [thread EXCEPT ![t] = next]

Moved(t, pc) == [thread[t] EXCEPT !.pc = pc]

Fault == faults < MaxFaults /\ faults' = faults + 1

-----------------------------------------------------------------------------
(* Requests.  Those that only read, or only post, leave this state alone.  *)

\* A worker takes a request while the server accepts them.
Free(w) == process = "running" /\ thread[w] = Idle

\* PUT /local/policy.
SetPolicy(w, policy) ==
    /\ Free(w) /\ edits < MaxEdits
    /\ edits' = edits + 1
    /\ agent' = [agent EXCEPT !.policy = policy]
    /\ state' = [state EXCEPT !.policy = policy]
    /\ Goto(w, Job("sync_policy", {}))
    /\ UNCHANGED <<process, disk, stored, answered, signed, boots, faults>>

\* POST /local/actions/claim: get_sla finds the SLA, and the claim is signed.
ClaimSLA(w, c) ==
    /\ Free(w) /\ signed < MaxClaims
    /\ c.sla \notin Barred
    /\ signed' = signed + 1
    /\ Goto(w, Job("post_claim", {c}))
    /\ UNCHANGED <<process, memory, disk, stored, answered, edits, boots, faults>>

\* The aggregator refuses a claim on no gigabytes, or on an SLA that expired
\* or that it forgot in the meantime.
Received(claims) == {stored, stored \cup {c \in claims : c.gb > 0}}

\* Whatever it answers, 201 or 400, nobody looks at it.
PostClaim(w) ==
    /\ At(w, "post_claim")
    /\ stored' \in Received(thread[w].claims)
    /\ Goto(w, Moved(w, "append"))
    /\ UNCHANGED <<process, memory, disk, answered, counters>>

\* The call fails, before or after the aggregator got the claim.
PostClaimRaises(w) ==
    /\ At(w, "post_claim") /\ Fault
    /\ stored' \in Received(thread[w].claims)
    /\ Goto(w, Idle)
    /\ UNCHANGED <<process, memory, disk, answered, signed, edits, boots>>

AppendClaim(w) ==
    /\ At(w, "append")
    /\ \E c \in thread[w].claims :
          agent' = [agent EXCEPT !.portfolio = Append(@, c)]
    /\ Goto(w, Moved(w, "sync_policy"))
    /\ UNCHANGED <<process, state, disk, stored, answered, counters>>

ValidRouting(d, claims) ==
    /\ claims \subseteq ToSet(agent.portfolio)
    /\ \A c \in claims : c.sla \in Covering[d]

\* PUT /local/routing/{d}.
SetRouting(w, d, claims) ==
    /\ Free(w) /\ edits < MaxEdits
    /\ ValidRouting(d, claims)
    /\ edits' = edits + 1
    /\ agent' = [agent EXCEPT !.routing =
                    [e \in DOMAIN @ \cup {d} |-> IF e = d THEN claims ELSE @[e]]]
    /\ Goto(w, Job("sync_policy", {}))
    /\ UNCHANGED <<process, state, disk, stored, answered, signed, boots, faults>>

Answer(w) ==
    /\ At(w, "answer")
    /\ answered' = answered \cup thread[w].claims
    /\ Goto(w, Idle)
    /\ UNCHANGED <<process, memory, disk, stored, counters>>

-----------------------------------------------------------------------------
(* _persist and save_state.  Two threads may be in them at a time.         *)

SyncPolicy(t) ==
    /\ At(t, "sync_policy")
    /\ state' = [state EXCEPT !.policy = agent.policy]
    /\ Goto(t, Moved(t, "copy_portfolio"))
    /\ UNCHANGED <<process, agent, disk, stored, answered, counters>>

\* list(agent.portfolio) is made before it is assigned.
CopyPortfolio(t) ==
    /\ At(t, "copy_portfolio")
    /\ Goto(t, [Moved(t, "sync_portfolio") EXCEPT !.copy.portfolio = agent.portfolio])
    /\ UNCHANGED <<process, memory, disk, stored, answered, counters>>

SyncPortfolio(t) ==
    /\ At(t, "sync_portfolio")
    /\ state' = [state EXCEPT !.portfolio = thread[t].copy.portfolio]
    /\ Goto(t, Moved(t, "copy_routing"))
    /\ UNCHANGED <<process, agent, disk, stored, answered, counters>>

CopyRouting(t) ==
    /\ At(t, "copy_routing")
    /\ Goto(t, [Moved(t, "sync_routing") EXCEPT !.copy.routing = agent.routing])
    /\ UNCHANGED <<process, memory, disk, stored, answered, counters>>

\* Mutant: _persist forgets the routing decisions.
SyncNoRouting(t) ==
    /\ At(t, "sync_routing")
    /\ Goto(t, Moved(t, "read_policy"))
    /\ UNCHANGED <<process, memory, disk, stored, answered, counters>>

SyncRouting(t) ==
    /\ At(t, "sync_routing")
    /\ state' = [state EXCEPT !.routing = thread[t].copy.routing]
    /\ Goto(t, Moved(t, "read_policy"))
    /\ UNCHANGED <<process, agent, disk, stored, answered, counters>>

\* _state_to_dict serialises one field after the other.
ReadPolicy(t) ==
    /\ At(t, "read_policy")
    /\ Goto(t, [Moved(t, "read_portfolio") EXCEPT
                   !.copy = [Fresh EXCEPT !.policy = state.policy]])
    /\ UNCHANGED <<process, memory, disk, stored, answered, counters>>

ReadPortfolio(t) ==
    /\ At(t, "read_portfolio")
    /\ Goto(t, [Moved(t, "read_routing") EXCEPT !.copy.portfolio = state.portfolio])
    /\ UNCHANGED <<process, memory, disk, stored, answered, counters>>

ReadRouting(t) ==
    /\ At(t, "read_routing")
    /\ Goto(t, [Moved(t, "replace") EXCEPT !.copy.routing = state.routing])
    /\ UNCHANGED <<process, memory, disk, stored, answered, counters>>

\* The tick thread and the main thread answer nobody.
Saved(t) == IF t \in Workers THEN Job("answer", thread[t].claims)
            ELSE IF t = Main THEN Job("saved", {}) ELSE Idle

\* os.replace: the file is the old one or the new one, whenever a crash comes.
Replace(t) ==
    /\ At(t, "replace")
    /\ disk' = File(thread[t].copy)
    /\ Goto(t, Saved(t))
    /\ UNCHANGED <<process, memory, stored, answered, counters>>

\* No space, no permission: a worker answers 500, a tick is logged, and the
\* main thread dies with the exception.
SaveFails(t) ==
    /\ At(t, "replace") /\ Fault
    /\ Goto(t, IF t = Main THEN Job("exit", {}) ELSE Idle)
    /\ UNCHANGED <<process, memory, disk, stored, answered, signed, edits, boots>>

-----------------------------------------------------------------------------
(* The life of the process.                                                *)

\* Mutant: the parsed file is taken for the state in it.
BootUnconverted ==
    /\ process = "down" /\ boots < MaxBoots
    /\ disk # Misshapen
    /\ process' = "running" /\ boots' = boots + 1
    /\ state' = disk
    /\ agent' = state'
    /\ UNCHANGED <<disk, thread, stored, answered, signed, edits, faults>>

\* Mutant: the agent starts without the saved portfolio.
BootEmptyHanded ==
    /\ process = "down" /\ boots < MaxBoots
    /\ disk # Misshapen
    /\ process' = "running" /\ boots' = boots + 1
    /\ state' = disk.state
    /\ agent' = [state' EXCEPT !.portfolio = <<>>]
    /\ UNCHANGED <<disk, thread, stored, answered, signed, edits, faults>>

\* load_or_init_state; UserAgentService hands the state on to the agent.
Boot ==
    /\ process = "down" /\ boots < MaxBoots
    /\ disk # Misshapen
    /\ process' = "running" /\ boots' = boots + 1
    /\ state' = disk.state
    /\ agent' = state'
    /\ UNCHANGED <<disk, thread, stored, answered, signed, edits, faults>>

\* Nothing catches the AttributeError of what is no object: the start fails.
BootFails ==
    /\ process = "down" /\ boots < MaxBoots
    /\ disk = Misshapen
    /\ boots' = boots + 1
    /\ UNCHANGED <<process, memory, disk, thread, stored, answered, signed, edits, faults>>

\* _policy_tick, until stop_event is set.
StartTick ==
    /\ At(Tick, "idle") /\ thread[Main] = Idle
    /\ Goto(Tick, Job("sync_policy", {}))
    /\ UNCHANGED <<process, memory, disk, stored, answered, counters>>

\* SIGTERM, while uvicorn's own handler stands in for _on_term: the server takes
\* no new request and drains those it has.
Terminate ==
    /\ process = "running"
    /\ process' = "stopping"
    /\ UNCHANGED <<memory, disk, thread, stored, answered, counters>>

\* stop_event.set, and save_state without _persist: by _on_term, once for each
\* signal that uvicorn raises again when it has drained (some versions do), and
\* by main when uvicorn.run has returned.
LastSave ==
    /\ process = "stopping" /\ thread[Main].pc \in {"idle", "saved"}
    /\ \A w \in Workers : thread[w] = Idle
    /\ Goto(Main, Job("read_policy", {}))
    /\ UNCHANGED <<process, memory, disk, stored, answered, counters>>

\* The process ends, and the tick thread with it, wherever it is.
Ends ==
    /\ process' = "down"
    /\ agent' = Fresh /\ state' = Fresh
    /\ thread' = [t \in Threads |-> Idle]
    /\ UNCHANGED <<disk, stored, answered, counters>>

\* After the last of these saves, or with the exception of one that failed.
Exit == (At(Main, "saved") \/ At(Main, "exit")) /\ Ends

Crash == process # "down" /\ Ends

-----------------------------------------------------------------------------

Persist(t) ==
    \/ SyncPolicy(t) \/ CopyPortfolio(t) \/ SyncPortfolio(t)
    \/ CopyRouting(t) \/ SyncRouting(t)
    \/ ReadPolicy(t) \/ ReadPortfolio(t) \/ ReadRouting(t)
    \/ Replace(t) \/ SaveFails(t)

Serve(w) == PostClaim(w) \/ PostClaimRaises(w) \/ AppendClaim(w) \/ Answer(w)

Request(w) ==
    \/ \E policy \in Policies : SetPolicy(w, policy)
    \/ \E c \in Claim : ClaimSLA(w, c)
    \/ \E d \in Destinations, claims \in SUBSET ToSet(agent.portfolio) :
          SetRouting(w, d, claims)

Next ==
    \/ \E w \in Workers : Request(w) \/ Serve(w)
    \/ \E t \in Threads : Persist(t)
    \/ Boot \/ BootFails \/ StartTick \/ Terminate \/ LastSave \/ Exit \/ Crash

Spec == Init /\ [][Next]_vars

(***************************************************************************)
(* Threads are scheduled, calls time out after five seconds, and the tick  *)
(* thread comes back every interval for as long as the process lives.      *)
(***************************************************************************)
FairSpec ==
    /\ Spec
    /\ \A t \in Threads : WF_vars(Persist(t))
    /\ \A w \in Workers : WF_vars(Serve(w))
    /\ WF_vars(StartTick)

-----------------------------------------------------------------------------
(* Correctness.                                                            *)

TypeOK ==
    /\ process \in {"down", "running", "stopping"}
    /\ agent \in Profile /\ state \in Profile
    /\ disk.kind \in {"none", "unreadable", "misshapen", "state"}
    /\ disk.state \in Profile
    /\ thread \in [Threads -> Jobs]
    /\ process = "down" => \A t \in Threads : thread[t] = Idle
    /\ stored \subseteq Claim /\ answered \subseteq Claim

(***************************************************************************)
(* The file is never ahead of the portfolio and never holds it out of      *)
(* order, although several threads copy it, at different times, and finish *)
(* in any order: a save may take claims back out of the file, and a crash  *)
(* then loses them, but it loses the latest ones only.                     *)
(***************************************************************************)
Held == IF process = "down" THEN disk.state.portfolio ELSE agent.portfolio

Log == INSTANCE LaggingLog WITH log <- Held, saved <- disk.state.portfolio

FileLagsPortfolio == Log!Spec

\* Why: whatever any thread holds of the portfolio is a prefix of it.
CopiesArePrefixes ==
    process # "down" =>
        /\ IsPrefix(state.portfolio, agent.portfolio)
        /\ IsPrefix(disk.state.portfolio, agent.portfolio)
        /\ \A t \in Threads : IsPrefix(thread[t].copy.portfolio, agent.portfolio)

(***************************************************************************)
(* Whatever the threads did to each other's saves, and whatever failed, the*)
(* tick repairs it: once nothing changes any more, the file is what the    *)
(* agent acts on, for as long as the process runs.                         *)
(***************************************************************************)
FinallySaved == <>[](process = "running" => disk = File(agent))

(***************************************************************************)
(* user_agent/app.py:159 "Each referenced claim_id must exist in the       *)
(* portfolio": the claims applied on a route are in the portfolio, in a    *)
(* restarted process too.                                                  *)
(***************************************************************************)
RoutedIsHeld ==
    \A d \in DOMAIN agent.routing : agent.routing[d] \subseteq ToSet(agent.portfolio)

(***************************************************************************)
(* user_agent/app.py:12 "Every mutation persists atomically via save_state *)
(* before the response returns".                                           *)
(***************************************************************************)
AnsweredIsSaved == answered \subseteq ToSet(disk.state.portfolio)
=============================================================================
