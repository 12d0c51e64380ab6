# PathMarket in TLA+

PathMarket is a market for quality guarantees on inter-domain paths.  ASes sign
SLAs together, other ASes buy gigabytes on them (claims) and file complaints when
a measured metric misses a bound, and an aggregator turns complaints into
violation events and reputation scores.  This directory holds TLA+ modules for
the parts of `src/src/pathmarket/` whose correctness depends on order, time and
concurrency, the TLC configurations that check them, and TLAPS proofs.

Paths below are relative to `src/src/pathmarket/` unless they start with `src/`.

## 1. Inventory

| Component | State | Operations | What is hard | What makes it correct |
|---|---|---|---|---|
| Aggregator: `aggregator/app.py`, `storage.py`, `scoring.py` | `slas`, `claims`, `complaints`, `ticker_events`, all in memory | `POST /sla`, `/claim`, `/complaint`, `/admin/reset`; queries | POSTs are `async` and run one at a time on the event loop; GETs and the reset are plain functions and run in worker threads, between any two steps of a POST. A reset clears one field after the other. A dict that changes size under an iterator raises | records refer to what is stored; one voice per dedup window; a score listed was a score of some moment |
| Ingestion rules: `aggregator/validation.py` | none | three chains of steps, the first failure answers | checks are made before the storing, on client-chosen timestamps | no duplicate gets in, signers are the cosigners |
| Scorer: `scorer/scorer.py` | none (recomputed per query) | `compute_violation_events`, `compute_score` | a sliding window, and a cohort that suppresses further events until it has aged out | each event is corroborated, no complaint counts twice, no episode is missed |
| User agent: `user_agent/app.py`, `main.py`, `state_store.py` | the agent's policy, portfolio and routing; a projection of them; the state file | policy, claim, routing requests; tick; start, shutdown, crash | handlers and the tick thread call `_persist` at the same time without a lock; the main thread saves once more | the file follows the agent; a crash loses little |
| Agent: `agent/agent.py`, `client.py` | portfolio, routing decisions | publish, claim, complain, choose a route | signing, posting and remembering are separate; the client never looks at the status of a POST | a claim kept is a claim bought; the route chosen is the best acceptable one |
| Policy: `agent/policy.py`, `simulated_quality.py` | none / a random walk | accept, compose bounds, choose the best SLA, should complain | missing bounds, ties | choice is acceptable and best; a complaint is a violation |
| Route planner: `user_agent/routing.py` | none | placements, schemes, aggregate, the candidates of a destination | enumeration stops at `MAX_SCHEMES`; missing bounds; the portfolio is walked live while other workers append to it and the aggregator is reset | schemes do not overlap and come in order, aggregates match, an offer can be put |
| Consumed-GB walk: `user_agent/consumed_walk.py` | a counter per claim id | `advance` | several worker threads without a lock; equal claim ids; the time is read once per call | capped, in pace with the clock, monotone |
| Simulator: `simulator/orchestrator.py`, `main.py`, `scenarios.py`, `scenario_api.py` | live SLA ids, quality models, bounds | pre-seed, tick, scenarios, reset | the live loop and the scenario API share dicts without a lock; the loop catches `KeyboardInterrupt` only | the loop survives what scenarios do; a reset leaves a fresh market; a repair restores what was spoilt; one complaint per tick |
| Path discovery: `path_discovery/` | none | `paths_from` | two forms of the command's output, one with an entry per interface | what is parsed is the path |
| Canonical encoding, verifier, recorder, UI, scripts, topology | files, tables | hashing, drawing | nothing that depends on order | not modelled |

How they interact: the simulator's agents and the user agent talk to the
aggregator over HTTP (five-second timeout; reads raise on an error status, posts
never look at it).  The aggregator calls the ingestion rules and then its storage
on each POST, and the scorer over a copy of all complaints on each score query,
and twice within each accepted complaint.  The scenario API and the live loop
share the orchestrator's dicts.  The UI polls the aggregator and the user agent.

## 2. Modules

| Module | Models | Uses |
|---|---|---|
| `Scorer` | what `compute_violation_events` computes, without its loop: `Fires(log)` | |
| `ScorerScan` | the loop, one step per complaint | `Scorer` |
| `Episodes` | the promise to the scored ASes: large enough cohorts, reports more than W minutes apart | |
| `Validation` | the three validation chains as predicates | |
| `Aggregator` | the storage, the event loop, a reset and a `GET /scores` in worker threads | `Scorer`, `Validation` |
| `UserAgent` | the process: workers, tick thread, main thread, agent, state, file | |
| `LaggingLog` | what the state file promises of the portfolio | |
| `Simulator` | the process: the live loop, the scenario requests, the orchestrator's collections and portfolios | |
| `Policy` | the functions of `policy.py` and the test of a sample | |
| `PathDiscovery` | the parsing of the two forms of a path | |
| `Routing` | the requests for candidates and for a route, and `choose_route`, call by call | `Policy`, `PathDiscovery` |
| `ConsumedWalk` | the counters of the claims and the threads that advance them | |
| `MC*` | small instances | |
| `Foundations` | lemmas on induction, finite orders, folds and sums that the proofs share | |
| `*Proofs` | theorems about the module of that name (`RoutingProofs` on `Policy` and `PathDiscovery` too); `ScorerProofs` is used by those on the scan and the aggregator | `Foundations` |

### Scorer, ScorerScan, Episodes

A log is the sorted list of violating complaints of one SLA and one metric (the
grouping of `scorer.py:89-107` is done by `Aggregator!Ordered`).  `ScorerScan`
has the loop's variables: `i`, `window_start` (`window_start_idx`), `triggered`
(`triggered_complainants`, `{}` for `None`: a cohort is never empty if K > 0, and
for K <= 0 an empty cohort and none lead to the same next step) and `events`.
The three ways through the loop's body are three actions: `Suppress` (the
`continue`), `Quiet` (fewer than k complainants) and `Emit`.  `fired` is a history
variable: the position that emitted each event.  Time is in minutes.

### Validation

An SLA identifier is the hash of its payload, so it stands for the payload, whose
fields are constant functions of it.  A submission is a record of what the rules
tell apart; `well_formed` sums up JSON, `schema_version` and the attachment rules.
A signature is the AS it names and whether that AS's key verifies it.  The order
of the steps only chooses the message, except that the duplicate check of a
complaint is last and answers 200: it is an action of its own in `Aggregator`.

### Aggregator

One variable per field of `AggregatorStorage` (`sla_ingestion_times`, which no
code reads, is left out), `pc` and `request` for the POST that the event loop is
serving, `wiper` for the field that a reset clears next, `reader` for a
`GET /scores`.  A POST is split wherever a worker thread may come between a read
and the use of what was read: validation, the dedup scan, the second `get_sla`, each
`score_for_as`, the append, the ticker line, the announcements.  Two POSTs never
interleave, since no handler awaits after it has read its body.  `ScoreRaises` and
`WalkRaises` are the `RuntimeError` of a dict that changed size under its iterator.
Records are dated with `looked`, the number of fields cleared when they were
validated: a history that the properties about resets need.  Scores are in
hundredths and the penalty of an event of a given age is a constant function.

### UserAgent, LaggingLog

`thread[t]` says what each thread is about to do, with the claim its request is
about and what it has copied.  `_persist` is split at each assignment, and where an
argument is built before it is assigned (`list(...)`, `dict(...)`); `save_state` at
the three fields it serialises and at `os.replace`, before which it changes nothing
that anybody reads.  `ClaimSLA` is the lookup and the signature; `PostClaim`, the
call (the aggregator is external here: it stores the claim or not, and its answer
is not looked at); `AppendClaim`, the append.  `Boot` is `load_or_init_state` with
the constructor of the service.  `Terminate`, `LastSave` and `Exit` are the
shutdown; `Crash` may come anywhere.  The tick thread is a daemon: it dies where it
is.  Requests that only read, or that only post, are left out: they leave this
state alone.  While the server runs its own signal handler stands in for `_on_term`
(`main.py:279`), so `Terminate` only makes it drain.  Newer versions of the server then
raise each signal again that they caught, with the old handlers back in place: each of
these runs `_on_term`, which saves, before `main` saves itself.  `LastSave` is any of these
saves, so there may be several before `Exit`, and one that fails is the last.  A state file
that is JSON but no object is `Misshapen`: `load_or_init_state` raises an `AttributeError`
on it that nothing catches, and the process does not start (`BootFails`).

### Simulator

`thread[t]` says what the live loop and each request thread are about to do, with
the lists they walk (`todo`, `agents`) and the SLAs they are publishing (`plan`).
`_publish_template` is shared code, so its four steps (`PostSLA`, `PutModel`,
`PutBounds`, `ListLive`) are actions of any thread: of the seeding, of a tick, of
`cloud_bargain` and of a reset.  A tick is `StartTick`, `ReadMarket`, one `Shop` per
buyer with `PostClaim` and `AppendClaim`, and for each claim in the copy of a
portfolio the test of line 252 (`NextClaim`), the two reads after it (`Measure`),
`GetSLA` and `FileComplaint`.  A scenario is split wherever the live loop may come
in between: at each `clear`, and between the test of the bounds and the write of the
model.  The two walks over a copy of `live_sla_ids`, `degrade_as` and `fix_as`, share
`Visit`.  A quality model is `"nominal"` or `"violating"`; which SLA a policy takes
and whether a nominal sample is bad enough are free.  The aggregator is external: it
stores what it is sent, forgets it when it is wiped, and refuses a claim on an SLA it
does not know; one SLA of another process is there from the start.  `CallFails` is
a call that raises: it ends the process in the live loop and answers 500 in a
request.  `Die` is a `KeyError` in the tick.  `clash` records that threads got in each other's way: two requests at once,
or a reset or a publication during a tick.

### Policy, PathDiscovery, Routing

SLAs are numbers in the order of their identifiers, which break ties.  A bound that
is `None` is absent from the domain of `Bound[s]`; scores are in hundredths, means in
twelfths of these (consortia have up to four ASes), so that every comparison is exact.
A path is a sequence of hops.  `PrintedSequence` and `PrintedHops` are what the
command prints of a path (external), `ParseSequence` and `ParseHops` the two parsers.
A path has at least two hops, neighbouring ones of different ASes, and no interface
before its first AS or after its last: without that the form with an entry per
interface does not say where a hop ends.

`Routing` has the aggregator's SLAs (`market`, external), the agent's portfolio and
the one `call` that a worker is serving, split at each question to the aggregator:
`GetSLA` for each claim of the live portfolio, `GetScores`, `ComposeNext` per path,
`AnswerCandidates`; then `PutRouting` with an offered scheme or nothing, one
`ValidateHop` per hop in any order, `SetRouting`; or `ChooseRoute`, `ListActive`,
`ComparePath` per path, `Decide`.  Meanwhile other workers buy (`AppendClaim`) and the
aggregator is wiped and filled (`Wipe`, `Post`).  `EnumerateSchemes` is the recursion
of `_enumerate_schemes` as a recursive function, skipping a placement before including
it; it is a function of the position, then of what is chosen, then of what was found,
so that the proofs can unfold one argument at a time.  `seen` (the portfolio a candidate was made from) and `lost` (the SLAs the
aggregator forgot since the call began) are histories.  Expiry comes in where the
aggregator filters it, in `ListActive`.  What is done with a decision is `UserAgent`'s.

### ConsumedWalk

`cell[c][w]` is the state object that worker w made for claim c, and `by_claim[c]`
says whose is in the dict: a second thread that found none replaces the first's, which
goes on writing to its own.  A visit of a claim is split at each access to what the
threads share: `Find`, `Create`, `Elapse`, `Compare`, `Add` (read, draw, cap), `Store`,
`Stamp`, `Collect`.  `now` is read in `Begin`.  Time and amounts are whole numbers; a
call adds any amount between the two rates times the elapsed time.  `born`, `shown`
and `overlapped` are histories.  Claims that are equal have one identifier, so one
counter is visited twice in a call.

## 3. What the runs check

| Run | Question | Bounds | Result |
|---|---|---|---|
| `scan` | Does the loop compute the definition, and does it keep the promise? | all sorted logs of up to 5 complaints by 3 complainants up to renaming, K = 2, W = 2, gaps of up to W + 1 minutes | holds |
| `agg_order` | Do the dedup rule and the scorer cope with complaints in any order? | 4 complaints, 3 interchangeable complainants, 5 timestamps, dedup window = scorer window | holds |
| `agg_reset` | What can a reset do to a request that is being served, and is the answer of `GET /scores` one that was true? | one reset, one reader, 3 SLAs (one visits an AS twice, which validation refuses), a claim, 2 complaints, a ticker of one line | holds |
| `ua_store` | Is the file always an earlier state of the portfolio, and does it follow the agent in the end? | a worker, the tick and the main thread, a claim, an edit, a fault, two starts | holds |
| `sim` | What does a reset leave, what do the agents hold, what does a repair restore, what can end the loop? | the live loop and a request thread, 2 ticks, 2 requests, 3 SLAs besides one of another process, 2 agents, a failing call | holds |
| `routes` | Which schemes are offered with which guarantees, can an offer be put, what does the agent choose? | 2 paths of 3 and 4 hops, 7 SLAs, 2 claim ids on 4 of them, 3 claims held, `MAX_SCHEMES` = 3, 3 policies, 2 score tables | holds |
| `walk` | How far may the consumption go when polls overlap? | 2 threads, a claim of 9 units held up to twice, 3 units of time, rates 1 to 2 | holds |
| `ua_durable` | Is an answered mutation in the file (`user_agent/app.py:12`)? | one worker and the tick, one claim | violated |
| `ua_routing` | Are the claims that a route applies in the portfolio (`user_agent/app.py:159`)? | one worker and the tick, a claim, an edit, two starts | violated |
| `sim_ticks` | Does the live loop go on as long as no call fails (`simulator/main.py:223`)? | as `sim`, one request, a reset or a bargain, one tick, no failing call | violated |
| `sim_fix` | Does `fix_as` restore every live SLA (`simulator/scenarios.py:178`)? | as `sim`, three requests, one tick, no reset | violated |
| `routes_unknown` | Is a bound unknown when one SLA does not promise it (`src/WALKTHROUGH.md:202`)? | as `routes`, one claim | violated |

Why the bounds are enough.  A scan's state depends on the window and the cohort;
with K = 2 and W = 2, five complaints are enough for an event, a cohort kept alive,
its end, and a second event, and a longer gap than W + 1 empties the window just the
same.  For the aggregator four complaints with five timestamps give an event taken
back, an event added, and both sides of the dedup boundary.  In `agg_reset`, the
event loop serves one request at a time and a second reset finds what the first one
left.  In `sim`, two ticks and two requests let an agent claim again, a reset come at
every point of a tick and of a publication, and a repair follow a degradation while
the tick publishes; a third SLA is what the tick, the reset or the bargain adds.  A
second request thread is left out: two requests at once count as a `clash`, which
the properties exempt.  In `routes`, the SLAs overlap, leave a hop uncovered, cover
a path exactly, miss each kind of bound, tie, and differ in one interface only; three
claims give more schemes than the cap, and one claim may be held twice.  The real cap
is 32; what it cuts off depends on the order of the enumeration only, which the run
checks.  In `walk`, nine units are more than two calls add in one unit of time and few
enough to be used up in three.  The factor `Repeats` of `BoundedPace` is exact there: two
threads count one unit of time three times for a claim that is held once, and four times
for one that is held twice (three threads, on a smaller instance: six times).  The visits
of one claim touch no other, so one claim is enough.  The proofs below lift the bounds where they matter most.

Deadlock is checked in `routes` and `walk`, where a request may always come.  The other
runs say `CHECK_DEADLOCK FALSE`: a scan ends, and the servers' clients may stop asking
(the bounded counters make them).

Symmetry is used in `agg_order`, over complainants, and in `walk`, over workers, which
no constant and no property tells apart; there is no liveness property in these runs.

### Fairness

`ua_store` checks `FinallySaved`: once nothing changes, the file equals what the
agent acts on for as long as the process runs.  It assumes weak fairness of each
thread's step of `_persist`, of each worker's step of its request and of
`StartTick`.  Threads are scheduled by the interpreter, every call has a timeout of
five seconds, and `_run_tick_loop` comes back after each interval whatever the last
tick raised (`user_agent/main.py:139-144`).  Nothing is assumed of requests, signals,
starts and crashes, and a save or call may fail as often as `MaxFaults` allows.

### What the properties leave out

Several properties that hold do so of undisturbed runs, and say so in their definitions:
`ReferencesHold` of records that no reset came across; `LoopSurvivesScenarios`,
`CleanReset` and `PortfolioIsStored` of runs without a `clash` and without a failed call;
`FixRestoresTemplates` of runs without a `clash`; `InPace` and `NeverBack` of polls that do
not overlap.  What
happens in the other runs is the matter of other properties: `AtMostOneSurvivor`,
`TicksOn`, `AnsweredIsSaved` and `BoundedPace`.  `PROJECT.json` lists a hazard under the
properties that would catch it, and says where there is none.

### Disagreements

* An answered claim can disappear from the file again (`ua_durable`): the tick read
  the state before the claim and replaced the file after it.  The tick repairs it
  later (`FinallySaved`), unless the process crashes first.
* A torn save leaves a routing decision over a claim that the restarted agent does
  not hold (`ua_routing`).
* `fix_as` does not restore what `cloud_bargain` published (`sim_fix`): it looks for
  the configured template that the SLA was made from, and there is none.
* A reset that clears the quality models, or a `cloud_bargain` that has registered the
  model and not yet the bounds, makes a tick that is at that SLA raise a `KeyError`,
  which ends the live loop and with it the process (`sim_ticks`).  `LoopSurvivesScenarios`
  says that nothing else does, but for calls that fail.
* A hop about which an SLA promises nothing counts as perfect (`routes_unknown`):
  `_aggregate_for_scheme` adds nothing for it, and `compose_bounds`, which says
  unknown, is not called by the planner.  Where all bounds are there the two agree
  (`AggregatesCompose`).

Others that no run states:

* The next event may be the word of the complainants of the last one: the code asks
  that *one window* be free of all members of the cohort (`NothingMissed`), not for "a
  fresh set" (`scorer/scorer.py:11`, `src/WALKTHROUGH.md:165`).
* A claim that the aggregator refuses is kept and saved all the same, since the client
  never looks at the status of a POST (`client.py:92`, `agent/agent.py:186`), where
  `src/WALKTHROUGH.md:261` says "atomic-persist on success".
* One call that fails during a tick ends the simulator, of which
  `simulator/main.py:223` says "Tick until SIGTERM / Ctrl-C"; the user agent's loop
  comes back after the same failure.
* Overlapping polls count elapsed time again: once for each thread, and once more for
  each two of them and each time that the claim is held (`BoundedPace`), which makes four
  times with two threads and two equal claims; and what is shown of a claim may go back.  The docstring at
  `user_agent/consumed_walk.py:44` ("so short polls don't over-advance") holds of calls
  that do not overlap (`InPace`, `NeverBack`).
* `MAX_SCHEMES` keeps the schemes that leave out the earlier placements: with many
  claims the cover of the whole path may be what is cut off, where
  `src/WALKTHROUGH.md:270` speaks of "all non-overlapping placements".
* `choose_route` maps hops to an SLA's identifier, where `_validate_routing` wants a
  claim's.
* The first cosigner of an SLA may claim it (`aggregator/validation.py:321`,
  `Validation!SelfDealing`), which `schemas.py:109` rules out.
* The comment at `scorer/scorer.py:123` speaks of the triggering cohort ageing out,
  where the code asks that its members have stopped complaining.

## 4. What is proved

All proofs are checked by TLAPS; they hold for every value of the constants that
satisfies the named assumptions.

**`Foundations`** holds what the proofs of several modules need.  Induction over the
natural numbers is obtained from least elements (`LeastOf`, `Induction`): a statement
is put as a set of numbers, since no prover here takes a predicate as a parameter.
`InPlaces`, `InOrderLists` and `FirstInOrder` are about a finite set in an order: there
is one sequence that lists it, and a sequence that goes up and is ahead of all that it
leaves out is the beginning of that one.  `FoldsExist` and `SumsExist` say that the
library's folds over a finite set have a value; the members of a sum may be taken out
in any order (`SumsTake`), and those of weight zero may be left out (`SumsLeaveOut`).
`Exchange` counts: two sets do not shrink together if what the first loses maps one to
one to what the second gains.  `PairsCounted`: a set of n members has n(n - 1)/2 pairs.

**`ScorerProofs`**.  `Fires` is a recursive function, so that it has a value at all has
to be shown: `SolutionExists` finds what fires of the first n positions for every n, and
`FiresEquation` says that the function is the equation it is defined by.  `FiresSoFar`
says that a complaint at the end of a log changes nothing of what fires before it.

**`ScorerScanProofs`** (assumptions: K is an integer, W a natural number, the logs
are sorted).  The inductive invariant is `ScanInv`.  `DisjointEvidence` is not
inductive alone: that a new event is more than W after the last one follows from
`NoneMeansAged` (once there is no cohort every event is older than W), which in turn
needs `CohortPersists` (while there is one, it is the window of the last event and
has had a complaint in every window since) and `WindowIsTight` (the index separates
the complaints older than W).  `FiresInv` compares the loop with the definition: the
definition looks back at every position that fired, the loop remembers the last one
only, and only while there is a cohort; that is enough because the cohorts of all the
others have been silent since (`OthersFellSilent`).  Results: `ScanInvariant`,
`ScanCorroborated`, `ScanDisjointEvidence`, `ScanNothingMissed`, `ScanKeepsPromise`
(the scan implements `Episodes`) and `ScanComputesFires`.

**`AggregatorProofs`** (assumptions: `AggregatorAssumption` on the market, the
submissions and the penalties, which are natural numbers at the ages that occur).

* `AggregatorInv` is `TypeOK`, `DedupApart` and `PendingApart`: from the check to the
  append the pending complaint stays apart from the stored ones, because nobody else
  appends and a reset only removes.  Results: `AggregatorInvariant`,
  `AggregatorTypes`, `DedupHolds`.
* The order of a scan.  `Sorting`: a stable sort lists each chosen position once, at
  its place in the order.  Hence `OneVoiceHolds`.  With `SameOrder` (logs that agree
  are sorted alike) and `LatestComesLast`, an accepted complaint leaves all logs but
  one as they are and comes last in that one if it was observed last; `FiresSoFar`
  then gives `InOrderHolds`.
* `ReaderInv` is about a `GET /scores` while no reset comes across it: the dict it
  walks has only grown, so that an iterator that finds the same size has found the
  same dict (`SameDict`); what it has collected are the events of the SLAs seen; and
  one of the call's moments held the copy with all the SLAs it speaks of.  An SLA that
  was stored later has no complaint in the copy (`NoComplaintsNoEvents`).  Results:
  `ReaderInvariant`, `ScoresHold`.
* `ListedInv`: an SLA that is stored, or about to be, has passed validation, which
  counts its signers against the set of its cosigners, so that none is listed twice;
  and events are dated as submissions were.  The events are finitely many
  (`EventFacts`), and the two totals are sums over them in which the events of others
  weigh nothing.  Results: `ListedInvariant`, `EndpointsHold`.

* `RefersInv` is `ReferencesHold` with what it takes to keep it: no record is dated
  after `wipes` (`NoneIsNewer`), so that the next step of a reset makes everything old at
  once and nothing has to be said about which field it clears; and unless that happened,
  what the request in hand refers to is where it was found (`PendingRefers`).
  `SurvivorInv` is about what a reset leaves behind: its survivors are the old records in
  the fields that it has already cleared, and the old request that may still be stored;
  there is at most one, because the event loop serves one request at a time, an append
  only moves the request to where it is stored, and what is validated later is dated
  later.  Results: `RefersInvariant`, `ReferencesAlwaysHold`, `AtMostOneSurvives`.

**`UserAgentProofs`** (assumptions: the tick and the main thread are not workers, the
default policy is a policy).  `UserAgentInv` is `TypeOK` and `CopiesArePrefixes`: what
a thread has copied is what a save will write, so nothing about the file is inductive
without it.  A step that moves one thread is handled once (`GotoKeeps`), from facts
about the portfolio before and after it.  Results: `UserAgentTypes`, `CopiesHold`, and
`FileLags`: the process implements `LaggingLog`, so that a crash takes back the latest
claims only, whatever the threads do to each other's saves.

**`ConsumedWalkProofs`** (assumption: `WalkAssumption`; any number of threads, any
claims and rates).  `CapInv` adds to `Capped` what a thread holds in its local
variables: between `Add` and `Store` the amount is within the purchase, and every write
of `consumed_gb` is such an amount, so that no interleaving breaks the cap.  `PaceInv`
is about calls that have not overlapped: each state in use keeps to the rates up to its
stamp, except the one that the call has stored to and not yet stamped, which keeps to
them up to the call's own time (`InStep`); the stamps never pass the clock nor the
call's time (`Timely`), which is why the second visit of an equal claim adds nothing.
That what is shown never goes back (`NeverBack`) needs `ShownInv` beside them: while
calls do not overlap no claim is shown beyond its state, a state is made only where
there is none, and the amount about to be stored is not below the one it replaces.

`RepeatInv` is about calls that do overlap, any number of them on any finite
number of threads.  A state is charged for units of
time, and the charge is kept as two sets.  `Once` has the unit and the thread when, as things
are, that thread will not count that unit any more: it is in no call that began before the
unit (such a call may set a stamp back), and the stamp that it would start from is past
the unit or has been read.  `Again` has the unit, a pair of threads and a place in the
portfolio that the pair is done with: neither has still to stamp it in a call that began
before the unit.  `Tallied` says that
what is consumed, and what is about to be stored, is at most `MaxRate` times their joint
size (`Tally`).  Where an amount is added, `Once` gains as many units as were added
(`AddCounts`).  The hard step is the stamp: one that comes from an earlier call sets the
time back and takes units out of `Once`, so `Once` alone is not inductive.  But each unit
and thread that it takes out is matched by a new member of `Again`, the pair of that
thread and the stamping one at the place just stamped, and this matching is one to one
(`StampRepays`, by `Exchange`).  Since a pair is done with a place for a unit only once,
`Again` never shrinks.  A state that is replaced needs `Owned`: nobody works on a state
that its maker is about to make anew.  The sets are within the units that are over times
the threads, or times the pairs and the places (`TallyBounded`), which gives `Repeats`.

Results: `CapInvariant`, `WalkTypes`, `CapHolds`, `PaceInvariant`, `PaceHolds`,
`NeverGoesBack`, `RepeatInvariant`, `BoundedPaceHolds`.

**`SimulatorProofs`** (assumption: `SimulatorAssumption`; any number of agents,
templates, worker threads and requests; the agents are the keys of a dict, so no two
are equal).  `TypeInv` adds to `TypeOK` that a thread has what its next step takes.
What stands on it:

* `SurvivalInv`.  As long as no thread disturbed another, an SLA without bounds has no
  quality model, unless some thread is between writing its model and its bounds, and no
  SLA is live without bounds, unless a reset is between clearing the bounds and the
  list (`Undisturbed`); `fix_as` writes models without looking at the bounds, so what
  is left of its copy of the live SLAs has to have them (`Sound`); which steps belong
  to which scenario (`DutyInv`) says that the threads in between are those that
  `Disturbs` names.  Hence the tick finds both: `LoopSurvives`.
* `OnceInv`.  Nobody holds two claims on an SLA, because only the loop appends and what
  it appends was not there (a reset that clears the portfolio meanwhile only helps);
  and the tick comes back to no agent and to no claim that it complained for
  (`Onward`).  It holds of disturbed and failing runs as well: `ComplainsOnce`.

On `SurvivalInv` stand three more, one per promise of the scenarios.  They share the
lemmas of "Whose step it is": a step is a thread's own (`StepOf`), it leaves the other
threads where they are (`OthersStay`), and while a request is undisturbed no other
request takes a step (`NoOtherWorker`).

* `ResetInv` says after each step of a reset what it has cleared and published so far
  (`Rebuilt`): the aggregator, the portfolios, the four collections, then the seeds one
  by one, each stored, then modelled, then bounded, then live.  Hence `ResetsAreClean`.
* `HeldInv` says, as long as nothing clashed, no call failed and no reset is running
  (`Calm`), that what is held is stored and claimed and that what the loop is about to claim or append is
  stored.  Hence `HeldIsStored`.
* `FixInv` is about a repair: of the SLAs it was asked for, all that are not ahead of it
  (`Ahead`) are nominal (`Mended`), and at the end none is ahead; a tick that publishes beside it
  must not overwrite what was mended, which is what `NonceInv` is for: an identifier
  that is drawn is new, so that what is being published is in nobody's scope.  Hence
  `FixRestoresConfigured`.

Results: `SimulatorTypes`, `LoopSurvives`, `ComplainsOnce`, `ResetsAreClean`,
`HeldIsStored`, `FixRestoresConfigured`.

**`RoutingProofs`** (assumptions: `PolicyAssumption` and `RoutingAssumption`, which are
about the values of the constants, and `PathDiscoveryAssumption`, what a path is; any
topology, market, portfolio, policies, scores and `MAX_SCHEMES`).  `CallInv` says of
each stage which fields a call has and what they range over.

* Policy.  `ComplaintsAreViolations`: whatever a policy asks an agent to complain of is
  a violation for the scorer as well, since each multiplier is at least one and bounds
  are not negative.  `StricterComplainsMore`: the sensitivities are ordered.
* The choice.  `ChooseBestIs`: `choose_best_sla` gives the first of the best acceptable
  SLAs of one path.  `ChoiceInv` says that of the paths compared so far, and one more
  path keeps it (`OneMorePath`): a later path wins by a greater utility only, so that of
  equals the first path's stays.  Hence `ChoiceHolds`.
* Reading.  The parser of the form with an entry per interface is a recursion that goes
  one or two entries ahead.  `HopsParsed` follows it from the end of what is printed to
  the beginning: from the first entry of each AS on, it reads the rest of the path.  It
  rests on neighbours being different ASes.  `PathsRead` puts both forms together, and
  `PathsHold` follows.
* Placements.  `PlacementsAre`: they are a list, each member of which is of a claim that
  is held and resolved and whose cosigners stand at its hops.  Sorting gives a list
  because no two placements are equal in the order, for which claims of one identifier
  have to be one claim.
* Enumeration.  That the recursion has a value is `EnumerationExists`.  `Adds` says
  what a call of it does: it leaves what was found as it is and appends, in order, schemes
  that contain what has been chosen, until there are none or the cap is reached; every
  such scheme that is not among them comes later, and then the cap has been reached.
  `EnumerationAdds` shows it from the last placement to the first, since skipping a
  placement gives the schemes without it and these come before those with it
  (`AddsMore`).  With `SoonerOrders` and `FirstInOrder` the result is the beginning of
  the sorted list of all schemes: `EnumerationIsPrefix`.
* Offers.  The hops that are counted are those that are covered, because placements of
  a scheme share none (`CoveredHopsAre`); so the count is the length of the path just
  when nothing is left uncovered, and then the cosigners of the scheme's SLAs are the
  ASes of the path (`ReputationIs`).  `AggregateIs` compares the two programs for bounds.
* `OfferInv` holds between the stages of a call while claims are bought and the
  aggregator is reset: what was resolved is stored or was lost, every candidate is made of
  claims that are still held (nobody removes one), and a route that is being put passes
  the remaining checks but for what was lost.

Results: `CallInvariant`, `ChoiceHolds`, `OfferInvariant`, `RoutingTypes`, `PathsHold`,
`RefusalsHold`, `OffersHold`, `AggregatesHold`, `ReputationHolds`,
`ComplaintsAreViolations`, `StricterComplainsMore`.

Only model-checked: `FinallySaved` (liveness under fairness, which is outside what the
installed provers can do, as is ENABLED), and the five properties that are expected to
fail, for which the runs give the behaviours that break them.  Every other property of a
passing run, `BoundedPace` included, is a theorem.  That the factor of `BoundedPace` is
reached is what TLC found, on the instances named in section 3.

## 5. What is not modelled, and why

* Parsing, canonical JSON, Ed25519: pure functions.  Hashes are taken as injective,
  except that claims equal in all fields are one claim (`claimed_at` is in seconds).
* `list(...)` over a field that a reset clears at the same time is atomic, as it is
  under the interpreter's lock.
* The read-only queries other than `GET /scores`; the UI; scripts; running the command
  of path discovery.  That it raises (no such command, a malformed token) is in
  `Routing!CallFails`, where it leaves nothing to be seen: the request is answered 500
  before it has asked for anything.
* Naive timestamps in stored complaints, which make every later score query for
  their SLA fail.
* A signal in the moments between `user_agent/main.py:285` and the server's start, which
  runs `_on_term` without ending the process: the tick never comes back.
* The ways in which a state file can be wrong: it is `Unreadable` (a fresh start) or
  `Misshapen` (no start).
* In the routing calls: a second worker serving one at the same time, since the calls
  share nothing but the portfolio and the aggregator; the format of the answers.
* The random walk of the quality model: the simulator's model takes any sample.
* In the simulator: the numbers of the samples, expiry of SLAs (24 hours), refusals of
  a published SLA, and record mode.

## 6. Plan

1. `Market`: `UserAgent` with `Aggregator` in place of its external answer.
2. The market summary and the list queries, as walks beside the event loop.

The most important behaviour comes first: what the market says of an AS (scorer,
aggregator), then what its user keeps (user agent), then what drives the demo.
