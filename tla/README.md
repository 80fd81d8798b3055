# A verification development of TraitTutor's durable work

TraitTutor is a tutoring service: a FastAPI process (or several), a daemon
that carries out research, and a web client, over SQLite files. Nearly
everything in it that is hard to get right concerns *durable work*: something is
recorded, somebody claims it, works on it outside the database, and reports
back, while processes die, leases lapse, clocks are read early, users cancel,
and the same request arrives twice. Around it, conversation turns are streamed to
clients that come and go, and model calls are rotated over providers that fail. The
TLA+ modules here model five such mechanisms, check them with TLC and prove theorems
about each of them with TLAPS. Paths
below are relative to `src/`; `PROJECT.json` maps every definition that models
code to its lines.

Run a check with `tlc -config <file>.cfg <MC module>.tla`, a proof with
`tlapm <module>.tla`.

## 1. The system

| Component | State it keeps | Operations | Hard behaviour | What makes it correct |
|---|---|---|---|---|
| **Research runs** `traittutor/research_workspace/{store,state_machine,worker,runtime,scheduler}.py`, `scripts/run_research_worker.py` | append-only run records with `revision`, `lease_revision`, `fencing_epoch`, claim and lease; task receipts; idempotency ledger | create, transition, claim, renew, finalize a requested pause or cancel, commit a result, record a failure, recover | workers on threads and in a daemon share runs; crashes, lost acknowledgements, stale clocks, duplicated and late control requests | one worker per fencing epoch; one receipt per attempt; status and receipts agree; terminal is terminal |
| **Generation queue** `traittutor/generate/tasks.py` | the table of tasks with status, lease owner, lease and cancel flag; per process the asyncio runners and cached task objects | create, schedule (claim), run, renew, finalize, cancel, retry, confirm and discard a review, interrupt at start-up | several API processes on one table; requests served on the loop of a process and in threads beside it; runners cancelled before their first turn; operations of several transactions; limits counted from leases | one runner per generation; shares and pool kept; a cancel prevails; what is completed is in the library (for which of the generations, see below) |
| **Answer event chain** `traittutor/learning/event_chain.py`, `traittutor/learning_model/events.py`, `traittutor/api/routers/learning_governance.py` | ledger of answers, amendments, queue of derived operations with claim tokens | append, void, claim, renew, mark applied or failed, project, compensate, retract | projection writes another store in several steps; voids land in between; leases lapse under living workers | completed evidence is whole; voided evidence goes and stays gone; each operation completes once |
| **Learner model** `traittutor/learning_model`, `traittutor/personalization` | signals; profiles rebuilt from them; BKT estimates | record, delete, rebuild | append and profile write are separate; locks are per process | the model is a function of the effective evidence |
| **Research evidence and courseware** `research_workspace/{service,courseware,provenance}.py` | sources, notes, briefs, reports | invalidate a source, submit a report as a generation | revalidation while a generation runs or awaits review | no artifact from withdrawn evidence |
| **Learning plans** `traittutor/learning/{service,storage}.py`, `traittutor/capabilities/mastery` | one document per learning path | load, derive an answer into it, change, save | every writer saves its copy over whatever is there, with no comparison of versions | what is marked as derived is in the plan (it is not; see below) |
| **Gateway routes** `traittutor/gateway/{quota_rotation,route_health,routing,service}.py`, `traittutor/services/llm/provider_core/base.py` | per route a circuit (failures, open until), shared by all processes; per call a loop | complete, stream, record success or failure; below them, one more request without images | overlapping attempts; stalls; errors in the middle of a stream; two layers that both make a request again; store errors | no request made twice as it was, and none after output but that fallback; failing routes rest; every call ends |
| **Turn runtime** `traittutor/services/session/{turn_runtime,sqlite_store}.py`, `traittutor/api/routers/unified_ws.py` | turn rows, events, messages; per process the executions, their buffered events and subscribers | start, subscribe, reply, cancel, disconnect; the run itself | joining a live stream; orphans of a dead process; cancellation at any await | streams without gaps; a completed turn is persisted; rows get settled; subscribers get an end |
| **Tutor reminders** `traittutor/tutor_persona` | reminder outbox | schedule, lease, deliver | duplicates after a crash | at-most-one visible delivery |
| **Telemetry** `traittutor/telemetry` | spooled batches | append, ship, retry | partial shipping | nothing lost below the bound |
| Conversation and memory stores, orchestration, unified storage, event bus, users and tools, knowledge and agents, content generation, web | | | | not modelled; reasons in `PROJECT.json` |

How they interact. The API process starts the generation queue in its lifespan
(`api/main.py`) and background research threads; the daemon is a further worker
on the research store. A completed report enters the generation queue through the
courseware endpoint. Routers that grade an answer build a `CanonicalAnswerEventChain`
per request, which appends to the ledger, derives the learning plan by callback
and projects evidence to the personalization store, on the request's thread or as
a task on its loop. Voiding an answer goes through the same ledger. The tools of the tutor,
called by the agent in the course of a turn, change the learning plan and build the same chain. Turns, generations and
research all call models through the gateway, for which a call is a loop over routes; what
they see of it is an answer, an error or a timeout. The components
share no memory beyond that; what they share is SQLite, whose `BEGIN IMMEDIATE`
transactions are the atomic steps of the models.

## 2. Modules

| Module | Role |
|---|---|
| `ResearchRuns` | the run store, its workers, users and the clock |
| `ResearchRunsInvariant` | the inductive invariant |
| `ResearchRunsProofs` | theorems of safety |
| `FencedTask` | what a fenced, leased task store promises, abstractly |
| `ResearchRunsRefinement`, `ResearchRunsRefinementProofs` | the run store implements `FencedTask`; the proof |
| `GenerationQueue` | the generation table, the API processes and their runners |
| `GenerationQueueInvariant` | the strengthenings of its invariants |
| `GenerationQueueProofs`, `GenerationQueueRunnersProofs` | what each action does to rows, runners and sequences, and what is completed; theorems about runners, leases, limits and cancellations |
| `AnswerChain` | ledger, learning plan, projections, corrections, the store of signals |
| `AnswerChainRefinement`, `AnswerChainProofs` | each kind of derived operation is a `FencedTask`; the proof |
| `AnswerChainEvidenceProofs` | theorems about plans and evidence |
| `TurnRuntime`, `TurnRuntimeProofs` | connections, turns, subscriptions and what they leave in the store; theorems |
| `GatewayRoutes`, `GatewayRoutesProofs` | calls, routes and circuits; theorems |
| `MCResearchRuns`, `MCGenerationQueue`, `MCAnswerChain`, `MCTurnRuntime`, `MCGatewayRoutes` | instances for TLC: symmetry, definitions for constants |

### ResearchRuns

`run[r]` is the newest record as the store reads it back (by `revision`, then
`lease_revision`), `receipts[r]` the receipts in append order, `requests` the
control requests users have sent and `applied` those in the idempotency ledger:
a request once sent may be delivered at any time, any number of times.
`pc[w]`, `job[w]` follow `run_once`: observe, claim, execute (with the heartbeat
thread reading the run and renewing the lease), settle, commit or record a failure.
Each store operation is one action. A lease is the time left to it, negative once lapsed;
a clock read `d` ticks before the lock is taken sees `d` ticks more. `Tick` no
longer ages a lease that every reading finds lapsed, so time needs no bound.

Abstractions. `Crash(w)` stands for the death of the process and also for an
exception that ends `run_once` after a committed claim, or one in
`record_task_failure`: in both the worker is gone and the claim remains. The threads
of one API process share `worker_id`; the random claim token tells them apart, so a worker
in the model is a thread. `recover_claimable`'s snapshot is modelled one run
at a time, since nothing is held between two. `draft` is in the transition
tables, but no code path creates a draft. Briefs, sources, notes and report
contents are left out.

### GenerationQueue

`row[g]`, `lease[g]` are the table, `line` the order of `created_at`, `mem[i][g]` the
task object process `i` keeps in `_tasks`, `runner[i][g]` the asyncio task, `loop[i]` what the
event loop of a process is in the middle of, and `thread[i][k]` what the thread is that serves request `k` off the
loop. Operations of several transactions (`create`, `retry`, `confirm_review`, `discard_review`) are
actions per transaction; between two of them the loop does nothing else, while other processes and
the threads of this one go on. `ClaimNext` is the whole of `_schedule` around one `claim_next`; the sweep of
lapsed leases in the same transaction is part of it.

A generation has an id of its own (`create`), one derived from another resource (`Derived`, may be submitted
twice), or one derived from a research run (`Courseware`). The last are submitted by the one
endpoint that is a plain `def` and so runs in FastAPI's thread pool: there `create_idempotent` is four steps of a thread,
`ThreadLoads`, `ThreadPuts`, `ThreadKeeps` (the entry of `_tasks`) and `ClaimNextOffLoop`, or `ThreadLoads`,
`ThreadFinds` and `ClaimNextOffLoop` where the id exists, and nothing is scheduled where it is in memory
already. Between any two of them the loop, the other threads of the process and other processes act: the put of one thread may set
a row back to queued that the loop has claimed and is running since another thread put it, and its
object then takes the place of the one the runner works with (`known` becomes false).

Abstractions. `PoolLimit` is the lesser of the global and the per-model
limit, as every task has the same provider key. `Gone` is the
instance id of a process that died, which never comes back. `lease_until` NULL is a lease of 0. On the loop, a put
and the entry in `_tasks` after it are one step, and so are a claim and the entry after it, there and in a
thread. A second runner
of one generation inside one process is not followed, nor that a thread's claim writes the status of an object which the
loop has in hand; left out are a graceful shutdown and the revalidation of research
evidence in `_run`. The provider's answer is a choice between success,
success to be reviewed, and failure.

### AnswerChain

`row[e][op]` is what the ledger's queue knows of one of the three operations of an
answer: derive the learning plan (`learning`), project evidence (`bkt`), reconcile an
amendment (`reconcile`). `signals` holds one element per answer and component,
as the personalization store does. A worker is a thread or task: `pc[w]` walks through
`project_personalization` or `void_learner_event`, each ledger call and each access
to the store being a step. `progress` is the saved learning plan, `held[w]` the copy that
a tool of the tutor has loaded and not yet saved, `job[w].plan` the copy a derivation works on:
`StartDerived`, `ClaimLearning`, `LoadPlan` and `Derive` are `apply_derived` with its callback, `OpenTool` and
`CloseTool` the two ends of a mastery tool, which in between builds a `LearningService` and so
resumes the derivations that are pending. `delete_evidence` is two steps, reading and replacing, with the
mutation lock of the process in between. `ProjectionRaises` is any exception, and
also the cancellation by the heartbeat; it leads to the compensation.

Abstractions. A lease is live or lapsed. It may lapse at any moment, also under a living
worker, so the clock is not needed: a stale reading only delays a claim, and
a successful renewal keeps a lease live. Tokens are random in the code; here a token is
who drew it and how many were drawn before. Profiles are not followed. The plan is one
document, which exists and has the component of the answer; of what it holds, only the answers are
followed. The projections that a service load also resumes run as
workers of their own. Two history variables: `overtaken`, the answers whose projection was claimed away from
a worker that was still at it, and `planned`, the answers of every plan that was ever saved.

### TurnRuntime

`row[t]`, `stored[t]` and `answers[t]` are in SQLite: the row of a turn, its events, the assistant messages it
added. `log[t]`, `run[t]`, `replies[t]`, `conn[c]` and `view[c]` are the process's: the events an execution has
published, the point `_run_turn` has reached, its reply queue, the handler of a WebSocket connection, and the
generator of `subscribe_turn` it forwards from. All of it runs on one event loop, so an action is one store call
and what its caller does up to its next await; `Crash` takes all but the store. A view
is read in the order of the code: backlog (`ReadBacklog`), memory (`Attach`), a second backlog
(`CatchUp`), then the queue (`Receive`). `Interrupted` is a cancellation at any await of the run, `StoreFails` a store call
that raises in any of them, and each goes where the code's handlers go.

Abstractions. The events of an answer are outputs that are told apart by their number; session, title and
terminal events are kept as kinds. An abandoned store call is done by the time its caller goes on,
or never. Connections are one user's. Sessions and turns are not deleted while a turn runs.

### GatewayRoutes

`health[r]` is the entry of a route in the store of circuits, `call[c]` the loop of one call (the route it is at, whether it
is the second attempt there, its deadline, the time by which a first output is due), `sent[c]` and `spoke[c]`
the requests made for it and which of them had output passed on. A look at a circuit together with the sending is one action;
the outcome is another, any time later. `streak[r]` is a history variable: the failures recorded since
the last success. `complete` and `stream` share the loop and differ where the code does: the share of
the deadline of an attempt, what an exhausted call raises, and what a failing store does to a success.

An attempt is more than one request. The rotation switches off the retries of the provider (`max_retries` 0), but not
its fallback for images: where the messages of a call have images (`Pictured`) and the model of the route is not known
to take them (`Blind`), an error that does not look like it may pass makes `_call_with_retry` send the request again without
them, inside the attempt and with the callbacks of the same reader (`FallsBack`). It does not ask
whether any output was passed on already, looks at no circuit, and has the limits of the attempt.

Abstractions. Deadlines and circuits are on one clock. The providers' other ways to make a request again in another
form (another endpoint, without a response format or with other tool parameters) happen before there is any output and are
part of the request. A share is rounded up to a whole tick. Errors
are those that may pass (one more attempt on the route) and those that do not. Routes that share provider,
binding and model share a circuit in the code and are one `Route` here.

## 3. What is checked

State counts are of distinct states; every passing run is exhaustive.

| Run | States | Shows |
|---|---|---|
| `research_runs_safety` | 598,658 | `TypeOK`, `EpochsAreExclusive`, `RecordsCoherent`, `OneReceiptPerAttempt`, `StatusMatchesReceipts`, `AcceptedOnRequest`; `TerminalIsFinal`, `RequestsActOnWhatWasSeen`, `AppendsSupersede`, `OnlyTheHolderAnswers`; `ImplementsFencedTask` |
| `research_runs_liveness` | 53,027 | under `FairSpec`: `ControlsSettle`, `RunsAreAnswered`, `AttemptsAreReceipted` |
| `generation_one_instance` | 2,613,705 | `RequeuedAfterItsRunner`, `SharesAreKept`, `CompletedIsSaved` |
| `generation_two_instances` | 284,989 | `TypeOK`, `CompletedIsSaved`, `OneInstancePerGeneration`, `PoolIsKept`, `CancelPrevails` |
| `answer_chain_safety` | 877,088 | `TypeOK`, `EvidenceIsKept`, `AppliedWasPlanned`, `VoidedStaysOut`, `ImplementsFencedTask` |
| `turn_runtime` | 108,898 | `TypeOK`, `StreamsAreWhole`, `CompletedIsPersisted`, `WorkingTurnsRun`, `RunsSettleTheirRows`; under `FairSpec`: `EveryViewIsClosed`, `DisconnectStopsTheTurn` |
| `gateway_routes` | 482,697 | `TypeOK`, `RequestsAreNotReplayed`, `FailingRoutesRest`; under `FairSpec`: `CallsAreAnswered` |
| `generation_retries` | violation | `OneInstancePerGeneration` |
| `generation_courseware` | violation | `LeasesHaveRunners` |
| `generation_waiting` | violation | `QueuedIsClaimed` |
| `answer_chain_retraction` | violation | `VoidedIsRetracted` |
| `answer_chain_plan` | violation | `AppliedIsPlanned` |

**Bounds.** *Research runs, safety*: one run (runs share nothing but their workers, and
the theorems, the refinement among them, hold for any number), two workers that may both die, leases of two ticks read up to
one tick late and not kept by timely heartbeats, up to three epochs, five lease
revisions and two control requests. That is enough for a takeover of a takeover, a
renewal racing a takeover, a late result under each of two superseded epochs, and a pause
overtaken by a cancel. *Liveness* has a worker that dies and a daemon that does not, and timely
heartbeats. *Generations, one process*: three ids, one of them courseware, of
which two may be submitted (`MaxSubmitted`), any two: so that two compete for the one share of their user, on the loop or one
of each kind, and two threads (`Handoff`) submit the same courseware at once; one retry (`MaxRetries`) of a
generation submitted on the loop (`Retried`), leases that lapse with the first tick, late
heartbeats, and a process that may die at any point and return (`Mortal`), whereupon ids are submitted again that it has in its table and no longer in
memory. A store call that raises on the loop (`Faulty`) is in the other run, and in the theorems. *Two processes*: two generations
with one place in the pool, so that each claim competes, and one process that dies and returns or sees a store call raise. *Answers*: one answer of two components, so that a projection can be
half done, two workers in one process, of which one may have a tool open (`MaxTools`), and two claims per operation, where
one operation at a time may be claimed twice (`MaxTakeovers`): each of the three is taken over in some behaviour, not
two of them in the same one. The lock on the signals serialises workers of different answers,
whose evidence is disjoint. *Turns*: two connections, the second of which opens when the first is closing or
closed, two turns of one session, one streamed output, one reply and one fault, a crash or a store call that raises;
so that a client rejoins by starting over an orphan, and a fault hits any one write of a run. *Gateway*: a completion
and a stream over two routes in either order, a deadline of two ticks, a threshold of two and a
count that stops at three, so that circuits open, stay open over overlapping failures, and close; the stream has images, and
one of the routes is not known to take them. All calls begin at time 0, as `MaxClock` is their deadline. Every bound is a constant with a name of its own
(`MaxEpoch`, `MaxLeaseRevision`, `MaxRequests`, `Retried`, `MaxRetries`, `MaxSubmitted`, `Handoff`, `MaxClaims`, `MaxOutputs`, `MaxClock`, `MaxFaults`, ...) and guards only
the step it bounds. Deadlock is not checked, because the systems do come to
rest: all work done, or a bound reached.

**Fairness.** In `ResearchRuns`: time passes; the daemon polls for ever and a worker's thread
runs on; an executor ends, since model calls have deadlines; a busy database is not busy at every
retry of the same call, hence strong fairness where an error sends the worker back.
In `GenerationQueue`: time passes, a process boots, its loop takes its next step, a runner is
resumed. In `TurnRuntime`: a handler, a forwarding task and the run of a turn take their next step, as tasks of an
event loop do when what they await is done; waiting for a reply is not such a step. In `GatewayRoutes`: time passes and the
loop of a call goes on; that a provider ever answers is not assumed. Users, crashes and store errors are
never forced. `AnswerChain` is checked for safety only.

### Disagreements with the code's own statements

1. **`generation_retries`.** `tasks.py` says that two API instances cannot run the same
   generation concurrently. `retry` reads, overwrites the row and clears the cancel flag in three
   transactions; two retries served by two processes end with both running it.
2. **`generation_courseware`.** The courseware endpoint is a plain `def`, which is served in a worker thread;
   scheduling commits the claim and then creates an asyncio task without a loop, which raises.
   The row stays leased, and nobody runs it.
3. **`generation_waiting`.** Cancelling a runner before its first turn ends it without its handler, and so
   without the call to `_schedule` that moves the queue; a queued generation then waits for a request that
   may never come.
4. **`answer_chain_retraction`.** `event_chain.py` looks at the ledger once more before completion so that
   no read path keeps superseded evidence. A void between that look and the completion finds
   the projection not applied, deletes nothing, and completes; then the projection completes too.
5. **`answer_chain_plan`.** `storage.py` says that its lock makes compare-and-swap semantics hold, but `save`
   compares nothing. A mastery tool loads the plan and then builds the service, which resumes pending
   derivations: they save the plan with the answer and mark it applied. The tool then saves the copy it loaded
   before. The answer is out of the plan and will not be derived again. One thread is enough; what does hold is
   `AppliedWasPlanned`.

Further ones, seen while modelling and taken by the models, for which no run of their own is kept:

- ADR 0007 calls tasks idempotent by run, task and input hash; receipts are looked up by fencing epoch as
  well, so a run that is retried out of review commits a second accepted receipt for the same input.
  `AcceptedOnRequest` states what holds: one accepted receipt, and one more per retry its user asked for.
- A client that has seen the end of a failed turn and leaves while the failure is still being recorded
  cancels the handler, and the row stays running until the next start finds an orphan (`turn_runtime.py`:2227 says this
  cannot happen). `RunsSettleTheirRows` excepts exactly this.
- A client that leaves while a title is generated, after the end of the turn, cancels a turn recorded as completed:
  its row becomes cancelled and its answer is added to the session a second time.
- A reply that arrives before the model asks is queued and answers a later question.
- A connection that starts turns in two sessions cancels only the last of them when it closes.
- Two requests of the courseware endpoint for one report at the same time, in one process: both load nothing, and
  the put of the later one requeues the generation that the loop is already running since the earlier one. It can be claimed
  again, and between the put and the runner's own put its lease is not counted, so that its user's share can be
  exceeded. `tasks.py`:4 rests on leases to keep a generation from running twice, and `create_idempotent` says that it
  replays an identity (`tasks.py`:537). `RequeuedAfterItsRunner` and `SharesAreKept` are therefore stated for
  the generations submitted on the loop.
- A stream whose request fails after some output was passed on is begun again when its messages have images and the
  model is not known to take them, and the reader is sent the answer from its start behind what it has. `service.py`:836 says that after output
  "the request becomes non-replayable and the real error surfaces unchanged", and `quota_rotation.py`:169 that an
  attempt must issue exactly one provider request. `RequestsAreNotReplayed` states what holds: it happens once at
  most, in the same attempt, and the rotation adds nothing to it.
- `complete` gives a stalled primary route all of the time that remains; the fallback then finds the deadline passed
  and the call raises without the last error, which the docstring of the exhaustion promises.

## 4. What is proved

The theorems hold for any sets of runs, generations, events, turns, calls, workers and processes, any
lease parameters and any bounds, with every crash and fault of the models. Each development assumes the
`ConstantsAssumption` of its module. Beyond it, two theorems about evidence assume `OneHome`, and some about the
generation queue the hypotheses listed with them; each of these is a condition of the run that checks the property.

- `ResearchRunsProofs`: `TypeCorrect`, `TerminalFinality`, `Invariance` and from it `EpochExclusivity`,
  `ReceiptUniqueness`, `ReceiptAgreement`, `AcceptanceOnRequest`, `Coherence`, `AppendOrder`, `RequestFidelity`,
  `HolderDecides`;
- `ResearchRunsRefinementProofs`: `Refinement`, that `ResearchRuns` implements `FencedTask`;
- `AnswerChainProofs`: `TypeCorrect`, and `Refinement`, that each of the three operations of the
  ledger implements `FencedTask`;
- `AnswerChainEvidenceProofs`: `DerivedWasPlanned`, and with `OneHome` `EvidenceKept` and `VoidedIsGone`;
- `GenerationQueueProofs`: `Invariance`, `TypeCorrect`, `CompletionsAreSaved`, `TasksHold`;
- `GenerationQueueRunnersProofs`, see the table below;
- `TurnRuntimeProofs`: `Invariance`, `TypeCorrect`, `StreamsHold`, `CompletionsArePersisted`, `WorkIsLeftAlone`,
  `RunsSettle`;
- `GatewayRoutesProofs`: `Invariance`, `TypeCorrect`, `NoReplays`, `CircuitsHold`.

| Theorem | Assumes | Property |
|---|---|---|
| `OneRunnerEach`, `CancelPrevailsOnce`, `UntouchedFits`, `LeasesFinite` | nothing | one runner, cancellations, pool and shares, for each generation that was submitted once and not retried, whatever happens to the others |
| `RunnersHoldLeases`, `UntouchedPoolKept` | heartbeats on time | the runners of such generations have leases in force, and fit the pool |
| `OneInstanceWithoutRetries`, `CancelPrevailsWithoutRetries`, `SharesWithoutRetries` | no retries, no derived ids | `OneInstancePerGeneration`, `CancelPrevails`, `SharesAreKept` on any number of processes |
| `PoolWithoutRetries` | the same, heartbeats on time | `PoolIsKept` on any number of processes |
| `OneInstanceKnowsItsRunners`, `RequeuedOnceReleased`, `LeasesFitOneInstance`, `SharesOnOneInstance`, `CancelPrevailsOnOneInstance` | one process | `RequeuedAfterItsRunner`, `SharesAreKept`, and that a cancellation prevails, for the generations submitted on the loop, with retries, derived ids, late heartbeats, crashes and any number of threads that submit courseware |

**The argument for research runs.** None of the safety properties is inductive. That no two workers share an epoch
depends on the claimer getting an epoch nobody holds, which needs: a worker's epoch is never beyond the run's, and
at the run's present epoch the worker is the one the record names, or its attempt is receipted (`HolderFits`).
To keep *that* when a run is answered or requeued one needs to know that the present epoch has no
receipt before it runs, and only stale ones while it does (`ReceiptsFit`). A control request carries only a
revision; that it acts on the status its sender saw needs `RequestFits`: while the run is still at
that revision its status is unchanged, because every change of status raises the revision
(`StepAppends`, `AppendsOutrank`). That a task is not accepted twice behind its user's back is a count
(`AcceptanceFits`): the accepted receipts of a run are at most the control requests in the ledger that sent it back out of review
(`Reopened`), and one more where the run is answered; a run that is not answered must be reopened by a request that enters the
ledger before it can be answered again. The ledger is finite, so that the count means something. `InductiveInvariant` is the conjunction; TLC checked it
on the instance of `research_runs_safety` before it was proved. The refinement maps a record to a phase
(queued is waiting, running is held, an interrupted or paused run is waiting for a new turn, and so on), the fencing
epoch to the turn, and accepted or failed receipts to answers; each store operation is a step of one
task, everything else stutters.

**The argument for the ledger.** `QueueInvariant` says that a worker past its claim has a token
(so that comparing tokens means something, and an unclaimed row cannot be completed), that a row not yet queued
has drawn no token, that the two operations of an answer are queued together, and that the reconciliation
is queued no sooner than the void. `QueueSteps` then reduces every step to one of four: an append, an amendment, one
row claimed or settled, or nothing the queue can see; `OneEventMoves` maps each to a move of
one task (a claim of a lapsed row is `Replace`, a failure `Revoke`, a completion `Answer`), and
three short lemmas carry that to the three instances of `FencedTask`. `QueueInvariant` was checked with TLC on the
instance of `answer_chain_safety` before it was proved.

**The argument for plans and evidence.** That an applied derivation was planned needs that every copy of a plan in
anybody's hands was saved once, and that a worker about to complete a derivation has seen its answer in one
(`PlanInvariant`). For evidence, `EvidenceInvariant` says of every answer that was never claimed away from a living
worker: whoever projects it holds its claim (`ProjectionsAreHeld`), so there is only one such worker and no completed row beside it;
what that worker has written so far is there (`EvidenceIsWritten`); and a worker between reading and replacing the signals
still has in hand exactly what is stored but for the answer it deletes (`LockHolds`), so that a deletion touches no other
evidence. `LockHolds` is where `OneHome` is needed: the mutation lock belongs to a process, and with two, the
evidence one writes between the other's reading and replacing is lost.

**The argument for the generation queue.** A completed status can reach a row from many places: a runner, a confirmation, a cached
object of another process put back by a retry. `IInv` says that each of these values, wherever it is kept (row, sequence in
progress, runner), is completed only if its artifact is in the library, but for the confirmation that is about to save it; and that a process
that is down has no runners. Each action then only has to show where it takes its task from.

**The argument for runners, leases and limits.** What keeps two processes from running one generation is not the lease: it may
lapse under a living runner, and the row is then marked interrupted, but nothing claims an interrupted row. It is that a
generation enters the queue once, when it is created under a new id (`Creating` is exclusive and precedes the row), is claimed
once, and ends once; `RunOnce` says so for every generation that is `Untouched`, and `OneRunner` is inductive with `Tasks`, which says that
what a sequence of store calls is about to put fits the operation it belongs to. A retry, or a derived id that two
processes create at once, puts a row that another process may have claimed meanwhile; without the hypothesis the property is false, as
`generation_retries` shows, and with it every generation is `Untouched`.

One process is kept from it by its memory instead, and needs no hypothesis on retries:
`OneInstanceInvariant` says of every generation submitted on the loop (`OnLoop`) that a runner at work is known to its process
as running, with its row under its lease or
interrupted, that one being stopped has not been decided, and that no request in progress would put
a generation whose runner is at work. Creation, retry and review all look at that memory before they put, and
between the look and the put the loop does nothing else. A thread does not have the loop: nothing of this holds for what
threads submit, and the theorems do not say it. What they do need is that a thread leaves the rows, objects and
runners of the other generations alone but for the claim, which may take any that is queued (`ClaimNextOffLoop`).

The limits are counts of leases. A claim counts before it leases (`RowsFit` for the set of generations at issue), and what must be
shown is that nothing else raises the count: a runner's first put could bring a lapsed generation back to running, but then the
row has no holder any more, and the put does not restore one (`PersistsFit`). The pool of the provider is a count of runners, on all processes; it follows
from that of leases by an injection, runner to lease, when every runner has its lease in force. That needs
heartbeats on time, and is `RunnerLeased`. A finite number of leases at any time (`LeasesFinite`) is an invariant of its own, since the set of
generations may be infinite. All these invariants were checked with TLC on the instances of `generation_one_instance` and
`generation_two_instances` before they were proved.

**The argument for turns.** `TurnInv` relates, for each point a run can be at, the row, the recorded events (a prefix of those in
memory, none before the flush begins, all of them at `completing`) and the answer. `ViewInv` says that what a subscriber was sent is `1..n`,
that its queue goes on from there, and that a live subscriber of a live turn has in both together all that was published; `ConnInv` that
whoever is about to settle a row has seen it running without a run, which can only stay so. The
streams, the persistence and the ownership of rows are read off these.

**The argument for the gateway.** `Underway` splits the requests of a call into those of attempts that are over (`Past`), at
routes the loop is done with or at the present one before its retry, none of which had output passed on, and the one or two
of the attempt under way: the request it began with and, for a call with images on a route not known to take them, its fallback. A routing
has no repetition, so what the loop sends next is none of them. `RouteInv` says that the capped count is that of the recorded failures and that
from the threshold on the circuit is open until `Cooldown` after the last.

**Only model-checked.** Liveness (under fairness it is out of reach of the prover, as is `ENABLED`): `ControlsSettle`,
`RunsAreAnswered`, `AttemptsAreReceipted`, `EveryViewIsClosed`, `DisconnectStopsTheTurn`, `CallsAreAnswered`. Every invariant and every
action property of a passing run is the property of a theorem. The properties of the violation runs are
not theorems, being false of the code. No statement here needs induction over data, which the
installed backends cannot do, and no module uses recursive operators.

## 5. Plan

Done so far: research runs, the generation queue, the answer chain with the learning plan, gateway routes, the turn
runtime. What would come next, in this order:

1. `ResearchCourseware`: sources, reports and revalidation, composed with the generation queue; abstractly, no
   artifact from withdrawn evidence. Hazard to aim at: a review confirmed after its evidence was withdrawn.
2. `AnswerChain`: liveness of corrections under fairness; profiles.
3. `ReminderOutbox`: leases and delivery; again an instance of `FencedTask`.
4. Telemetry spool, if the code turns out to carry state worth it.

## 6. Not modelled

What the user interface shows; prompts, retrieval and model output; the numbers of BKT and
scheduling (probabilities and floating point are out of TLC's reach); authorization; migration and backup of the
stores; the agent loop and its event bus, most of which is reused framework code; these are the bulk of the
repository's lines. Within the modelled components: profiles and preferences, the contents of a plan beyond its
answers, `retry_failed` and `replay` of the ledger, graceful shutdown of an API process, the
collections of the research store other than runs and receipts, attachments and regeneration of turns,
the stores of conversations and memories, and the receipts and capability checks of the gateway.
