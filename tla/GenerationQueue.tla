--------------------------- MODULE GenerationQueue ---------------------------
(***************************************************************************)
(* The shared queue of content generations: traittutor/generate/tasks.py.  *)
(*                                                                         *)
(* API instances share one SQLite table.  Every call of _TaskStore is one  *)
(* transaction, and one action here with the code up to the next one.      *)
(* Each instance runs its requests and its runners on one asyncio loop:    *)
(* code between two awaits is a sequence of transactions during which the  *)
(* loop does nothing else, while other instances go on, and the threads of *)
(* this one that serve requests off the loop.  loop[i] and thread[i][k]    *)
(* say where instance i is in such a sequence.  Task objects live in       *)
(* memory; mem[i] is GenerationTaskManager._tasks, and a runner holds on   *)
(* to the object it was started with.  That a thread's claim writes the    *)
(* status of an object that the loop has in hand is not followed.          *)
(*                                                                         *)
(* Leases are kept as the time they have left.  A process that restarts    *)
(* draws a new instance id: leases of dead processes are held by Gone.     *)
(* Requests carry no research provenance.                                  *)
(***************************************************************************)
EXTENDS Integers, Sequences, FiniteSets

CONSTANTS
    Generation,         \* generation ids
    Instance,           \* API processes
    Handoff,            \* bound: requests that an instance serves off its loop, each
                        \* in a thread of its own
    User,               \* owners of generations
    Derived,            \* ids derived from another resource: may be submitted twice
    Courseware,         \* those derived from a research run: submitted off the loop
    None,               \* lease_owner is NULL
    Gone,               \* the instance id of a process that is no more
    Mortal,             \* instances that may die
    Faulty,             \* instances whose store calls may raise on the loop
    PoolLimit,          \* the lesser of max_concurrent and max_concurrent_per_model:
                        \* every task has the same provider key
    PerUser,            \* max_concurrent_per_user
    LeaseTicks,         \* _LEASE_SECONDS
    Lag,                \* how old a clock reading may be inside the lock
    HeartbeatsOnTime,   \* time does not outrun the heartbeat of a living runner
    Retried,            \* bound: generations that users retry
    MaxRetries,         \* bound: retries of one generation; then none is retried
    MaxSubmitted        \* bound: generations submitted, of those there are

ASSUME ConstantsAssumption ==
    /\ None \notin Instance /\ Gone \notin Instance /\ None # Gone
    /\ None \notin User /\ None \notin Generation
    /\ Mortal \subseteq Instance /\ Faulty \subseteq Instance
    /\ Derived \subseteq Generation
    /\ Courseware \subseteq Derived
    /\ PoolLimit \in Nat \ {0} /\ PerUser \in Nat \ {0}
    /\ LeaseTicks \in Nat /\ Lag \in 0..LeaseTicks
    /\ HeartbeatsOnTime \in BOOLEAN /\ Retried \subseteq Generation
    /\ MaxRetries \in Nat /\ MaxSubmitted \in Nat

VARIABLES
    row,        \* row[g]: the columns and the payload of generation g
    lease,      \* lease[g]: the time left until lease_until
    line,       \* the generations in the order of created_at
    library,    \* generations whose artifact is in their owner's saved library
    loop,       \* loop[i]: what the event loop of instance i is in the middle of
    thread,     \* thread[i][k]: the same, for the thread that serves request k
    runner,     \* runner[i][g]: the asyncio task of i that runs g
    mem,        \* mem[i][g]: the task object i keeps for g
    retries     \* retries[g]: how many retries of g users have asked for

vars == <<row, lease, line, library, loop, thread, runner, mem, retries>>

-----------------------------------------------------------------------------
Status == {"absent", "queued", "running", "needs_review", "completed", "failed",
           "cancelled", "interrupted", "discarded"}

Terminal == Status \ {"absent", "queued", "running"}

\* A task object.  flag: cancel_requested.  code: the failure is one that a
\* retry cannot cure.
Task == [status : Status, flag : BOOLEAN, result : {"none", "draft", "final"},
         code : {"none", "configuration"}]

NoTask == [status |-> "absent", flag |-> FALSE, result |-> "none", code |-> "none"]

Retryable(t) ==
    \/ t.status \in {"interrupted", "needs_review"}
    \/ t.status = "failed" /\ t.code # "configuration"

Row == [task : Task, owner : User \cup {None}, holder : Instance \cup {None, Gone}]

Absent == [task |-> NoTask, owner |-> None, holder |-> None]

\* known: the object in _tasks has this asyncio task as its runner.
Runner == [at : {"none", "claimed", "waiting", "stopping"}, task : Task, known : BOOLEAN]

NoRunner == [at |-> "none", task |-> NoTask, known |-> FALSE]

\* What the loop is in the middle of; most sequences are about one task.
Doing == [op : {"down", "idle", "starting", "scheduling", "creating", "persisting",
                "saving", "finalizing", "requeueing", "clearing", "confirming",
                "releasing", "discarding"},
          gen : Generation \cup {None}, task : Task]

\* A thread has loaded an id and found a task or none, or has put one.
Serving == [op : {"idle", "scheduling", "found", "missing", "keeping", "served"},
            gen : Generation \cup {None}, task : Task]

At(op, g, t) == [op |-> op, gen |-> g, task |-> t]

Down == At("down", None, NoTask)
Idle == At("idle", None, NoTask)
Scheduling == At("scheduling", None, NoTask)
Served == At("served", None, NoTask)

Known(g) == row[g] # Absent

Is(g, status) == row[g].task.status = status

Alive(i, g) == runner[i][g] # NoRunner

Leased(rows) == {g \in Generation : rows[g].task.status = "running" /\ rows[g].holder # None}

OwnedBy(rows, G, u) == {g \in G : rows[g].owner = u}

\* The upsert of put: status and payload are overwritten, a cancellation
\* request is kept, the lease is left alone.
Stored(r, t) ==
    [r EXCEPT !.task = [t EXCEPT !.flag = t.flag \/ r.task.flag]]

\* The rows after the generations in S were interrupted.
Interrupted(S) ==
    [g \in Generation |->
        IF g \in S
        THEN [row[g] EXCEPT !.task.status = "interrupted", !.holder = None]
        ELSE row[g]]

\* Their leases are NULL, which is 0 here.
LeasesWithout(S) == [g \in Generation |-> IF g \in S THEN 0 ELSE lease[g]]

Remember(i, g, t) == mem' = [mem EXCEPT ![i][g] = t]

LoopTo(i, l) == loop' = [loop EXCEPT ![i] = l]

ThreadTo(i, k, l) == thread' = [thread EXCEPT ![i][k] = l]

-----------------------------------------------------------------------------
Init ==
    /\ row = [g \in Generation |-> Absent]
    /\ thread = [i \in Instance |-> [k \in Handoff |-> Idle]]
    /\ lease = [g \in Generation |-> 0]
    /\ line = <<>>
    /\ library = {}
    /\ loop = [i \in Instance |-> Down]
    /\ runner = [i \in Instance |-> [g \in Generation |-> NoRunner]]
    /\ mem = [i \in Instance |-> [g \in Generation |-> NoTask]]
    /\ retries = [g \in Generation |-> 0]

(* Processes. *)

Boot(i) ==
    /\ loop[i] = Down
    /\ LoopTo(i, At("starting", None, NoTask))
    /\ UNCHANGED <<row, lease, line, library, runner, mem, thread, retries>>

\* interrupt_expired_or_unleased, then _schedule.
Start(i) ==
    LET lost == {g \in Generation : /\ Is(g, "running")
                                    /\ row[g].holder = None \/ lease[g] < 0}
    IN  /\ loop[i].op = "starting"
        /\ row' = Interrupted(lost)
        /\ lease' = LeasesWithout(lost)
        /\ LoopTo(i, Scheduling)
        /\ UNCHANGED <<line, library, runner, mem, thread, retries>>

\* Variant: runners survive the process.
CrashLeavingRunners(i) ==
    /\ i \in Mortal
    /\ loop[i] # Down
    /\ LoopTo(i, Down)
    /\ UNCHANGED <<row, lease, line, library, thread, runner, mem, retries>>

Crash(i) ==
    /\ i \in Mortal
    /\ loop[i] # Down
    /\ LoopTo(i, Down)
    /\ thread' = [thread EXCEPT ![i] =
                    [k \in Handoff |-> IF thread[i][k] = Idle THEN Idle ELSE Served]]
    /\ runner' = [runner EXCEPT ![i] = [g \in Generation |-> NoRunner]]
    /\ mem' = [mem EXCEPT ![i] = [g \in Generation |-> NoTask]]
    /\ row' = [g \in Generation |->
                IF row[g].holder = i THEN [row[g] EXCEPT !.holder = Gone] ELSE row[g]]
    /\ UNCHANGED <<lease, line, library, retries>>

-----------------------------------------------------------------------------
(* _schedule: claim_next until it finds nothing, starting a runner for each. *)

\* Variant: an instance counts only the leases it holds itself.
FitsAtHome(i, rows, g) ==
    /\ Cardinality({h \in Leased(rows) : rows[h].holder = i}) < PoolLimit
    /\ Cardinality(OwnedBy(rows, Leased(rows), rows[g].owner)) < PerUser

\* Variant: the share of a user may be exceeded by one.
FitsBarely(i, rows, g) ==
    /\ Cardinality(Leased(rows)) < PoolLimit
    /\ Cardinality(OwnedBy(rows, Leased(rows), rows[g].owner)) <= PerUser

\* There is room for g in the pool and in its owner's share.
Fits(i, rows, g) ==
    /\ Cardinality(Leased(rows)) < PoolLimit
    /\ Cardinality(OwnedBy(rows, Leased(rows), rows[g].owner)) < PerUser

\* Leases that have lapsed to a clock reading d ticks old.
Lapsed(d) == {g \in Generation : /\ Is(g, "running")
                                 /\ row[g].holder # None
                                 /\ lease[g] + d < 0}

\* What claim_next finds: lapsed leases are interrupted first, then the oldest
\* queued generation there is room for is taken.
Swept(d) == Interrupted(Lapsed(d))

Ready(i, d) ==
    {n \in 1..Len(line) : /\ Swept(d)[line[n]].task.status = "queued"
                          /\ Fits(i, Swept(d), line[n])}

NothingToClaim(i, d) ==
    /\ Ready(i, d) = {}
    /\ row' = Swept(d)
    /\ lease' = LeasesWithout(Lapsed(d))

\* Variant: the lease is taken, the status is left for the runner to put.
ClaimsInPassing(i, d, g) ==
    LET t == IF mem[i][g] = NoTask THEN Swept(d)[g].task ELSE mem[i][g] IN
    /\ \E n \in Ready(i, d) : line[n] = g /\ \A k \in Ready(i, d) : n <= k
    /\ row' = [Swept(d) EXCEPT ![g].holder = i]
    /\ lease' = [LeasesWithout(Lapsed(d)) EXCEPT ![g] = LeaseTicks - d]
    /\ Remember(i, g, [t EXCEPT !.status = "running"])

\* g gets its lease; the object already in memory is preferred to the one read.
Claims(i, d, g) ==
    LET t == IF mem[i][g] = NoTask THEN Swept(d)[g].task ELSE mem[i][g] IN
    /\ \E n \in Ready(i, d) : line[n] = g /\ \A k \in Ready(i, d) : n <= k
    /\ row' = [Swept(d) EXCEPT ![g].task.status = "running", ![g].holder = i]
    /\ lease' = [LeasesWithout(Lapsed(d)) EXCEPT ![g] = LeaseTicks - d]
    /\ Remember(i, g, [t EXCEPT !.status = "running"])

\* Not followed: a second runner of a generation inside one instance.
ClaimNext(i, d) ==
    /\ loop[i] = Scheduling
    /\ \/ /\ NothingToClaim(i, d)
          /\ LoopTo(i, Idle)
          /\ UNCHANGED <<runner, mem>>
       \/ \E g \in Generation :
          /\ ~Alive(i, g)
          /\ Claims(i, d, g)
          /\ runner' = [runner EXCEPT ![i][g] =
                           [at |-> "claimed", task |-> mem'[i][g], known |-> TRUE]]
          /\ UNCHANGED loop
    /\ UNCHANGED <<line, library, thread, retries>>

\* Off the loop there is no loop to create the runner on: the claim is
\* committed, then asyncio.create_task raises and the request fails.
ClaimNextOffLoop(i, k, d) ==
    /\ thread[i][k] = Scheduling
    /\ \/ NothingToClaim(i, d) /\ UNCHANGED mem
       \/ \E g \in Generation : Claims(i, d, g)
    /\ ThreadTo(i, k, Served)
    /\ UNCHANGED <<line, library, loop, runner, retries>>

-----------------------------------------------------------------------------
(* _run. *)

\* The runner's turn on the loop comes: a request to cancel is obeyed at once.
RunBegins(i, g) ==
    LET t == runner[i][g].task IN
    /\ loop[i] = Idle
    /\ runner[i][g].at = "claimed"
    /\ LoopTo(i, IF row[g].task.flag
                 THEN At("finalizing", g, [t EXCEPT !.status = "cancelled"])
                 ELSE At("persisting", g, t))
    /\ UNCHANGED <<row, lease, line, library, runner, mem, thread, retries>>

\* The put before the provider call.
PersistRun(i) ==
    LET g == loop[i].gen IN
    /\ loop[i].op = "persisting"
    /\ row' = [row EXCEPT ![g] = Stored(row[g], loop[i].task)]
    /\ runner' = [runner EXCEPT ![i][g].at = "waiting"]
    /\ LoopTo(i, Idle)
    /\ UNCHANGED <<lease, line, library, mem, thread, retries>>

\* The provider answers; a request to cancel is looked for once more.  Only
\* output that needs no review goes to the library.
ProviderReturns(i, g) ==
    LET t == runner[i][g].task IN
    /\ loop[i] = Idle
    /\ runner[i][g].at = "waiting"
    /\ IF row[g].task.flag
       THEN LoopTo(i, At("finalizing", g, [t EXCEPT !.status = "cancelled"]))
       ELSE \/ LoopTo(i, At("finalizing", g,
                            [t EXCEPT !.status = "needs_review", !.result = "draft"]))
            \/ LoopTo(i, At("saving", g, t))
    /\ UNCHANGED <<row, lease, line, library, runner, mem, thread, retries>>

SaveGeneration(i) ==
    LET g == loop[i].gen IN
    /\ loop[i].op = "saving"
    /\ library' = library \cup {g}
    /\ LoopTo(i, At("finalizing", g,
                    [loop[i].task EXCEPT !.status = "completed", !.result = "final"]))
    /\ UNCHANGED <<row, lease, line, runner, mem, thread, retries>>

\* Every model is exhausted, or the prompts cannot be loaded.
ProviderFails(i, g) ==
    /\ loop[i] = Idle
    /\ runner[i][g].at = "waiting"
    /\ \E code \in {"none", "configuration"} :
          LoopTo(i, At("finalizing", g, [runner[i][g].task EXCEPT !.status = "failed",
                                                                  !.code = code]))
    /\ UNCHANGED <<row, lease, line, library, runner, mem, thread, retries>>

\* CancelledError reaches the handler of _run.
Stops(i, g) ==
    /\ loop[i] = Idle
    /\ runner[i][g].at = "stopping"
    /\ LoopTo(i, At("finalizing", g, [runner[i][g].task EXCEPT !.status = "cancelled"]))
    /\ UNCHANGED <<row, lease, line, library, runner, mem, thread, retries>>

\* Variant: a cancellation recorded meanwhile is overwritten.
OutcomeRegardless(g, t) == t

\* What finalize writes: a cancellation recorded meanwhile prevails over
\* success, and is forgotten by a failure.
Outcome(g, t) ==
    IF row[g].task.flag /\ t.status \notin {"cancelled", "failed"}
    THEN [t EXCEPT !.status = "cancelled", !.flag = TRUE]
    ELSE t

\* The finally clause of _run.  After a cancel of this instance, and where a thread
\* put a task of its own in its place, the runner's object is no longer the one the
\* manager keeps.
Finalize(i) ==
    LET g == loop[i].gen
        t == Outcome(g, loop[i].task)
    IN  /\ loop[i].op = "finalizing"
        /\ row' = [row EXCEPT ![g].task = t, ![g].holder = None]
        /\ lease' = LeasesWithout({g})
        /\ runner' = [runner EXCEPT ![i][g] = NoRunner]
        /\ IF runner[i][g].at = "stopping" \/ ~runner[i][g].known
           THEN UNCHANGED mem ELSE Remember(i, g, t)
        /\ LoopTo(i, Scheduling)
        /\ UNCHANGED <<line, library, thread, retries>>

\* The heartbeat: only the lease_owner of a running row, expired or not.
Renew(i, g) ==
    /\ loop[i] = Idle
    /\ runner[i][g].at \in {"waiting", "stopping"}
    /\ Is(g, "running")
    /\ row[g].holder = i
    /\ lease[g] < LeaseTicks
    /\ lease' = [lease EXCEPT ![g] = LeaseTicks]
    /\ UNCHANGED <<row, line, library, loop, runner, mem, thread, retries>>

\* A store call raises.  Before the end of _run that is a failed generation; in
\* its finally clause, in start, in _schedule or in a request it ends the
\* sequence, and the runner with it.
StoreFails(i) ==
    LET g == loop[i].gen IN
    /\ i \in Faulty
    /\ loop[i] \notin {Idle, Down}
    /\ IF loop[i].op \in {"persisting", "saving"}
       THEN /\ LoopTo(i, At("finalizing", g, [loop[i].task EXCEPT !.status = "failed"]))
            /\ UNCHANGED runner
       ELSE /\ LoopTo(i, Idle)
            /\ runner' = IF loop[i].op = "finalizing"
                         THEN [runner EXCEPT ![i][g] = NoRunner] ELSE runner
    /\ UNCHANGED <<row, lease, line, library, mem, thread, retries>>

\* Off the loop it ends the request, on any instance.
StoreFailsOffLoop(i, k) ==
    /\ thread[i][k].op \in {"missing", "scheduling"}
    /\ ThreadTo(i, k, Served)
    /\ UNCHANGED <<row, lease, line, library, loop, runner, mem, retries>>

-----------------------------------------------------------------------------
(* Requests. *)

\* The first put of g under owner u; a later one of the same id finds it.
Inserted(g, u) ==
    LET t == [NoTask EXCEPT !.status = "queued"] IN
    IF Known(g)
    THEN row' = [row EXCEPT ![g] = Stored(row[g], t)] /\ UNCHANGED line
    ELSE /\ row' = [row EXCEPT ![g] = [task |-> t, owner |-> u, holder |-> None]]
         /\ line' = Append(line, g)

\* What is in the table or on its way there.
Submitted ==
    {g \in Generation :
        \/ Known(g)
        \/ \E i \in Instance : loop[i].op = "creating" /\ loop[i].gen = g
        \/ \E i \in Instance, k \in Handoff : thread[i][k].op = "missing" /\ thread[i][k].gen = g}

WithinBound(g) == Cardinality(Submitted \cup {g}) <= MaxSubmitted

\* create and create_idempotent load the id, then put it.  A uuid is new.
CreateLoads(i, g) ==
    /\ loop[i] = Idle
    /\ ~Known(g) /\ g \notin Courseware
    /\ WithinBound(g)
    /\ g \in Derived \/ \A j \in Instance : loop[j].gen # g
    /\ LoopTo(i, At("creating", g, NoTask))
    /\ UNCHANGED <<row, lease, line, library, thread, runner, mem, retries>>

CreatePuts(i, u) ==
    LET g == loop[i].gen IN
    /\ loop[i].op = "creating"
    /\ Inserted(g, u)
    /\ Remember(i, g, [NoTask EXCEPT !.status = "queued"])
    /\ LoopTo(i, Scheduling)
    /\ UNCHANGED <<lease, library, thread, runner, retries>>

\* create_idempotent of an id that exists: nothing is scheduled for one in memory.
CreateAgain(i, g) ==
    /\ loop[i] = Idle
    /\ Known(g) /\ g \in Derived \ Courseware
    /\ mem[i][g] = NoTask
    /\ Remember(i, g, row[g].task)
    /\ LoopTo(i, Scheduling)
    /\ UNCHANGED <<row, lease, line, library, thread, runner, retries>>

(* The courseware endpoint of a research run calls create_idempotent in a thread:    *)
(* loop and threads act between its steps.                                           *)

ThreadLoads(i, k, g) ==
    /\ loop[i].op \notin {"down", "starting"}
    /\ thread[i][k] = Idle
    /\ g \in Courseware
    /\ WithinBound(g)
    /\ ThreadTo(i, k, IF Known(g) THEN At("found", g, row[g].task)
                      ELSE At("missing", g, NoTask))
    /\ UNCHANGED <<row, lease, line, library, loop, runner, mem, retries>>

\* What was loaded is kept, and scheduled, if there is nothing in memory.
ThreadFinds(i, k) ==
    LET g == thread[i][k].gen IN
    /\ thread[i][k].op = "found"
    /\ IF mem[i][g] = NoTask
       THEN Remember(i, g, thread[i][k].task) /\ ThreadTo(i, k, Scheduling)
       ELSE UNCHANGED mem /\ ThreadTo(i, k, Served)
    /\ UNCHANGED <<row, lease, line, library, loop, runner, retries>>

\* The put of a task that was not there when it was looked for.
ThreadPuts(i, k, u) ==
    LET g == thread[i][k].gen IN
    /\ thread[i][k].op = "missing"
    /\ Inserted(g, u)
    /\ ThreadTo(i, k, At("keeping", g, [NoTask EXCEPT !.status = "queued"]))
    /\ UNCHANGED <<lease, library, loop, runner, mem, retries>>

\* The new object takes the place in memory of whatever is there: a runner of that is
\* not known any more.
ThreadKeeps(i, k) ==
    LET g == thread[i][k].gen IN
    /\ thread[i][k].op = "keeping"
    /\ Remember(i, g, thread[i][k].task)
    /\ runner' = [runner EXCEPT ![i][g].known = FALSE]
    /\ ThreadTo(i, k, Scheduling)
    /\ UNCHANGED <<row, lease, line, library, loop, retries>>

\* Variant: get reads the table even while a runner of its own is at work.
GetFromTable(i, g) == row[g].task

\* get: the live object while a runner of this instance is known to be at work.
Get(i, g) == IF runner[i][g].known THEN mem[i][g] ELSE row[g].task

\* Any endpoint that only looks at a generation.
View(i, g) ==
    /\ loop[i] = Idle
    /\ Known(g)
    /\ Remember(i, g, Get(i, g))
    /\ UNCHANGED <<row, lease, line, library, loop, runner, thread, retries>>

\* request_cancel: a queued generation is cancelled, a running one is asked to stop.
CancelRequested(t) ==
    CASE t.status = "queued"  -> [t EXCEPT !.status = "cancelled", !.flag = TRUE]
      [] t.status = "running" -> [t EXCEPT !.flag = TRUE]
      [] OTHER                -> t

\* cancel: request_cancel, and CancelledError for a runner this instance knows.  A
\* runner that has not had its first turn is cancelled before it enters _run.
Cancel(i, g) ==
    /\ loop[i] = Idle
    /\ Known(g)
    /\ Get(i, g).status \notin Terminal
    /\ row' = [row EXCEPT ![g].task = CancelRequested(row[g].task)]
    /\ Remember(i, g, row'[g].task)
    /\ runner' = [runner EXCEPT ![i][g] =
                    CASE ~runner[i][g].known -> runner[i][g]
                      [] runner[i][g].at = "claimed" -> NoRunner
                      [] OTHER -> [runner[i][g] EXCEPT !.at = "stopping"]]
    /\ UNCHANGED <<lease, line, library, loop, thread, retries>>

\* retry reads the task, then puts it, then clears the cancellation request.
RetryReads(i, g) ==
    LET t == Get(i, g)
        fresh == [status |-> "queued", flag |-> FALSE, code |-> "none",
                  result |-> IF t.status = "needs_review" THEN "none" ELSE t.result] IN
    /\ loop[i] = Idle
    /\ Known(g) /\ g \in Retried
    /\ Retryable(t)
    /\ \A h \in Generation : retries[h] < MaxRetries
    /\ retries' = [retries EXCEPT ![g] = retries[g] + 1]
    /\ Remember(i, g, fresh)
    /\ LoopTo(i, At("requeueing", g, fresh))
    /\ UNCHANGED <<row, lease, line, library, thread, runner>>

RetryPuts(i) ==
    LET g == loop[i].gen IN
    /\ loop[i].op = "requeueing"
    /\ row' = [row EXCEPT ![g] = Stored(row[g], loop[i].task)]
    /\ LoopTo(i, At("clearing", g, loop[i].task))
    /\ UNCHANGED <<lease, line, library, runner, mem, thread, retries>>

RetryClears(i) ==
    LET g == loop[i].gen IN
    /\ loop[i].op = "clearing"
    /\ row' = [row EXCEPT ![g].task.flag = FALSE]
    /\ LoopTo(i, Scheduling)
    /\ UNCHANGED <<lease, line, library, runner, mem, thread, retries>>

\* Variant: the confirmation is recorded before the artifact is saved.
ConfirmPuts(i, g) ==
    LET t == [Get(i, g) EXCEPT !.status = "completed", !.result = "final"] IN
    /\ loop[i] = Idle
    /\ Known(g)
    /\ Get(i, g).status = "needs_review" /\ Get(i, g).result # "none"
    /\ Remember(i, g, t)
    /\ row' = [row EXCEPT ![g] = Stored(row[g], t)]
    /\ LoopTo(i, At("confirming", g, t))
    /\ UNCHANGED <<lease, line, library, thread, runner, retries>>

\* confirm_review reads the task, saves the artifact, then puts the task.
ConfirmReads(i, g) ==
    LET t == [Get(i, g) EXCEPT !.status = "completed", !.result = "final"] IN
    /\ loop[i] = Idle
    /\ Known(g)
    /\ Get(i, g).status = "needs_review" /\ Get(i, g).result # "none"
    /\ Remember(i, g, t)
    /\ LoopTo(i, At("confirming", g, t))
    /\ UNCHANGED <<row, lease, line, library, runner, thread, retries>>

ConfirmSaves(i) ==
    LET g == loop[i].gen IN
    /\ loop[i].op = "confirming"
    /\ library' = library \cup {g}
    /\ LoopTo(i, At("releasing", g, loop[i].task))
    /\ UNCHANGED <<row, lease, line, runner, mem, thread, retries>>

\* discard_review reads the task, then puts it.
DiscardReads(i, g) ==
    LET t == [Get(i, g) EXCEPT !.status = "discarded"] IN
    /\ loop[i] = Idle
    /\ Known(g)
    /\ Get(i, g).status = "needs_review"
    /\ Remember(i, g, t)
    /\ LoopTo(i, At("discarding", g, t))
    /\ UNCHANGED <<row, lease, line, library, runner, thread, retries>>

\* The put that ends confirm_review and discard_review.
ReviewPuts(i) ==
    LET g == loop[i].gen IN
    /\ loop[i].op \in {"releasing", "discarding"}
    /\ row' = [row EXCEPT ![g] = Stored(row[g], loop[i].task)]
    /\ LoopTo(i, Idle)
    /\ UNCHANGED <<lease, line, library, runner, mem, thread, retries>>

-----------------------------------------------------------------------------
HeartbeatDue ==
    \E i \in Instance, g \in Generation :
        /\ Alive(i, g)
        /\ Is(g, "running") /\ row[g].holder = i
        /\ lease[g] <= 0

LeaseRuns(g) == row[g].holder # None /\ lease[g] >= -Lag

Tick ==
    /\ \E g \in Generation : LeaseRuns(g)
    /\ HeartbeatsOnTime => ~HeartbeatDue
    /\ lease' = [g \in Generation |-> IF LeaseRuns(g) THEN lease[g] - 1 ELSE lease[g]]
    /\ UNCHANGED <<row, line, library, loop, runner, mem, thread, retries>>

RunnerStep(i, g) ==
    \/ RunBegins(i, g)
    \/ ProviderReturns(i, g)
    \/ ProviderFails(i, g)
    \/ Stops(i, g)

LoopStep(i) ==
    \/ Start(i)
    \/ \E d \in 0..Lag : ClaimNext(i, d)
    \/ \E u \in User : CreatePuts(i, u)
    \/ PersistRun(i)
    \/ SaveGeneration(i)
    \/ Finalize(i)
    \/ RetryPuts(i)
    \/ RetryClears(i)
    \/ ConfirmSaves(i)
    \/ ReviewPuts(i)

ThreadStep(i, k) ==
    \/ ThreadFinds(i, k)
    \/ \E u \in User : ThreadPuts(i, k, u)
    \/ ThreadKeeps(i, k)
    \/ \E d \in 0..Lag : ClaimNextOffLoop(i, k, d)

UserStep(i, g) ==
    \/ CreateLoads(i, g)
    \/ \E k \in Handoff : ThreadLoads(i, k, g)
    \/ CreateAgain(i, g)
    \/ View(i, g)
    \/ Cancel(i, g)
    \/ RetryReads(i, g)
    \/ ConfirmReads(i, g)
    \/ DiscardReads(i, g)

Next ==
    \/ \E i \in Instance :
        \/ Boot(i) \/ Crash(i) \/ StoreFails(i) \/ LoopStep(i)
        \/ \E k \in Handoff : ThreadStep(i, k) \/ StoreFailsOffLoop(i, k)
        \/ \E g \in Generation : RunnerStep(i, g) \/ Renew(i, g) \/ UserStep(i, g)
    \/ Tick

Spec == Init /\ [][Next]_vars

\* A runner's provider call ends one way or the other, the loop turns, time
\* passes.  Users, crashes, failures and heartbeats are never forced.
Fairness ==
    /\ WF_vars(Tick)
    /\ \A i \in Instance :
        /\ WF_vars(Boot(i))
        /\ WF_vars(LoopStep(i))
        /\ \A k \in Handoff : WF_vars(ThreadStep(i, k))
        /\ \A g \in Generation : SF_vars(RunnerStep(i, g))

FairSpec == Spec /\ Fairness

-----------------------------------------------------------------------------
(* Invariants. *)

\* The shape of every variable; a process that is down has no tasks.
TypeOK ==
    /\ row \in [Generation -> Row]
    /\ lease \in [Generation -> Int]
    /\ line \in Seq(Generation)
    /\ library \subseteq Generation
    /\ loop \in [Instance -> Doing]
    /\ thread \in [Instance -> [Handoff -> Serving]]
    /\ runner \in [Instance -> [Generation -> Runner]]
    /\ mem \in [Instance -> [Generation -> Task]]
    /\ retries \in [Generation -> 0..MaxRetries]
    /\ \A i \in Instance, g \in Generation : loop[i] = Down => ~Alive(i, g)

\* As far as one instance is concerned, a generation with an id of its own is back in
\* the queue only when its last runner is gone or on its way out, even if the lease of
\* that runner lapsed and the row was interrupted under it: retry sees the live object
\* and refuses, whatever the threads do meanwhile.
RequeuedAfterItsRunner ==
    \A g \in Generation \ Courseware : Is(g, "queued") =>
        \A i \in Instance : runner[i][g].at \in {"none", "stopping"}

\* The generations with an id of their own never take more than their owner's share of
\* leases, however leases lapse and processes come and go, and whatever the threads
\* claim.
SharesAreKept ==
    \A u \in User : Cardinality(OwnedBy(row, Leased(row) \ Courseware, u)) <= PerUser

\* A generation that is shown as completed has its artifact in the library: the
\* artifact is saved before the status is, on both ways to get there.
CompletedIsSaved ==
    \A g \in Generation : Is(g, "completed") => g \in library

\* No generation is worked on by two instances at once.
OneInstancePerGeneration ==
    \A i, j \in Instance, g \in Generation : Alive(i, g) /\ Alive(j, g) => i = j

\* The provider is never oversubscribed: there are no more runners, over all
\* instances, than the pool admits.
PoolIsKept ==
    Cardinality({ig \in Instance \X Generation : Alive(ig[1], ig[2])}) <= PoolLimit

(* Action properties. *)

\* A cancellation that was recorded while a generation was running is never
\* overwritten by the success of its runner, on whichever instance it runs.
CancelPrevails ==
    [][\A g \in Generation :
        Is(g, "running") /\ row[g].task.flag
            => row'[g].task.status \notin {"completed", "needs_review"}]_vars

(* What the documents and comments say, and the code does not do. *)

\* A generation under lease of a living process is being run by it: "a completed,
\* fully grounded report can enter the normal courseware queue" (README of
\* research_workspace).
LeasesHaveRunners ==
    \A i \in Instance, g \in Generation :
        Is(g, "running") /\ row[g].holder = i => Alive(i, g)

\* "Queued work is atomically claimed by whichever API instance has capacity"
\* (api/main.py): a queued generation does not wait for ever.
QueuedIsClaimed ==
    \A g \in Generation : Is(g, "queued") ~> ~Is(g, "queued")
=============================================================================
