------------------------ MODULE GenerationQueueProofs ------------------------
(***************************************************************************)
(* Theorems about GenerationQueue, for every set of generations, users and *)
(* instances, every pool and share, and every fault the model admits.      *)
(***************************************************************************)
EXTENDS GenerationQueueInvariant, TLAPS

-----------------------------------------------------------------------------
(* The inductive invariant: every value that can still become the completed *)
(* status of a row comes with its artifact.                                 *)

Rows(rows, saved) ==
    /\ rows \in [Generation -> Row]
    /\ \A g \in Generation : rows[g].task.status = "completed" => g \in saved

\* A sequence that is about a generation knows which, and what it is about to put is
\* saved if it is completed, unless saving is what it does next.
Step(l, saved) ==
    /\ l \in Doing
    /\ l.op \notin {"down", "idle", "starting", "scheduling"} => l.gen \in Generation
    /\ l.task.status = "completed" /\ l.op # "confirming" => l.gen \in saved

Loops(loops, saved) ==
    /\ loops \in [Instance -> Doing]
    /\ \A i \in Instance : Step(loops[i], saved)

\* A runner that is there is somewhere; it has a task that is not completed, and
\* completes a copy of it.
Runs(x) == x.task.status # "completed" /\ (x.at = "none" => x = NoRunner)

Runners(runners) ==
    /\ runners \in [Instance -> [Generation -> Runner]]
    /\ \A i \in Instance, g \in Generation : Runs(runners[i][g])

Downs(loops, runners) ==
    \A i \in Instance : loops[i] = Down => \A g \in Generation : runners[i][g] = NoRunner

Mems(mems) == mems \in [Instance -> [Generation -> Task]]

\* A thread that has looked at a generation serves the courseware endpoint.
Serves(l) == l.op \in {"found", "missing", "keeping"} => l.gen \in Courseware

Threads(threads) ==
    /\ threads \in [Instance -> [Handoff -> Serving]]
    /\ \A i \in Instance, k \in Handoff : Serves(threads[i][k])

Others ==
    /\ lease \in [Generation -> Int]
    /\ line \in Seq(Generation)
    /\ library \subseteq Generation
    /\ Threads(thread)
    /\ retries \in [Generation -> 0..MaxRetries]

IInv ==
    /\ Rows(row, library)
    /\ Loops(loop, library)
    /\ Runners(runner)
    /\ Downs(loop, runner)
    /\ Mems(mem)
    /\ Others

LEMMA InvariantImplies ==
    ASSUME IInv
    PROVE  TypeOK /\ CompletedIsSaved
BY DEF IInv, TypeOK, CompletedIsSaved, Rows, Loops, Runners, Downs, Mems, Others, Threads, Is,
     Alive

-----------------------------------------------------------------------------
(* Tasks, rows, runners and sequences. *)

LEMMA TaskIsSet ==
    ASSUME NEW t \in Task, NEW s \in Status
    PROVE  [t EXCEPT !.status = s] \in Task /\ [t EXCEPT !.status = s].status = s
BY DEF Task

LEMMA TaskIsRead ==
    ASSUME NEW t \in Task
    PROVE  t.status \in Status /\ t.flag \in BOOLEAN
BY DEF Task

LEMMA TaskGetsResult ==
    ASSUME NEW t \in Task, NEW s \in Status, NEW r \in {"none", "draft", "final"}
    PROVE  LET u == [t EXCEPT !.status = s, !.result = r] IN u \in Task /\ u.status = s
BY DEF Task

LEMMA TaskGetsCode ==
    ASSUME NEW t \in Task, NEW s \in Status, NEW c \in {"none", "configuration"}
    PROVE  LET u == [t EXCEPT !.status = s, !.code = c] IN u \in Task /\ u.status = s
BY DEF Task

LEMMA TaskGetsFlag ==
    ASSUME NEW t \in Task, NEW s \in Status, NEW b \in BOOLEAN
    PROVE  /\ [t EXCEPT !.flag = b] \in Task /\ [t EXCEPT !.flag = b].status = t.status
           /\ [t EXCEPT !.status = s, !.flag = b] \in Task
           /\ [t EXCEPT !.status = s, !.flag = b].status = s
BY DEF Task

LEMMA NoTaskFacts == NoTask \in Task /\ NoTask.status = "absent"
BY DEF NoTask, Task, Status

LEMMA NamesOfStatus ==
    {"queued", "running", "needs_review", "completed", "failed", "cancelled",
     "interrupted", "discarded"} \subseteq Status
BY DEF Status

LEMMA RowIsRead ==
    ASSUME NEW r \in Row
    PROVE  r.task \in Task
BY DEF Row

LEMMA RowGetsTask ==
    ASSUME NEW r \in Row, NEW t \in Task
    PROVE  [r EXCEPT !.task = t] \in Row /\ [r EXCEPT !.task = t].task = t
BY DEF Row

LEMMA RowGetsHolder ==
    ASSUME NEW r \in Row, NEW t \in Task, NEW h \in Instance \cup {None, Gone}
    PROVE  /\ [r EXCEPT !.task = t, !.holder = h] \in Row
           /\ [r EXCEPT !.task = t, !.holder = h].task = t
BY DEF Row

LEMMA StepIsAt ==
    ASSUME NEW op \in {"creating", "persisting", "saving", "finalizing", "requeueing",
                       "clearing", "confirming", "releasing", "discarding"},
           NEW g \in Generation, NEW t \in Task, NEW saved,
           t.status = "completed" /\ op # "confirming" => g \in saved
    PROVE  Step(At(op, g, t), saved) /\ At(op, g, t).op # "down"
BY DEF Step, At, Doing

LEMMA RestingSteps ==
    ASSUME NEW saved
    PROVE  /\ Step(Idle, saved) /\ Step(Scheduling, saved) /\ Step(Down, saved)
           /\ Step(At("starting", None, NoTask), saved)
           /\ Idle.op # "down" /\ Scheduling.op # "down" /\ Down.op = "down"
           /\ At("starting", None, NoTask).op # "down"
BY NoTaskFacts DEF Step, At, Doing, Idle, Scheduling, Down

LEMMA RunnerFacts ==
    /\ NoRunner \in Runner /\ Runs(NoRunner)
    /\ \A at \in {"none", "claimed", "waiting", "stopping"}, x \in Runner :
          [x EXCEPT !.at = at] \in Runner /\ [x EXCEPT !.at = at].task = x.task
    /\ \A x \in Runner : x.task \in Task
    /\ \A t \in Task : [at |-> "claimed", task |-> t, known |-> TRUE] \in Runner
    /\ \A x \in Runner : /\ [x EXCEPT !.known = FALSE] \in Runner
                          /\ [x EXCEPT !.known = FALSE].task = x.task
BY NoTaskFacts DEF NoRunner, Runner, Runs

-----------------------------------------------------------------------------
(* Updates of the variables. *)

\* A row is given a task.
LEMMA RowsAreSet ==
    ASSUME NEW rows, NEW rows2, NEW saved, Rows(rows, saved), NEW g \in Generation, NEW r \in Row,
           r.task.status = "completed" => g \in saved,
           rows2 = [rows EXCEPT ![g] = r]
    PROVE  Rows(rows2, saved)
BY DEF Rows

LEMMA RowsStayWhenMoreIsSaved ==
    ASSUME NEW rows, NEW saved, NEW saved2, Rows(rows, saved), saved \subseteq saved2
    PROVE  Rows(rows, saved2)
BY DEF Rows

LEMMA RowsAreInterrupted ==
    ASSUME NEW saved, NEW S, Rows(row, saved)
    PROVE  Rows(Interrupted(S), saved)
<1>1. ASSUME NEW g \in Generation
      PROVE  /\ Interrupted(S)[g] \in Row
             /\ Interrupted(S)[g].task.status = "completed" => g \in saved
  <2>1. row[g] \in Row /\ row[g].task \in Task /\ (row[g].task.status = "completed" => g \in saved)
    BY RowIsRead DEF Rows
  <2>2. CASE g \in S
    <3> DEFINE t == [row[g].task EXCEPT !.status = "interrupted"]
    <3>1. t \in Task /\ t.status = "interrupted"
      BY <2>1, TaskIsSet, NamesOfStatus
    <3>2. Interrupted(S)[g] = [row[g] EXCEPT !.task = t, !.holder = None]
      BY <2>1, <2>2 DEF Interrupted, Row
    <3> HIDE DEF t
    <3>3. None \in Instance \cup {None, Gone}
      OBVIOUS
    <3>4. /\ [row[g] EXCEPT !.task = t, !.holder = None] \in Row
          /\ [row[g] EXCEPT !.task = t, !.holder = None].task = t
      BY <2>1, <3>1, <3>3, RowGetsHolder
    <3>5. QED
      BY <3>1, <3>2, <3>4
  <2>3. CASE g \notin S
    BY <2>1, <2>3 DEF Interrupted
  <2>4. QED
    BY <2>2, <2>3
<1>2. Interrupted(S) \in [Generation -> Row]
  BY <1>1 DEF Interrupted
<1>3. QED
  BY <1>1, <1>2 DEF Rows

\* A put: the task of a row but for its flag.
LEMMA RowIsStored ==
    ASSUME NEW r \in Row, NEW t \in Task
    PROVE  Stored(r, t) \in Row /\ Stored(r, t).task.status = t.status
<1> DEFINE b == t.flag \/ r.task.flag
           u == [t EXCEPT !.flag = b]
<1>1. b \in BOOLEAN
  OBVIOUS
<1> HIDE DEF b
<1>2. u \in Task /\ u.status = t.status
  BY <1>1, TaskGetsFlag, TaskIsRead
<1>3. Stored(r, t) = [r EXCEPT !.task = u]
  BY DEF Stored, b
<1> HIDE DEF u
<1>4. QED
  BY <1>2, <1>3, RowGetsTask

LEMMA LoopsAreSet ==
    ASSUME NEW i \in Instance, NEW l, NEW saved, Loops(loop, library), library \subseteq saved,
           Step(l, saved), LoopTo(i, l)
    PROVE  Loops(loop', saved)
BY DEF Loops, LoopTo, Step

LEMMA RunnersAreSet ==
    ASSUME NEW i \in Instance, NEW g \in Generation, NEW x \in Runner, Runners(runner),
           Runs(x), runner' = [runner EXCEPT ![i][g] = x]
    PROVE  Runners(runner')
<1> DEFINE f == [runner[i] EXCEPT ![g] = x]
<1>1. runner[i] \in [Generation -> Runner]
  BY DEF Runners
<1>2. f \in [Generation -> Runner] /\ \A h \in Generation : Runs(f[h])
  BY <1>1 DEF Runners
<1>3. runner' = [runner EXCEPT ![i] = f]
  BY <1>1 DEF Runners
<1> HIDE DEF f
<1>4. QED
  BY <1>2, <1>3 DEF Runners

LEMMA MemIsSet ==
    ASSUME NEW i \in Instance, NEW g \in Generation, NEW t \in Task,
           Mems(mem), Remember(i, g, t)
    PROVE  Mems(mem') /\ mem'[i][g] = t
BY DEF Remember, Mems

LEMMA RestingThreads ==
    /\ Idle \in Serving /\ Scheduling \in Serving /\ Served \in Serving
    /\ Serves(Idle) /\ Serves(Scheduling) /\ Serves(Served)
BY NoTaskFacts DEF Idle, Scheduling, Served, At, Serving, Serves

LEMMA ThreadsAreSet ==
    ASSUME NEW i \in Instance, NEW k \in Handoff, NEW l \in Serving, Serves(l),
           Threads(thread), ThreadTo(i, k, l)
    PROVE  Threads(thread')
BY DEF Threads, ThreadTo

LEMMA ServingAt ==
    ASSUME NEW op \in {"found", "missing", "keeping"}, NEW g \in Courseware, NEW t \in Task
    PROVE  At(op, g, t) \in Serving /\ Serves(At(op, g, t))
BY ConstantsAssumption DEF At, Serving, Serves

\* The thread of request k of i goes on to l; the loop and the library are left alone.
LEMMA ThreadMoves ==
    ASSUME IInv, NEW i \in Instance, NEW k \in Handoff, NEW l \in Serving, Serves(l),
           ThreadTo(i, k, l), UNCHANGED <<library, loop, retries>>,
           Rows(row', library), Mems(mem'), Runners(runner'), Downs(loop, runner'),
           lease' \in [Generation -> Int], line' \in Seq(Generation)
    PROVE  IInv'
<1>1. Threads(thread')
  BY ThreadsAreSet DEF IInv, Others
<1>2. QED
  BY <1>1 DEF IInv, Others

\* No sequence of i begins or goes on while i is down, and nobody else's runners change.
LEMMA DownsStay ==
    ASSUME NEW i \in Instance, NEW l, Downs(loop, runner), LoopTo(i, l), l.op # "down",
           loop \in [Instance -> Doing],
           \A j \in Instance \ {i} : runner'[j] = runner[j]
    PROVE  Downs(loop', runner')
<1>1. l # Down
  BY RestingSteps
<1>2. loop'[i] = l /\ \A j \in Instance \ {i} : loop'[j] = loop[j]
  BY DEF LoopTo
<1>3. QED
  BY <1>1, <1>2 DEF Downs

LEMMA GetIsATask ==
    ASSUME IInv, NEW i \in Instance, NEW g \in Generation
    PROVE  Get(i, g) \in Task
BY RowIsRead DEF IInv, Get, Rows, Mems

\* What a sequence in progress is about.
LEMMA Busy ==
    ASSUME IInv, NEW i \in Instance
    PROVE  /\ loop[i] \in Doing /\ loop[i].task \in Task
           /\ loop[i].op \notin {"down", "idle", "starting", "scheduling"} =>
                  loop[i].gen \in Generation
           /\ loop[i].task.status = "completed" /\ loop[i].op # "confirming" =>
                  loop[i].gen \in library
<1>1. Step(loop[i], library)
  BY DEF IInv, Loops
<1>2. \A l \in Doing : l.task \in Task
  BY DEF Doing
<1>3. QED
  BY <1>1, <1>2 DEF Step

LEMMA RowsHold ==
    ASSUME IInv, NEW g \in Generation
    PROVE  /\ row[g] \in Row /\ row[g].task \in Task
           /\ row[g].task.status = "completed" => g \in library
BY RowIsRead DEF IInv, Rows

LEMMA RunnersHold ==
    ASSUME IInv, NEW i \in Instance, NEW g \in Generation
    PROVE  /\ runner[i][g] \in Runner /\ runner[i][g].task \in Task
           /\ Runs(runner[i][g]) /\ runner[i][g].task.status # "completed"
BY RunnerFacts DEF IInv, Runners, Runs

\* A put by the sequence of instance i.
LEMMA Puts ==
    ASSUME IInv, NEW g \in Generation, NEW t \in Task, t.status = "completed" => g \in library,
           row' = [row EXCEPT ![g] = Stored(row[g], t)]
    PROVE  Rows(row', library)
<1>1. Stored(row[g], t) \in Row /\ Stored(row[g], t).task.status = t.status
  BY RowIsStored, RowsHold
<1>2. QED
  BY <1>1, RowsAreSet DEF IInv

\* Instance i goes on to l; the runners and the library are left alone.
LEMMA Moves ==
    ASSUME IInv, NEW i \in Instance, NEW l, Step(l, library), l.op # "down", LoopTo(i, l),
           runner' = runner, library' = library,
           Rows(row', library), Mems(mem'), Others'
    PROVE  IInv'
<1>1. Loops(loop', library')
  BY LoopsAreSet DEF IInv
<1>2. Downs(loop', runner')
  BY DownsStay DEF IInv, Loops
<1>3. QED
  BY <1>1, <1>2 DEF IInv

\* The same where the row and the memory stay as well.
LEMMA MovesOn ==
    ASSUME IInv, NEW i \in Instance, NEW l, Step(l, library), l.op # "down", LoopTo(i, l),
           UNCHANGED <<row, lease, line, library, thread, runner, mem, retries>>
    PROVE  IInv'
<1>1. Rows(row', library) /\ Mems(mem') /\ Others'
  BY DEF IInv, Others
<1>2. QED
  BY <1>1, Moves

\* A runner of an instance that stays up changes.
LEMMA RunnerMoves ==
    ASSUME IInv, NEW i \in Instance, NEW g \in Generation, NEW x \in Runner, NEW l,
           Runs(x), runner' = [runner EXCEPT ![i][g] = x],
           Step(l, library), l.op # "down", LoopTo(i, l), library' = library,
           Rows(row', library), Mems(mem'), Others'
    PROVE  IInv'
<1>1. Loops(loop', library')
  BY LoopsAreSet DEF IInv
<1>2. \A j \in Instance \ {i} : runner'[j] = runner[j]
  OBVIOUS
<1>3. Downs(loop', runner')
  BY <1>2, DownsStay DEF IInv, Loops
<1>4. Runners(runner')
  BY RunnersAreSet DEF IInv
<1>5. QED
  BY <1>1, <1>3, <1>4 DEF IInv

\* A loop that is where it is may be said to go there.
LEMMA Stays ==
    ASSUME IInv, NEW i \in Instance, loop' = loop
    PROVE  LoopTo(i, loop[i]) /\ Step(loop[i], library)
BY DEF IInv, Loops, LoopTo

-----------------------------------------------------------------------------
(* The actions. *)

LEMMA LeasesAreGivenUp ==
    ASSUME IInv, NEW S
    PROVE  LeasesWithout(S) \in [Generation -> Int]
BY DEF LeasesWithout, IInv, Others

LEMMA StartKeeps ==
    ASSUME IInv, NEW i \in Instance, Boot(i) \/ Start(i)
    PROVE  IInv'
<1>1. CASE Boot(i)
  <2>1. QED
    BY <1>1, RestingSteps, MovesOn DEF Boot
<1>2. CASE Start(i)
  <2>1. Rows(row', library)
    BY <1>2, RowsAreInterrupted DEF Start, IInv
  <2>2. Mems(mem') /\ Others' /\ library' = library /\ runner' = runner
    BY <1>2, LeasesAreGivenUp DEF Start, IInv, Others
  <2>3. LoopTo(i, Scheduling)
    BY <1>2 DEF Start
  <2>4. QED
    BY <2>1, <2>2, <2>3, RestingSteps, Moves
<1>3. QED
  BY <1>1, <1>2

LEMMA CrashKeeps ==
    ASSUME IInv, NEW i \in Instance, Crash(i)
    PROVE  IInv'
<1>1. Rows(row', library')
  <2>1. ASSUME NEW g \in Generation
        PROVE  row'[g] \in Row /\ row'[g].task = row[g].task
    <3>1. row[g] \in Row /\ Gone \in Instance \cup {None, Gone}
      BY RowsHold
    <3>2. /\ [row[g] EXCEPT !.holder = Gone] \in Row
          /\ [row[g] EXCEPT !.holder = Gone].task = row[g].task
      BY <3>1 DEF Row
    <3>3. row'[g] = [row[g] EXCEPT !.holder = Gone] \/ row'[g] = row[g]
      BY DEF Crash
    <3>4. QED
      BY <3>1, <3>2, <3>3
  <2>2. row' \in [Generation -> Row] /\ library' = library
    BY <2>1 DEF Crash
  <2>3. QED
    BY <2>1, <2>2 DEF Rows, IInv
<1>2. Loops(loop', library')
  BY RestingSteps, LoopsAreSet DEF Crash, IInv
<1>3. Runners(runner')
  BY RunnerFacts DEF Crash, IInv, Runners
<1>4. Downs(loop', runner')
  <2>1. runner \in [Instance -> [Generation -> Runner]] /\ loop \in [Instance -> Doing]
    BY DEF IInv, Runners, Loops
  <2>2. \A g \in Generation : runner'[i][g] = NoRunner
    BY <2>1 DEF Crash
  <2>3. \A j \in Instance \ {i} : runner'[j] = runner[j] /\ loop'[j] = loop[j]
    BY <2>1 DEF Crash, LoopTo
  <2>4. QED
    BY <2>2, <2>3 DEF IInv, Downs
<1>5. Mems(mem')
  BY NoTaskFacts DEF Crash, IInv, Mems
<1>6. Others'
  <2>1. Threads(thread')
    <3>1. ASSUME NEW j \in Instance
          PROVE  /\ thread'[j] \in [Handoff -> Serving]
                 /\ \A k \in Handoff : Serves(thread'[j][k])
      BY RestingThreads DEF Crash, IInv, Others, Threads
    <3>2. thread' \in [Instance -> [Handoff -> Serving]]
      BY <3>1 DEF Crash, IInv, Others, Threads
    <3>3. QED
      BY <3>1, <3>2 DEF Threads
  <2>2. QED
    BY <2>1 DEF Crash, IInv, Others
<1>7. QED
  BY <1>1, <1>2, <1>3, <1>4, <1>5, <1>6 DEF IInv

\* Taking a generation from the queue.
LEMMA ClaimFacts ==
    ASSUME IInv, NEW i \in Instance, NEW d \in 0..Lag, NEW g \in Generation, Claims(i, d, g)
    PROVE  /\ Rows(row', library) /\ Mems(mem') /\ lease' \in [Generation -> Int]
           /\ mem'[i][g] \in Task /\ mem'[i][g].status = "running"
<1> DEFINE t == IF mem[i][g] = NoTask THEN Swept(d)[g].task ELSE mem[i][g]
           u == [Swept(d)[g].task EXCEPT !.status = "running"]
           r == [Swept(d)[g] EXCEPT !.task = u, !.holder = i]
<1>1. Rows(Swept(d), library)
  BY RowsAreInterrupted DEF IInv, Swept
<1>2. Swept(d)[g] \in Row /\ Swept(d)[g].task \in Task
  BY <1>1, RowIsRead DEF Rows
<1>3. t \in Task
  BY <1>2 DEF IInv, Mems
<1>4. u \in Task /\ u.status = "running"
  BY <1>2, TaskIsSet, NamesOfStatus
<1>5. row' = [Swept(d) EXCEPT ![g] = r]
  BY <1>1, <1>2 DEF Claims, Row, Rows
<1>6. r \in Row /\ r.task = u
  <2>1. i \in Instance \cup {None, Gone}
    OBVIOUS
  <2> HIDE DEF u
  <2>2. QED
    BY <1>2, <1>4, <2>1, RowGetsHolder
<1>7. Rows(row', library)
  <2>1. r.task.status # "completed"
    BY <1>4, <1>6
  <2> HIDE DEF r
  <2>2. QED
    BY <1>1, <1>5, <1>6, <2>1, RowsAreSet
<1>8. Remember(i, g, [t EXCEPT !.status = "running"])
  BY DEF Claims
<1>9. [t EXCEPT !.status = "running"] \in Task /\ [t EXCEPT !.status = "running"].status = "running"
  BY <1>3, TaskIsSet, NamesOfStatus
<1>10. Mems(mem') /\ mem'[i][g] \in Task /\ mem'[i][g].status = "running"
  <2> HIDE DEF t
  <2>1. QED
    BY <1>8, <1>9, MemIsSet DEF IInv
<1>11. lease' \in [Generation -> Int]
  <2>1. LeaseTicks - d \in Int
    BY ConstantsAssumption
  <2>2. QED
    BY <2>1, LeasesAreGivenUp DEF Claims
<1>12. QED
  BY <1>7, <1>10, <1>11

LEMMA NothingFacts ==
    ASSUME IInv, NEW i \in Instance, NEW d \in 0..Lag, NothingToClaim(i, d)
    PROVE  Rows(row', library) /\ lease' \in [Generation -> Int]
BY RowsAreInterrupted, LeasesAreGivenUp DEF NothingToClaim, Swept, IInv

LEMMA ClaimNextKeeps ==
    ASSUME IInv, NEW i \in Instance, NEW d \in 0..Lag, ClaimNext(i, d)
    PROVE  IInv'
<1>1. CASE NothingToClaim(i, d) /\ LoopTo(i, Idle) /\ UNCHANGED <<runner, mem>>
  <2>1. Rows(row', library) /\ Mems(mem') /\ Others' /\ library' = library
    BY <1>1, NothingFacts DEF ClaimNext, IInv, Others
  <2>2. QED
    BY <1>1, <2>1, RestingSteps, Moves
<1>2. ASSUME NEW g \in Generation, Claims(i, d, g),
             runner' = [runner EXCEPT ![i][g] = [at |-> "claimed", task |-> mem'[i][g], known |-> TRUE]],
             UNCHANGED loop
      PROVE  IInv'
  <2> DEFINE x == [at |-> "claimed", task |-> mem'[i][g], known |-> TRUE]
  <2>1. Rows(row', library) /\ Mems(mem') /\ Others' /\ library' = library
    BY <1>2, ClaimFacts DEF ClaimNext, IInv, Others
  <2>2. x \in Runner /\ Runs(x)
    BY <1>2, ClaimFacts, RunnerFacts DEF Runs
  <2>3. LoopTo(i, loop[i]) /\ Step(loop[i], library)
    BY <1>2, Stays
  <2>4. loop[i].op # "down"
    BY RestingSteps DEF ClaimNext
  <2>5. runner' = [runner EXCEPT ![i][g] = x]
    BY <1>2
  <2> HIDE DEF x
  <2>6. QED
    BY <2>1, <2>2, <2>3, <2>4, <2>5, RunnerMoves
<1>3. QED
  BY <1>1, <1>2 DEF ClaimNext

LEMMA ClaimNextOffLoopKeeps ==
    ASSUME IInv, NEW i \in Instance, NEW k \in Handoff, NEW d \in 0..Lag,
           ClaimNextOffLoop(i, k, d)
    PROVE  IInv'
<1>1. Rows(row', library) /\ lease' \in [Generation -> Int] /\ Mems(mem')
  <2>1. CASE NothingToClaim(i, d) /\ UNCHANGED mem
    BY <2>1, NothingFacts DEF IInv
  <2>2. CASE \E g \in Generation : Claims(i, d, g)
    BY <2>2, ClaimFacts
  <2>3. QED
    BY <2>1, <2>2 DEF ClaimNextOffLoop
<1>2. /\ ThreadTo(i, k, Served) /\ UNCHANGED <<line, library, loop, runner, retries>>
      /\ Runners(runner') /\ Downs(loop, runner') /\ line' \in Seq(Generation)
  BY DEF ClaimNextOffLoop, IInv, Others
<1>3. QED
  BY <1>1, <1>2, RestingThreads, ThreadMoves

\* What the runner of g does, and what comes of it.
LEMMA RunnerStepKeeps ==
    ASSUME IInv, NEW i \in Instance, NEW g \in Generation, RunnerStep(i, g)
    PROVE  IInv'
<1> DEFINE t == runner[i][g].task
           To(op, u) == LoopTo(i, At(op, g, u))
<1>1. t \in Task /\ t.status # "completed"
  BY RunnersHold
<1>2. UNCHANGED <<row, lease, line, library, thread, runner, mem, retries>>
  BY DEF RunnerStep, RunBegins, ProviderReturns, ProviderFails, Stops
<1>3. ASSUME NEW op \in {"persisting", "saving", "finalizing"}, NEW u \in Task,
             u.status # "completed", To(op, u)
      PROVE  IInv'
  <2>1. Step(At(op, g, u), library) /\ At(op, g, u).op # "down"
    BY <1>3, StepIsAt
  <2>2. QED
    BY <1>2, <1>3, <2>1, MovesOn
<1>4. [t EXCEPT !.status = "cancelled"] \in Task /\ [t EXCEPT !.status = "cancelled"].status # "completed"
  BY <1>1, TaskIsSet, NamesOfStatus
<1>5. LET u == [t EXCEPT !.status = "needs_review", !.result = "draft"] IN
      u \in Task /\ u.status # "completed"
  BY <1>1, TaskGetsResult, NamesOfStatus
<1>6. ASSUME NEW code \in {"none", "configuration"}
      PROVE  LET u == [t EXCEPT !.status = "failed", !.code = code] IN
             u \in Task /\ u.status # "completed"
  BY <1>1, TaskGetsCode, NamesOfStatus
<1>7. \/ To("persisting", t) \/ To("saving", t)
      \/ To("finalizing", [t EXCEPT !.status = "cancelled"])
      \/ To("finalizing", [t EXCEPT !.status = "needs_review", !.result = "draft"])
      \/ \E code \in {"none", "configuration"} :
            To("finalizing", [t EXCEPT !.status = "failed", !.code = code])
  BY DEF RunnerStep, RunBegins, ProviderReturns, ProviderFails, Stops
<1> HIDE DEF t, To
<1>8. QED
  BY <1>1, <1>3, <1>4, <1>5, <1>6, <1>7

LEMMA PersistRunKeeps ==
    ASSUME IInv, NEW i \in Instance, PersistRun(i)
    PROVE  IInv'
<1> DEFINE g == loop[i].gen
           x == [runner[i][g] EXCEPT !.at = "waiting"]
<1>1. g \in Generation /\ loop[i].task \in Task /\ (loop[i].task.status = "completed" => g \in library)
  BY Busy DEF PersistRun
<1>2. Rows(row', library)
  BY <1>1, Puts DEF PersistRun
<1>3. x \in Runner /\ Runs(x)
  BY <1>1, RunnersHold, RunnerFacts DEF Runs, Runner
<1>4. runner' = [runner EXCEPT ![i][g] = x]
  BY DEF PersistRun
<1>5. Mems(mem') /\ Others' /\ library' = library /\ LoopTo(i, Idle)
  BY DEF PersistRun, IInv, Others
<1> HIDE DEF g, x
<1>6. QED
  BY <1>1, <1>2, <1>3, <1>4, <1>5, RestingSteps, RunnerMoves

\* The library grows by what the sequence of i is about.
LEMMA Saves ==
    ASSUME IInv, NEW i \in Instance, NEW g \in Generation, NEW op \in {"finalizing", "releasing"},
           NEW t \in Task, library' = library \cup {g}, LoopTo(i, At(op, g, t)),
           UNCHANGED <<row, lease, line, runner, mem, thread, retries>>
    PROVE  IInv'
<1>1. Rows(row', library')
  BY RowsStayWhenMoreIsSaved DEF IInv
<1>2. Step(At(op, g, t), library') /\ At(op, g, t).op # "down"
  BY StepIsAt
<1>3. Loops(loop', library')
  BY <1>2, LoopsAreSet DEF IInv
<1>4. Downs(loop', runner')
  BY <1>2, DownsStay DEF IInv, Loops
<1>5. Runners(runner') /\ Mems(mem') /\ Others'
  BY DEF IInv, Others
<1>6. QED
  BY <1>1, <1>3, <1>4, <1>5 DEF IInv

LEMMA SaveGenerationKeeps ==
    ASSUME IInv, NEW i \in Instance, SaveGeneration(i) \/ ConfirmSaves(i)
    PROVE  IInv'
<1>1. loop[i].gen \in Generation /\ loop[i].task \in Task
  BY Busy DEF SaveGeneration, ConfirmSaves
<1>2. CASE SaveGeneration(i)
  <2> DEFINE t == [loop[i].task EXCEPT !.status = "completed", !.result = "final"]
  <2>1. t \in Task
    BY <1>1, TaskGetsResult, NamesOfStatus
  <2>2. LoopTo(i, At("finalizing", loop[i].gen, t))
    BY <1>2 DEF SaveGeneration
  <2> HIDE DEF t
  <2>3. QED
    BY <1>1, <1>2, <2>1, <2>2, Saves DEF SaveGeneration
<1>3. CASE ConfirmSaves(i)
  BY <1>1, <1>3, Saves DEF ConfirmSaves
<1>4. QED
  BY <1>2, <1>3

LEMMA FinalizeKeeps ==
    ASSUME IInv, NEW i \in Instance, Finalize(i)
    PROVE  IInv'
<1> DEFINE g == loop[i].gen
           t == Outcome(g, loop[i].task)
           r == [row[g] EXCEPT !.task = t, !.holder = None]
<1>1. g \in Generation /\ loop[i].task \in Task /\ (loop[i].task.status = "completed" => g \in library)
  BY Busy DEF Finalize
<1>2. t \in Task /\ (t.status = "completed" => g \in library)
  <2>1. [loop[i].task EXCEPT !.status = "cancelled", !.flag = TRUE] \in Task
    BY <1>1, TaskGetsFlag, NamesOfStatus
  <2>2. [loop[i].task EXCEPT !.status = "cancelled", !.flag = TRUE].status = "cancelled"
    BY <1>1, TaskGetsFlag, NamesOfStatus
  <2>3. QED
    BY <1>1, <2>1, <2>2 DEF Outcome
<1>3. r \in Row /\ r.task = t
  <2>1. row[g] \in Row /\ None \in Instance \cup {None, Gone}
    BY <1>1, RowsHold
  <2> HIDE DEF t
  <2>2. QED
    BY <1>2, <2>1, RowGetsHolder
<1>4. row' = [row EXCEPT ![g] = r]
  BY DEF Finalize
<1>5. Rows(row', library)
  <2>1. r.task.status = "completed" => g \in library
    BY <1>2, <1>3
  <2> HIDE DEF r, t
  <2>2. QED
    BY <1>1, <1>3, <1>4, <2>1, RowsAreSet DEF IInv
<1>6. Mems(mem')
  <2>1. UNCHANGED mem \/ Remember(i, g, t)
    BY DEF Finalize
  <2> HIDE DEF t
  <2>2. QED
    BY <1>1, <1>2, <2>1, MemIsSet DEF IInv
<1>7. /\ Others' /\ library' = library /\ LoopTo(i, Scheduling)
      /\ runner' = [runner EXCEPT ![i][g] = NoRunner]
  BY LeasesAreGivenUp DEF Finalize, IInv, Others
<1> HIDE DEF g, t, r
<1>8. QED
  BY <1>1, <1>5, <1>6, <1>7, RestingSteps, RunnerFacts, RunnerMoves

LEMMA StoreFailsKeeps ==
    ASSUME IInv, NEW i \in Instance, StoreFails(i)
    PROVE  IInv'
<1> DEFINE g == loop[i].gen
<1>1. UNCHANGED <<row, lease, line, library, mem, thread, retries>>
  BY DEF StoreFails
<1>2. Rows(row', library) /\ Mems(mem') /\ Others' /\ library' = library
  BY <1>1 DEF IInv, Others
<1>3. CASE loop[i].op \in {"persisting", "saving"}
  <2> DEFINE t == [loop[i].task EXCEPT !.status = "failed"]
  <2>1. g \in Generation /\ t \in Task /\ t.status = "failed"
    BY <1>3, Busy, TaskIsSet, NamesOfStatus
  <2>2. LoopTo(i, At("finalizing", g, t)) /\ runner' = runner
    BY <1>3 DEF StoreFails
  <2> HIDE DEF g, t
  <2>3. Step(At("finalizing", g, t), library) /\ At("finalizing", g, t).op # "down"
    BY <2>1, StepIsAt
  <2>4. QED
    BY <1>1, <2>2, <2>3, MovesOn
<1>4. CASE loop[i].op = "finalizing"
  <2>1. /\ LoopTo(i, Idle) /\ runner' = [runner EXCEPT ![i][g] = NoRunner] /\ g \in Generation
    BY <1>4, Busy DEF StoreFails
  <2> HIDE DEF g
  <2>2. QED
    BY <1>2, <2>1, RestingSteps, RunnerFacts, RunnerMoves
<1>5. CASE loop[i].op \notin {"persisting", "saving", "finalizing"}
  <2>1. LoopTo(i, Idle) /\ runner' = runner
    BY <1>5 DEF StoreFails
  <2>2. QED
    BY <1>1, <2>1, RestingSteps, MovesOn
<1>6. QED
  BY <1>3, <1>4, <1>5

\* A new row, or a put on the one there is.
LEMMA Inserts ==
    ASSUME IInv, NEW g \in Generation, NEW u \in User, Inserted(g, u)
    PROVE  Rows(row', library) /\ line' \in Seq(Generation)
<1> DEFINE t == [NoTask EXCEPT !.status = "queued"]
           r == [task |-> t, owner |-> u, holder |-> None]
<1>1. t \in Task /\ t.status = "queued"
  BY NoTaskFacts, TaskIsSet, NamesOfStatus
<1>2. line \in Seq(Generation)
  BY DEF IInv, Others
<1>3. CASE Known(g)
  <2>1. row' = [row EXCEPT ![g] = Stored(row[g], t)] /\ line' = line
    BY <1>3 DEF Inserted
  <2> HIDE DEF t
  <2>2. QED
    BY <1>1, <1>2, <2>1, Puts
<1>4. CASE ~Known(g)
  <2>1. row' = [row EXCEPT ![g] = r] /\ line' = Append(line, g)
    BY <1>4 DEF Inserted
  <2> HIDE DEF t
  <2>2. r \in Row /\ r.task.status # "completed"
    BY <1>1 DEF Row
  <2> HIDE DEF r
  <2>3. Rows(row', library)
    BY <2>1, <2>2, RowsAreSet DEF IInv
  <2>4. line' \in Seq(Generation)
    BY <1>2, <2>1
  <2>5. QED
    BY <2>3, <2>4
<1>5. QED
  BY <1>3, <1>4

LEMMA FreshTask ==
    /\ [NoTask EXCEPT !.status = "queued"] \in Task
    /\ [NoTask EXCEPT !.status = "queued"].status = "queued"
BY NoTaskFacts, TaskIsSet, NamesOfStatus

LEMMA CreateKeeps ==
    ASSUME IInv, NEW i \in Instance, NEW g \in Generation, CreateLoads(i, g) \/ CreateAgain(i, g)
    PROVE  IInv'
<1>1. CASE CreateLoads(i, g)
  <2>1. Step(At("creating", g, NoTask), library) /\ At("creating", g, NoTask).op # "down"
    BY NoTaskFacts, StepIsAt
  <2>2. QED
    BY <1>1, <2>1, MovesOn DEF CreateLoads
<1>2. CASE CreateAgain(i, g)
  <2>1. Mems(mem')
    BY <1>2, RowsHold, MemIsSet DEF CreateAgain, IInv
  <2>2. /\ Rows(row', library) /\ Others' /\ library' = library /\ runner' = runner
        /\ LoopTo(i, Scheduling)
    BY <1>2 DEF CreateAgain, IInv, Others
  <2>3. QED
    BY <2>1, <2>2, RestingSteps, Moves
<1>3. QED
  BY <1>1, <1>2

LEMMA CreatePutsKeeps ==
    ASSUME IInv, NEW i \in Instance, NEW u \in User, CreatePuts(i, u)
    PROVE  IInv'
<1>1. loop[i].gen \in Generation
  BY Busy DEF CreatePuts
<1>2. Rows(row', library) /\ line' \in Seq(Generation)
  BY <1>1, Inserts DEF CreatePuts
<1>3. Mems(mem')
  BY <1>1, FreshTask, MemIsSet DEF CreatePuts, IInv
<1>4. Others' /\ library' = library /\ runner' = runner /\ LoopTo(i, Scheduling)
  BY <1>2 DEF CreatePuts, IInv, Others
<1>5. QED
  BY <1>2, <1>3, <1>4, RestingSteps, Moves

\* What a thread is in the middle of.
LEMMA BusyThread ==
    ASSUME IInv, NEW i \in Instance, NEW k \in Handoff
    PROVE  /\ thread[i][k] \in Serving /\ thread[i][k].task \in Task
           /\ thread[i][k].op \in {"found", "missing", "keeping"} =>
                  thread[i][k].gen \in Courseware /\ thread[i][k].gen \in Generation
<1>1. thread[i][k] \in Serving /\ Serves(thread[i][k])
  BY DEF IInv, Others, Threads
<1>2. \A l \in Serving : l.task \in Task
  BY DEF Serving
<1>3. QED
  BY <1>1, <1>2, ConstantsAssumption DEF Serves

LEMMA ThreadLoadsKeeps ==
    ASSUME IInv, NEW i \in Instance, NEW k \in Handoff, NEW g \in Generation, ThreadLoads(i, k, g)
    PROVE  IInv'
<1> DEFINE l == IF Known(g) THEN At("found", g, row[g].task) ELSE At("missing", g, NoTask)
<1>1. l \in Serving /\ Serves(l)
  BY RowsHold, NoTaskFacts, ServingAt DEF ThreadLoads
<1>2. ThreadTo(i, k, l) /\ UNCHANGED <<row, lease, line, library, loop, runner, mem, retries>>
  BY DEF ThreadLoads
<1> HIDE DEF l
<1>3. /\ Rows(row', library) /\ Mems(mem') /\ Runners(runner') /\ Downs(loop, runner')
      /\ lease' \in [Generation -> Int] /\ line' \in Seq(Generation)
  BY <1>2 DEF IInv, Others
<1>4. QED
  BY <1>1, <1>2, <1>3, ThreadMoves

LEMMA StoreFailsOffLoopKeeps ==
    ASSUME IInv, NEW i \in Instance, NEW k \in Handoff, StoreFailsOffLoop(i, k)
    PROVE  IInv'
<1>1. /\ ThreadTo(i, k, Served)
      /\ UNCHANGED <<row, lease, line, library, loop, runner, mem, retries>>
  BY DEF StoreFailsOffLoop
<1>2. /\ Rows(row', library) /\ Mems(mem') /\ Runners(runner') /\ Downs(loop, runner')
      /\ lease' \in [Generation -> Int] /\ line' \in Seq(Generation)
  BY <1>1 DEF IInv, Others
<1>3. QED
  BY <1>1, <1>2, RestingThreads, ThreadMoves

LEMMA ThreadFindsKeeps ==
    ASSUME IInv, NEW i \in Instance, NEW k \in Handoff, ThreadFinds(i, k)
    PROVE  IInv'
<1>1. thread[i][k].gen \in Generation /\ thread[i][k].task \in Task
  BY BusyThread DEF ThreadFinds
<1>2. Mems(mem')
  <2>1. mem' = mem \/ Remember(i, thread[i][k].gen, thread[i][k].task)
    BY DEF ThreadFinds
  <2>2. QED
    BY <1>1, <2>1, MemIsSet DEF IInv
<1>3. PICK l \in {Scheduling, Served} : ThreadTo(i, k, l)
  BY DEF ThreadFinds
<1>4. UNCHANGED <<row, lease, line, library, loop, runner, retries>>
  BY DEF ThreadFinds
<1>5. /\ Rows(row', library) /\ Runners(runner') /\ Downs(loop, runner')
      /\ lease' \in [Generation -> Int] /\ line' \in Seq(Generation)
  BY <1>4 DEF IInv, Others
<1>6. l \in Serving /\ Serves(l)
  BY RestingThreads
<1>7. QED
  BY <1>2, <1>3, <1>4, <1>5, <1>6, ThreadMoves

LEMMA ThreadPutsKeeps ==
    ASSUME IInv, NEW i \in Instance, NEW k \in Handoff, NEW u \in User, ThreadPuts(i, k, u)
    PROVE  IInv'
<1> DEFINE g == thread[i][k].gen
           l == At("keeping", g, [NoTask EXCEPT !.status = "queued"])
<1>1. g \in Generation /\ g \in Courseware
  BY BusyThread DEF ThreadPuts
<1>2. l \in Serving /\ Serves(l)
  BY <1>1, FreshTask, ServingAt
<1>3. Rows(row', library) /\ line' \in Seq(Generation)
  BY <1>1, Inserts DEF ThreadPuts
<1>4. ThreadTo(i, k, l) /\ UNCHANGED <<lease, library, loop, runner, mem, retries>>
  BY DEF ThreadPuts
<1> HIDE DEF g, l
<1>5. /\ Mems(mem') /\ Runners(runner') /\ Downs(loop, runner')
      /\ lease' \in [Generation -> Int]
  BY <1>4 DEF IInv, Others
<1>6. QED
  BY <1>2, <1>3, <1>4, <1>5, ThreadMoves

LEMMA ThreadKeepsKeeps ==
    ASSUME IInv, NEW i \in Instance, NEW k \in Handoff, ThreadKeeps(i, k)
    PROVE  IInv'
<1> DEFINE g == thread[i][k].gen
           x == [runner[i][g] EXCEPT !.known = FALSE]
<1>1. g \in Generation /\ thread[i][k].task \in Task
  BY BusyThread DEF ThreadKeeps
<1>2. Mems(mem')
  BY <1>1, MemIsSet DEF ThreadKeeps, IInv
<1>3. x \in Runner /\ Runs(x) /\ (runner[i][g] = NoRunner => x = NoRunner)
  BY <1>1, RunnersHold, RunnerFacts DEF Runs, Runner, NoRunner
<1>5. runner' = [runner EXCEPT ![i][g] = x]
  BY DEF ThreadKeeps
<1>6. ThreadTo(i, k, Scheduling) /\ UNCHANGED <<row, lease, line, library, loop, retries>>
  BY DEF ThreadKeeps
<1> HIDE DEF g, x
<1>7. Runners(runner')
  BY <1>1, <1>3, <1>5, RunnersAreSet DEF IInv
<1>8. Downs(loop, runner')
  <2>1. runner \in [Instance -> [Generation -> Runner]] /\ runner[i] \in [Generation -> Runner]
    BY DEF IInv, Runners
  <2>2. ASSUME NEW j \in Instance, loop[j] = Down, NEW h \in Generation
        PROVE  runner'[j][h] = NoRunner
    <3>1. runner[j][h] = NoRunner
      BY <2>2 DEF IInv, Downs
    <3>2. CASE j = i /\ h = g
      BY <1>1, <1>3, <1>5, <2>1, <3>1, <3>2
    <3>3. CASE ~(j = i /\ h = g)
      BY <1>5, <2>1, <3>1, <3>3
    <3>4. QED
      BY <3>2, <3>3
  <2>3. QED
    BY <2>2 DEF Downs
<1>9. Rows(row', library) /\ lease' \in [Generation -> Int] /\ line' \in Seq(Generation)
  BY <1>6 DEF IInv, Others
<1>10. QED
  BY <1>2, <1>6, <1>7, <1>8, <1>9, RestingThreads, ThreadMoves

LEMMA ThreadStepKeeps ==
    ASSUME IInv, NEW i \in Instance, NEW k \in Handoff, ThreadStep(i, k) \/ StoreFailsOffLoop(i, k)
    PROVE  IInv'
BY ThreadFindsKeeps, ThreadPutsKeeps, ThreadKeepsKeeps, ClaimNextOffLoopKeeps,
   StoreFailsOffLoopKeeps
DEF ThreadStep

LEMMA ViewKeeps ==
    ASSUME IInv, NEW i \in Instance, NEW g \in Generation, View(i, g)
    PROVE  IInv'
<1>1. Mems(mem')
  BY GetIsATask, MemIsSet DEF View, IInv
<1>2. QED
  BY <1>1 DEF View, IInv, Others

LEMMA CancelRequestedFacts ==
    ASSUME NEW t \in Task
    PROVE  /\ CancelRequested(t) \in Task
           /\ CancelRequested(t).status = "completed" => t.status = "completed"
<1>1. [t EXCEPT !.status = "cancelled", !.flag = TRUE] \in Task
  BY TaskGetsFlag, NamesOfStatus
<1>2. [t EXCEPT !.status = "cancelled", !.flag = TRUE].status = "cancelled"
  BY TaskGetsFlag, NamesOfStatus
<1>3. [t EXCEPT !.flag = TRUE] \in Task /\ [t EXCEPT !.flag = TRUE].status = t.status
  BY TaskGetsFlag, NamesOfStatus
<1>4. QED
  BY <1>1, <1>2, <1>3 DEF CancelRequested

LEMMA CancelKeeps ==
    ASSUME IInv, NEW i \in Instance, NEW g \in Generation, Cancel(i, g)
    PROVE  IInv'
<1> DEFINE t == CancelRequested(row[g].task)
           r == [row[g] EXCEPT !.task = t]
           x == CASE ~runner[i][g].known -> runner[i][g]
                  [] runner[i][g].at = "claimed" -> NoRunner
                  [] OTHER -> [runner[i][g] EXCEPT !.at = "stopping"]
<1>1. t \in Task /\ (t.status = "completed" => g \in library)
  BY RowsHold, CancelRequestedFacts
<1>2. r \in Row /\ r.task = t
  <2> HIDE DEF t
  <2>1. QED
    BY <1>1, RowsHold, RowGetsTask
<1>3. row' = [row EXCEPT ![g] = r] /\ row'[g] = r
  BY DEF Cancel, IInv, Rows
<1>4. x \in Runner /\ Runs(x)
  BY RunnersHold, RunnerFacts DEF Runs, Runner
<1>5. runner' = [runner EXCEPT ![i][g] = x]
  BY DEF Cancel
<1>6. Remember(i, g, row'[g].task)
  BY DEF Cancel
<1>7. Others' /\ library' = library /\ loop' = loop /\ loop[i] = Idle
  BY DEF Cancel, IInv, Others
<1> HIDE DEF t, r, x
<1>8. Rows(row', library) /\ Mems(mem')
  BY <1>1, <1>2, <1>3, <1>6, RowsAreSet, MemIsSet DEF IInv
<1>9. LoopTo(i, Idle)
  BY <1>7, Stays
<1>10. QED
  BY <1>4, <1>5, <1>7, <1>8, <1>9, RestingSteps, RunnerMoves

\* A request reads a task, keeps t in memory and goes on to op.
LEMMA Reads ==
    ASSUME IInv, NEW i \in Instance, NEW g \in Generation, NEW t \in Task,
           NEW op \in {"requeueing", "confirming", "discarding"},
           t.status = "completed" => op = "confirming",
           Remember(i, g, t), LoopTo(i, At(op, g, t)),
           retries' \in [Generation -> 0..MaxRetries],
           UNCHANGED <<row, lease, line, library, thread, runner>>
    PROVE  IInv'
<1>1. Step(At(op, g, t), library) /\ At(op, g, t).op # "down"
  BY StepIsAt
<1>2. Rows(row', library) /\ Mems(mem') /\ Others'
  BY MemIsSet DEF IInv, Others
<1>3. QED
  BY <1>1, <1>2, Moves

LEMMA RequestReadsKeeps ==
    ASSUME IInv, NEW i \in Instance, NEW g \in Generation,
           RetryReads(i, g) \/ ConfirmReads(i, g) \/ DiscardReads(i, g)
    PROVE  IInv'
<1>1. Get(i, g) \in Task
  BY GetIsATask
<1>2. retries \in [Generation -> 0..MaxRetries] /\ MaxRetries \in Nat
  BY ConstantsAssumption DEF IInv, Others
<1>3. CASE RetryReads(i, g)
  <2> DEFINE old == Get(i, g)
             t == [status |-> "queued", flag |-> FALSE, code |-> "none",
                   result |-> IF old.status = "needs_review" THEN "none" ELSE old.result]
  <2>1. t \in Task /\ t.status = "queued"
    BY <1>1 DEF Task, Status
  <2>2. retries' \in [Generation -> 0..MaxRetries]
    <3>1. retries[g] + 1 \in 0..MaxRetries
      BY <1>2, <1>3 DEF RetryReads
    <3>2. QED
      BY <1>2, <1>3, <3>1 DEF RetryReads
  <2>3. /\ Remember(i, g, t) /\ LoopTo(i, At("requeueing", g, t))
        /\ UNCHANGED <<row, lease, line, library, thread, runner>>
    BY <1>3 DEF RetryReads
  <2> HIDE DEF t
  <2>4. QED
    BY <2>1, <2>2, <2>3, Reads
<1>4. CASE ConfirmReads(i, g)
  <2> DEFINE t == [Get(i, g) EXCEPT !.status = "completed", !.result = "final"]
  <2>1. t \in Task
    BY <1>1, TaskGetsResult, NamesOfStatus
  <2>2. /\ Remember(i, g, t) /\ LoopTo(i, At("confirming", g, t))
        /\ UNCHANGED <<row, lease, line, library, thread, runner>>
    BY <1>4 DEF ConfirmReads
  <2>3. retries' \in [Generation -> 0..MaxRetries]
    BY <1>2, <1>4 DEF ConfirmReads
  <2> HIDE DEF t
  <2>4. QED
    BY <2>1, <2>2, <2>3, Reads
<1>5. CASE DiscardReads(i, g)
  <2> DEFINE t == [Get(i, g) EXCEPT !.status = "discarded"]
  <2>1. t \in Task /\ t.status = "discarded"
    BY <1>1, TaskIsSet, NamesOfStatus
  <2>2. /\ Remember(i, g, t) /\ LoopTo(i, At("discarding", g, t))
        /\ UNCHANGED <<row, lease, line, library, thread, runner>>
    BY <1>5 DEF DiscardReads
  <2>3. retries' \in [Generation -> 0..MaxRetries]
    BY <1>2, <1>5 DEF DiscardReads
  <2> HIDE DEF t
  <2>4. QED
    BY <2>1, <2>2, <2>3, Reads
<1>6. QED
  BY <1>3, <1>4, <1>5

LEMMA RequestPutsKeeps ==
    ASSUME IInv, NEW i \in Instance, RetryPuts(i) \/ RetryClears(i) \/ ReviewPuts(i)
    PROVE  IInv'
<1> DEFINE g == loop[i].gen
           t == loop[i].task
<1>1. g \in Generation /\ t \in Task /\ (t.status = "completed" => g \in library)
  BY Busy DEF RetryPuts, RetryClears, ReviewPuts
<1>2. Mems(mem') /\ Others' /\ library' = library /\ runner' = runner
  BY DEF RetryPuts, RetryClears, ReviewPuts, IInv, Others
<1>3. CASE RetryPuts(i)
  <2>1. Rows(row', library)
    BY <1>1, <1>3, Puts DEF RetryPuts
  <2>2. LoopTo(i, At("clearing", g, t))
    BY <1>3 DEF RetryPuts
  <2> HIDE DEF g, t
  <2>3. Step(At("clearing", g, t), library) /\ At("clearing", g, t).op # "down"
    BY <1>1, StepIsAt
  <2>4. QED
    BY <1>2, <2>1, <2>2, <2>3, Moves
<1>4. CASE RetryClears(i)
  <2> DEFINE u == [row[g].task EXCEPT !.flag = FALSE]
             r == [row[g] EXCEPT !.task = u]
  <2>1. u \in Task /\ u.status = row[g].task.status
    BY <1>1, RowsHold, TaskGetsFlag, NamesOfStatus
  <2>2. row' = [row EXCEPT ![g] = r]
    BY <1>1, <1>4, RowsHold DEF RetryClears, Row, IInv, Rows
  <2>3. r \in Row /\ r.task = u
    <3> HIDE DEF u
    <3>1. QED
      BY <1>1, <2>1, RowsHold, RowGetsTask
  <2>4. Rows(row', library)
    <3>1. r.task.status = "completed" => g \in library
      BY <1>1, <2>1, <2>3, RowsHold
    <3> HIDE DEF r, u
    <3>2. QED
      BY <1>1, <2>2, <2>3, <3>1, RowsAreSet DEF IInv
  <2>5. LoopTo(i, Scheduling)
    BY <1>4 DEF RetryClears
  <2>6. QED
    BY <1>2, <2>4, <2>5, RestingSteps, Moves
<1>5. CASE ReviewPuts(i)
  <2>1. Rows(row', library)
    BY <1>1, <1>5, Puts DEF ReviewPuts
  <2>2. QED
    BY <1>2, <1>5, <2>1, RestingSteps, Moves DEF ReviewPuts
<1>6. QED
  BY <1>3, <1>4, <1>5

LEMMA TimeKeeps ==
    ASSUME IInv, Tick \/ \E i \in Instance, g \in Generation : Renew(i, g)
    PROVE  IInv'
<1>1. LeaseTicks \in Int /\ lease \in [Generation -> Int]
  BY ConstantsAssumption DEF IInv, Others
<1>2. lease' \in [Generation -> Int]
  BY <1>1 DEF Tick, Renew
<1>3. UNCHANGED <<row, line, library, loop, runner, mem, thread, retries>>
  BY DEF Tick, Renew
<1>4. QED
  BY <1>2, <1>3 DEF IInv, Others

-----------------------------------------------------------------------------
(* The theorems. *)

LEMMA InitialInvariant == Init => IInv
<1> SUFFICES ASSUME Init PROVE IInv
  OBVIOUS
<1>1. Absent \in Row /\ Absent.task.status # "completed"
  BY NoTaskFacts DEF Absent, Row
<1>2. Rows(row, library)
  BY <1>1 DEF Init, Rows
<1>3. Down \in Doing
  BY NoTaskFacts DEF Down, At, Doing
<1>4. Loops(loop, library)
  BY <1>3, RestingSteps DEF Init, Loops
<1>5. Runners(runner) /\ Downs(loop, runner)
  BY RunnerFacts DEF Init, Runners, Downs
<1>6. Mems(mem) /\ Others
  BY NoTaskFacts, RestingThreads, ConstantsAssumption DEF Init, Mems, Others, Threads
<1>7. QED
  BY <1>2, <1>4, <1>5, <1>6 DEF IInv

LEMMA StepKeepsInvariant == IInv /\ [Next]_vars => IInv'
<1> SUFFICES ASSUME IInv, [Next]_vars PROVE IInv'
  OBVIOUS
<1>1. ASSUME NEW i \in Instance, LoopStep(i)
      PROVE  IInv'
  BY <1>1, StartKeeps, ClaimNextKeeps, CreatePutsKeeps, PersistRunKeeps, SaveGenerationKeeps,
     FinalizeKeeps, RequestPutsKeeps DEF LoopStep
<1>2. ASSUME NEW i \in Instance, NEW g \in Generation, UserStep(i, g)
      PROVE  IInv'
  BY <1>2, CreateKeeps, ThreadLoadsKeeps, ViewKeeps, CancelKeeps, RequestReadsKeeps
  DEF UserStep
<1>3. CASE UNCHANGED vars
  BY <1>3 DEF vars, IInv, Others
<1>4. QED
  BY <1>1, <1>2, <1>3, StartKeeps, CrashKeeps, StoreFailsKeeps, ThreadStepKeeps, RunnerStepKeeps,
     TimeKeeps
  DEF Next

\* The strengthening is an invariant.
THEOREM Invariance == Spec => []IInv
<1>1. QED
  BY InitialInvariant, StepKeepsInvariant, PTL DEF Spec

\* Every variable keeps its shape, and a process that is down has no runners.
THEOREM TypeCorrect == Spec => []TypeOK
<1>1. IInv => TypeOK
  BY InvariantImplies
<1>2. QED
  BY <1>1, Invariance, PTL

\* A generation shown as completed has its artifact in the library: both ways to the
\* completed status, _run and confirm_review, save the artifact first, and no put that
\* is overtaken, repeated or made from a stale copy changes that.
THEOREM CompletionsAreSaved == Spec => []CompletedIsSaved
<1>1. IInv => CompletedIsSaved
  BY InvariantImplies
<1>2. QED
  BY <1>1, Invariance, PTL

-----------------------------------------------------------------------------
(* What the actions do, generation by generation. *)

\* The loop of i goes on to l, the others stay.
LoopGoes(i, l) == loop'[i] = l /\ \A j \in Instance : j # i => loop'[j] = loop[j]

RunnersBut(i, g) ==
    \A j \in Instance, h \in Generation : j # i \/ h # g => runner'[j][h] = runner[j][h]

MemBut(i, g) ==
    \A j \in Instance, h \in Generation : j # i \/ h # g => mem'[j][h] = mem[j][h]

RowsBut(g) == \A h \in Generation : h # g => row'[h] = row[h]

\* The status and the holder of g in the next state; its owner stays.
RowGoes(g, status, holder) ==
    /\ row'[g].task.status = status
    /\ row'[g].holder = holder
    /\ row'[g].owner = row[g].owner

\* The lease of g is found lapsed, or missing.
RowLost(g) ==
    /\ Is(g, "running")
    /\ row[g].holder = None \/ lease[g] < 0
    /\ RowGoes(g, "interrupted", None)

RowsSwept(S) ==
    \A h \in S : (row'[h] = row[h] /\ lease'[h] = lease[h]) \/ RowLost(h)

LeasesBut(g) == \A h \in Generation : h # g => lease'[h] = lease[h]

LEMMA LoopActs ==
    ASSUME IInv, NEW i \in Instance, NEW l, LoopTo(i, l)
    PROVE  LoopGoes(i, l)
BY DEF IInv, Loops, LoopTo, LoopGoes

LEMMA MemActs ==
    ASSUME IInv, NEW i \in Instance, NEW g \in Generation, NEW t, Remember(i, g, t)
    PROVE  mem'[i][g] = t /\ MemBut(i, g)
<1>1. mem \in [Instance -> [Generation -> Task]] /\ mem[i] \in [Generation -> Task]
  BY DEF IInv, Mems
<1> DEFINE f == [mem[i] EXCEPT ![g] = t]
<1>2. mem' = [mem EXCEPT ![i] = f]
  BY <1>1 DEF Remember
<1>3. f[g] = t /\ \A h \in Generation : h # g => f[h] = mem[i][h]
  BY <1>1
<1> HIDE DEF f
<1>4. mem'[i] = f /\ \A j \in Instance : j # i => mem'[j] = mem[j]
  BY <1>1, <1>2
<1>5. QED
  BY <1>3, <1>4 DEF MemBut

LEMMA RunnerActs ==
    ASSUME IInv, NEW i \in Instance, NEW g \in Generation, NEW x,
           runner' = [runner EXCEPT ![i][g] = x]
    PROVE  runner'[i][g] = x /\ RunnersBut(i, g)
<1>1. runner \in [Instance -> [Generation -> Runner]] /\ runner[i] \in [Generation -> Runner]
  BY DEF IInv, Runners
<1> DEFINE f == [runner[i] EXCEPT ![g] = x]
<1>2. runner' = [runner EXCEPT ![i] = f]
  BY <1>1
<1>3. f[g] = x /\ \A h \in Generation : h # g => f[h] = runner[i][h]
  BY <1>1
<1> HIDE DEF f
<1>4. runner'[i] = f /\ \A j \in Instance : j # i => runner'[j] = runner[j]
  BY <1>1, <1>2
<1>5. QED
  BY <1>3, <1>4 DEF RunnersBut

\* One row is replaced.
LEMMA RowActs ==
    ASSUME IInv, NEW g \in Generation, NEW r, row' = [row EXCEPT ![g] = r]
    PROVE  row'[g] = r /\ RowsBut(g)
BY DEF IInv, Rows, RowsBut

\* A put keeps the lease and the owner of its row.
LEMMA PutActs ==
    ASSUME IInv, NEW g \in Generation, NEW t \in Task,
           row' = [row EXCEPT ![g] = Stored(row[g], t)]
    PROVE  RowGoes(g, t.status, row[g].holder) /\ RowsBut(g)
<1>1. row'[g] = Stored(row[g], t) /\ RowsBut(g)
  BY RowActs
<1>2. row[g] \in Row
  BY RowsHold
<1>3. Stored(row[g], t).task.status = t.status
  BY <1>2, RowIsStored
<1>4. /\ Stored(row[g], t).holder = row[g].holder
      /\ Stored(row[g], t).owner = row[g].owner
  BY <1>2 DEF Stored, Row
<1>5. QED
  BY <1>1, <1>3, <1>4 DEF RowGoes

\* An interrupted row loses its lease.
LEMMA InterruptedRow ==
    ASSUME IInv, NEW S, NEW g \in Generation
    PROVE  /\ g \notin S => Interrupted(S)[g] = row[g]
           /\ g \in S => /\ Interrupted(S)[g].task.status = "interrupted"
                         /\ Interrupted(S)[g].holder = None
                         /\ Interrupted(S)[g].owner = row[g].owner
BY RowsHold DEF Interrupted, Row, Task

LEMMA SweptRow ==
    ASSUME IInv, NEW d \in 0..Lag, NEW g \in Generation
    PROVE  \/ Swept(d)[g] = row[g] /\ LeasesWithout(Lapsed(d))[g] = lease[g]
           \/ /\ Is(g, "running") /\ lease[g] < 0
              /\ Swept(d)[g].task.status = "interrupted"
              /\ Swept(d)[g].holder = None
              /\ Swept(d)[g].owner = row[g].owner
<1>1. g \in Lapsed(d) => Is(g, "running") /\ lease[g] < 0
  BY ConstantsAssumption DEF Lapsed, IInv, Others
<1>2. g \notin Lapsed(d) => LeasesWithout(Lapsed(d))[g] = lease[g]
  BY DEF LeasesWithout
<1>3. QED
  BY <1>1, <1>2, InterruptedRow DEF Swept

LEMMA StartActs ==
    ASSUME IInv, NEW i \in Instance, Start(i)
    PROVE  /\ RowsSwept(Generation) /\ LoopGoes(i, Scheduling)
           /\ UNCHANGED <<runner, mem, retries>>
<1>1. RowsSwept(Generation)
  BY InterruptedRow DEF Start, RowsSwept, RowLost, RowGoes, LeasesWithout
<1>2. QED
  BY <1>1, LoopActs DEF Start

LEMMA NothingActs ==
    ASSUME IInv, NEW i \in Instance, NEW d \in 0..Lag, NothingToClaim(i, d)
    PROVE  RowsSwept(Generation)
BY SweptRow DEF NothingToClaim, RowsSwept, RowLost, RowGoes

LEMMA ClaimActs ==
    ASSUME IInv, NEW i \in Instance, NEW d \in 0..Lag, NEW g \in Generation, Claims(i, d, g)
    PROVE  /\ Is(g, "queued") /\ RowGoes(g, "running", i)
           /\ RowsSwept(Generation \ {g})
           /\ lease'[g] >= 0
           /\ mem'[i][g].status = "running" /\ MemBut(i, g)
           /\ Fits(i, Swept(d), g) /\ Swept(d)[g] = row[g]
           /\ \A h \in Generation : h # g => row'[h] = Swept(d)[h]
<1> DEFINE t == IF mem[i][g] = NoTask THEN Swept(d)[g].task ELSE mem[i][g]
<1>1. Swept(d)[g].task.status = "queued" /\ Fits(i, Swept(d), g)
  BY DEF Claims, Ready
<1>2. Swept(d)[g] = row[g] /\ Is(g, "queued")
  BY <1>1, SweptRow DEF Is
<1>3. Swept(d) \in [Generation -> Row]
  BY RowsAreInterrupted DEF IInv, Swept, Rows
<1>4. row' = [Swept(d) EXCEPT ![g].task.status = "running", ![g].holder = i]
  BY DEF Claims
<1>5. RowGoes(g, "running", i)
  BY <1>2, <1>3, <1>4 DEF RowGoes, Row, Task
<1>6. \A h \in Generation : h # g => row'[h] = Swept(d)[h]
  BY <1>3, <1>4
<1>7. RowsSwept(Generation \ {g})
  <2>1. \A h \in Generation : h # g => lease'[h] = LeasesWithout(Lapsed(d))[h]
    BY LeasesAreGivenUp DEF Claims
  <2>2. QED
    BY <1>6, <2>1, SweptRow DEF RowsSwept, RowLost, RowGoes
<1>8. lease'[g] >= 0
  BY ConstantsAssumption, LeasesAreGivenUp DEF Claims
<1>9. mem'[i][g].status = "running"
  BY ClaimFacts
<1>10. MemBut(i, g)
  <2>1. Remember(i, g, [t EXCEPT !.status = "running"])
    BY DEF Claims
  <2> HIDE DEF t
  <2>2. QED
    BY <2>1, MemActs
<1>11. QED
  BY <1>1, <1>2, <1>5, <1>6, <1>7, <1>8, <1>9, <1>10

\* A runner is started with the object that the claim left in memory.
LEMMA ClaimNextActs ==
    ASSUME IInv, NEW i \in Instance, NEW d \in 0..Lag, ClaimNext(i, d)
    PROVE  /\ loop[i] = Scheduling /\ UNCHANGED retries
           /\ \/ /\ RowsSwept(Generation) /\ LoopGoes(i, Idle)
                 /\ UNCHANGED <<runner, mem>>
              \/ \E g \in Generation :
                    /\ ~Alive(i, g) /\ Claims(i, d, g) /\ loop' = loop
                    /\ runner'[i][g].at = "claimed" /\ runner'[i][g].known = TRUE
                    /\ runner'[i][g].task.status = "running"
                    /\ RunnersBut(i, g)
<1>1. CASE NothingToClaim(i, d) /\ LoopTo(i, Idle) /\ UNCHANGED <<runner, mem>>
  BY <1>1, NothingActs, LoopActs DEF ClaimNext
<1>2. ASSUME NEW g \in Generation, ~Alive(i, g), Claims(i, d, g),
             runner' = [runner EXCEPT ![i][g] = [at |-> "claimed", task |-> mem'[i][g], known |-> TRUE]],
             UNCHANGED loop
      PROVE  /\ runner'[i][g].at = "claimed" /\ runner'[i][g].known = TRUE
             /\ runner'[i][g].task.status = "running"
             /\ RunnersBut(i, g)
  <2> DEFINE x == [at |-> "claimed", task |-> mem'[i][g], known |-> TRUE]
  <2>1. x.at = "claimed" /\ x.known = TRUE /\ x.task.status = "running"
    BY <1>2, ClaimFacts
  <2>2. runner' = [runner EXCEPT ![i][g] = x]
    BY <1>2
  <2> HIDE DEF x
  <2>3. runner'[i][g] = x /\ RunnersBut(i, g)
    BY <2>2, RunnerActs
  <2>4. QED
    BY <2>1, <2>3
<1>3. QED
  BY <1>1, <1>2 DEF ClaimNext

LEMMA CrashActs ==
    ASSUME IInv, NEW i \in Instance, Crash(i)
    PROVE  /\ LoopGoes(i, Down) /\ UNCHANGED <<lease, retries>>
           /\ \A g \in Generation : runner'[i][g] = NoRunner
           /\ \A j \in Instance, g \in Generation :
                 j # i => runner'[j][g] = runner[j][g] /\ mem'[j][g] = mem[j][g]
           /\ \A g \in Generation :
                 /\ row[g].holder # i => row'[g] = row[g]
                 /\ row[g].holder = i => RowGoes(g, row[g].task.status, Gone)
<1>1. LoopGoes(i, Down)
  BY LoopActs DEF Crash
<1>2. \A g \in Generation : runner'[i][g] = NoRunner
  BY DEF Crash, IInv, Runners
<1>3. \A j \in Instance, g \in Generation :
         j # i => runner'[j][g] = runner[j][g] /\ mem'[j][g] = mem[j][g]
  BY DEF Crash, IInv, Runners, Mems
<1>4. \A g \in Generation :
         /\ row[g].holder # i => row'[g] = row[g]
         /\ row[g].holder = i => row'[g] = [row[g] EXCEPT !.holder = Gone]
  BY DEF Crash
<1>5. \A g \in Generation : row[g].holder = i => RowGoes(g, row[g].task.status, Gone)
  BY <1>4, RowsHold DEF Row, RowGoes
<1>6. QED
  BY <1>1, <1>2, <1>3, <1>4, <1>5 DEF Crash
LEMMA RunnerStepActs ==
    ASSUME IInv, Tasks, NEW i \in Instance, NEW g \in Generation, RunnerStep(i, g)
    PROVE  /\ loop[i] = Idle /\ runner[i][g].at \in {"claimed", "waiting", "stopping"}
           /\ UNCHANGED <<row, lease, runner, mem, retries>>
           /\ \E op \in {"persisting", "saving", "finalizing"}, u \in Task :
                 /\ LoopGoes(i, At(op, g, u))
                 /\ op = "persisting" => runner[i][g].at = "claimed"
                 /\ op \in {"persisting", "saving"} => u.status = "running"
                 /\ op = "finalizing" => u.status \in Settled
<1> DEFINE t == runner[i][g].task
           To(op, u) == LoopTo(i, At(op, g, u))
<1>1. /\ loop[i] = Idle /\ runner[i][g].at \in {"claimed", "waiting", "stopping"}
      /\ UNCHANGED <<row, lease, runner, mem, retries>>
  BY DEF RunnerStep, RunBegins, ProviderReturns, ProviderFails, Stops
<1>2. t \in Task /\ t.status = "running"
  BY <1>1, RunnersHold DEF Tasks, Alive, NoRunner
<1>3. LET u == [t EXCEPT !.status = "cancelled"] IN u \in Task /\ u.status \in Settled
  BY <1>2, TaskIsSet, NamesOfStatus DEF Settled
<1>4. LET u == [t EXCEPT !.status = "needs_review", !.result = "draft"] IN
      u \in Task /\ u.status \in Settled
  BY <1>2, TaskGetsResult, NamesOfStatus DEF Settled
<1>5. ASSUME NEW code \in {"none", "configuration"}
      PROVE  LET u == [t EXCEPT !.status = "failed", !.code = code] IN
             u \in Task /\ u.status \in Settled
  <2> DEFINE u == [t EXCEPT !.status = "failed", !.code = code]
  <2>1. "failed" \in Status
    BY NamesOfStatus
  <2>2. u \in Task
    BY <1>2, <2>1, TaskGetsCode
  <2>3. u.status = "failed"
    BY <1>2 DEF Task
  <2>4. QED
    BY <2>2, <2>3 DEF Settled
<1>6. \/ To("persisting", t) /\ runner[i][g].at = "claimed"
      \/ To("saving", t)
      \/ To("finalizing", [t EXCEPT !.status = "cancelled"])
      \/ To("finalizing", [t EXCEPT !.status = "needs_review", !.result = "draft"])
      \/ \E code \in {"none", "configuration"} :
            To("finalizing", [t EXCEPT !.status = "failed", !.code = code])
  BY DEF RunnerStep, RunBegins, ProviderReturns, ProviderFails, Stops
<1> HIDE DEF t
<1>7. \E op \in {"persisting", "saving", "finalizing"}, u \in Task :
         /\ To(op, u)
         /\ op = "persisting" => runner[i][g].at = "claimed"
         /\ op \in {"persisting", "saving"} => u.status = "running"
         /\ op = "finalizing" => u.status \in Settled
  <2> HIDE DEF To
  <2>1. QED
    BY <1>2, <1>3, <1>4, <1>5, <1>6
<1>8. QED
  BY <1>1, <1>7, LoopActs

LEMMA PersistRunActs ==
    ASSUME IInv, NEW i \in Instance, PersistRun(i)
    PROVE  LET g == loop[i].gen IN
           /\ g \in Generation /\ LoopGoes(i, Idle) /\ UNCHANGED <<lease, mem, retries>>
           /\ runner'[i][g].at = "waiting" /\ runner'[i][g].task = runner[i][g].task
           /\ runner'[i][g].known = runner[i][g].known
           /\ RunnersBut(i, g)
           /\ RowGoes(g, loop[i].task.status, row[g].holder) /\ RowsBut(g)
<1> DEFINE g == loop[i].gen
           x == [runner[i][g] EXCEPT !.at = "waiting"]
<1>1. g \in Generation /\ loop[i].task \in Task
  BY Busy DEF PersistRun
<1>2. runner' = [runner EXCEPT ![i][g] = x]
  BY DEF PersistRun
<1>3. x.at = "waiting" /\ x.task = runner[i][g].task /\ x.known = runner[i][g].known
  BY <1>1, RunnersHold, RunnerFacts DEF Runner
<1>4. LoopGoes(i, Idle) /\ UNCHANGED <<lease, mem, retries>>
  BY LoopActs DEF PersistRun
<1>5. RowGoes(g, loop[i].task.status, row[g].holder) /\ RowsBut(g)
  BY <1>1, PutActs DEF PersistRun
<1> HIDE DEF g, x
<1>6. runner'[i][g] = x /\ RunnersBut(i, g)
  BY <1>1, <1>2, RunnerActs
<1>7. QED
  BY <1>1, <1>3, <1>4, <1>5, <1>6 DEF g

LEMMA SaveActs ==
    ASSUME IInv, NEW i \in Instance, SaveGeneration(i) \/ ConfirmSaves(i)
    PROVE  /\ UNCHANGED <<row, lease, runner, mem, retries>>
           /\ loop[i].gen \in Generation
           /\ \E t \in Task :
                 /\ t.status = IF loop[i].op = "saving" THEN "completed" ELSE loop[i].task.status
                 /\ \/ loop[i].op = "saving" /\ LoopGoes(i, At("finalizing", loop[i].gen, t))
                    \/ loop[i].op = "confirming" /\ LoopGoes(i, At("releasing", loop[i].gen, t))
<1>1. loop[i].gen \in Generation /\ loop[i].task \in Task
  BY Busy DEF SaveGeneration, ConfirmSaves
<1>2. CASE SaveGeneration(i)
  <2> DEFINE t == [loop[i].task EXCEPT !.status = "completed", !.result = "final"]
  <2>1. t \in Task /\ t.status = "completed"
    BY <1>1, TaskGetsResult, NamesOfStatus
  <2>2. LoopTo(i, At("finalizing", loop[i].gen, t))
    BY <1>2 DEF SaveGeneration
  <2>3. loop[i].op = "saving" /\ UNCHANGED <<row, lease, runner, mem, retries>>
    BY <1>2 DEF SaveGeneration
  <2> HIDE DEF t
  <2>4. QED
    BY <1>1, <2>1, <2>2, <2>3, LoopActs
<1>3. CASE ConfirmSaves(i)
  BY <1>1, <1>3, LoopActs DEF ConfirmSaves
<1>4. QED
  BY <1>2, <1>3

LEMMA FinalizeActs ==
    ASSUME IInv, Tasks, NEW i \in Instance, Finalize(i)
    PROVE  LET g == loop[i].gen IN
           /\ g \in Generation /\ LoopGoes(i, Scheduling)
           /\ LeasesBut(g) /\ UNCHANGED retries
           /\ runner'[i][g] = NoRunner /\ RunnersBut(i, g) /\ MemBut(i, g)
           /\ row'[g].task.status \in Settled /\ row'[g].holder = None
           /\ row'[g].owner = row[g].owner /\ RowsBut(g)
<1> DEFINE g == loop[i].gen
           t == Outcome(g, loop[i].task)
           r == [row[g] EXCEPT !.task = t, !.holder = None]
<1>1. g \in Generation /\ loop[i].task \in Task /\ loop[i].task.status \in Settled
  BY Busy DEF Finalize, Tasks, TaskFits
<1>2. t \in Task /\ t.status \in Settled
  <2>1. [loop[i].task EXCEPT !.status = "cancelled", !.flag = TRUE] \in Task
    BY <1>1, TaskGetsFlag, NamesOfStatus
  <2>2. [loop[i].task EXCEPT !.status = "cancelled", !.flag = TRUE].status = "cancelled"
    BY <1>1, TaskGetsFlag, NamesOfStatus
  <2>3. QED
    BY <1>1, <2>1, <2>2 DEF Outcome, Settled
<1>3. LoopGoes(i, Scheduling) /\ LeasesBut(g) /\ UNCHANGED retries
  BY LoopActs DEF Finalize, LeasesBut, LeasesWithout
<1>4. runner' = [runner EXCEPT ![i][g] = NoRunner] /\ row' = [row EXCEPT ![g] = r]
  BY DEF Finalize
<1>5. mem' = mem \/ Remember(i, g, t)
  BY DEF Finalize
<1>6. r.task = t /\ r.holder = None /\ r.owner = row[g].owner
  BY <1>1, RowsHold DEF Row
<1> HIDE DEF g, t, r
<1>7. row'[g] = r /\ RowsBut(g)
  BY <1>1, <1>4, RowActs
<1>8. runner'[i][g] = NoRunner /\ RunnersBut(i, g)
  BY <1>1, <1>4, RunnerActs
<1>9. MemBut(i, g)
  <2>1. CASE mem' = mem
    BY <2>1 DEF MemBut
  <2>2. CASE Remember(i, g, t)
    BY <1>1, <2>2, MemActs
  <2>3. QED
    BY <1>5, <2>1, <2>2
<1>10. QED
  BY <1>1, <1>2, <1>3, <1>6, <1>7, <1>8, <1>9 DEF g

LEMMA StoreFailsActs ==
    ASSUME IInv, NEW i \in Instance, StoreFails(i)
    PROVE  /\ UNCHANGED <<row, lease, mem, retries>>
           /\ \/ /\ loop[i].op \in {"persisting", "saving"} /\ runner' = runner
                 /\ \E t \in Task : /\ t.status = "failed"
                                    /\ LoopGoes(i, At("finalizing", loop[i].gen, t))
              \/ /\ loop[i].op = "finalizing" /\ LoopGoes(i, Idle)
                 /\ loop[i].gen \in Generation
                 /\ runner'[i][loop[i].gen] = NoRunner /\ RunnersBut(i, loop[i].gen)
              \/ LoopGoes(i, Idle) /\ runner' = runner
<1> DEFINE g == loop[i].gen
<1>1. UNCHANGED <<row, lease, mem, retries>>
  BY DEF StoreFails
<1>2. CASE loop[i].op \in {"persisting", "saving"}
  <2> DEFINE t == [loop[i].task EXCEPT !.status = "failed"]
  <2>1. t \in Task /\ t.status = "failed"
    BY <1>2, Busy, TaskIsSet, NamesOfStatus
  <2>2. LoopTo(i, At("finalizing", g, t)) /\ runner' = runner
    BY <1>2 DEF StoreFails
  <2> HIDE DEF t
  <2>3. QED
    BY <1>1, <1>2, <2>1, <2>2, LoopActs
<1>3. CASE loop[i].op = "finalizing"
  <2>1. LoopTo(i, Idle) /\ runner' = [runner EXCEPT ![i][g] = NoRunner] /\ g \in Generation
    BY <1>3, Busy DEF StoreFails
  <2>2. LoopGoes(i, Idle)
    BY <2>1, LoopActs
  <2> HIDE DEF g
  <2>3. runner'[i][g] = NoRunner /\ RunnersBut(i, g)
    BY <2>1, RunnerActs
  <2>4. QED
    BY <1>1, <1>3, <2>1, <2>2, <2>3 DEF g
<1>4. CASE loop[i].op \notin {"persisting", "saving", "finalizing"}
  <2>1. LoopTo(i, Idle) /\ runner' = runner
    BY <1>4 DEF StoreFails
  <2>2. QED
    BY <1>1, <2>1, LoopActs
<1>5. QED
  BY <1>2, <1>3, <1>4

LEMMA InsertActs ==
    ASSUME IInv, NEW g \in Generation, NEW u \in User, Inserted(g, u)
    PROVE  /\ RowsBut(g) /\ row'[g].task.status = "queued"
           /\ Known(g) => row'[g].holder = row[g].holder /\ row'[g].owner = row[g].owner
           /\ ~Known(g) => row'[g].holder = None
<1> DEFINE t == [NoTask EXCEPT !.status = "queued"]
<1>1. t \in Task /\ t.status = "queued"
  BY FreshTask
<1>2. CASE Known(g)
  <2>1. row' = [row EXCEPT ![g] = Stored(row[g], t)]
    BY <1>2 DEF Inserted
  <2> HIDE DEF t
  <2>2. QED
    BY <1>1, <1>2, <2>1, PutActs DEF RowGoes
<1>3. CASE ~Known(g)
  <2> DEFINE r == [task |-> t, owner |-> u, holder |-> None]
  <2>1. row' = [row EXCEPT ![g] = r]
    BY <1>3 DEF Inserted
  <2>2. r.task.status = "queued" /\ r.holder = None
    BY <1>1
  <2> HIDE DEF t, r
  <2>3. QED
    BY <1>3, <2>1, <2>2, RowActs
<1>4. QED
  BY <1>2, <1>3

LEMMA CreatePutsActs ==
    ASSUME IInv, NEW i \in Instance, NEW u \in User, CreatePuts(i, u)
    PROVE  LET g == loop[i].gen IN
           /\ g \in Generation /\ LoopGoes(i, Scheduling)
           /\ UNCHANGED <<lease, runner, retries>>
           /\ MemBut(i, g) /\ RowsBut(g)
           /\ row'[g].task.status = "queued"
           /\ Known(g) => row'[g].holder = row[g].holder /\ row'[g].owner = row[g].owner
           /\ ~Known(g) => row'[g].holder = None
<1>1. loop[i].gen \in Generation
  BY Busy DEF CreatePuts
<1>2. MemBut(i, loop[i].gen)
  BY <1>1, MemActs DEF CreatePuts
<1>3. QED
  BY <1>1, <1>2, InsertActs, LoopActs DEF CreatePuts

LEMMA CreateLoadsActs ==
    ASSUME IInv, NEW i \in Instance, NEW g \in Generation, CreateLoads(i, g)
    PROVE  /\ loop[i] = Idle /\ ~Known(g) /\ LoopGoes(i, At("creating", g, NoTask))
           /\ g \notin Courseware
           /\ g \in Derived \/ \A j \in Instance : loop[j].gen # g
           /\ UNCHANGED <<row, lease, runner, mem, retries>>
BY LoopActs DEF CreateLoads

\* A derived id that exists and is not in memory is looked up.
LEMMA CreateAgainActs ==
    ASSUME IInv, NEW i \in Instance, NEW g \in Generation, CreateAgain(i, g)
    PROVE  /\ loop[i] = Idle /\ g \in Derived \ Courseware /\ LoopGoes(i, Scheduling)
           /\ UNCHANGED <<row, lease, runner, retries>>
           /\ MemBut(i, g) /\ mem[i][g] = NoTask /\ mem'[i][g] = row[g].task
<1>1. mem'[i][g] = row[g].task /\ MemBut(i, g)
  BY MemActs DEF CreateAgain
<1>2. QED
  BY <1>1, LoopActs DEF CreateAgain

\* What a thread does for the courseware generation it serves: it leaves the leases and
\* every runner but for what the manager knows of that one's, and the row of the
\* generation, or requeues that.
ServedBy(i, g) ==
    /\ RowsBut(g) /\ MemBut(i, g) /\ RunnersBut(i, g) /\ lease' = lease
    /\ runner'[i][g].at = runner[i][g].at /\ runner'[i][g].task = runner[i][g].task
    /\ Alive(i, g)' <=> Alive(i, g)
    /\ row'[g] = row[g] \/ row'[g].task.status = "queued"

LEMMA ThreadPutsActs ==
    ASSUME IInv, NEW i \in Instance, NEW k \in Handoff, NEW u \in User, ThreadPuts(i, k, u)
    PROVE  \E g \in Courseware : ServedBy(i, g)
<1>1. thread[i][k].gen \in Courseware /\ thread[i][k].gen \in Generation
  BY BusyThread DEF ThreadPuts
<1>2. RowsBut(thread[i][k].gen) /\ row'[thread[i][k].gen].task.status = "queued"
  BY <1>1, InsertActs DEF ThreadPuts
<1>3. UNCHANGED <<lease, runner, mem>>
  BY DEF ThreadPuts
<1>4. QED
  BY <1>1, <1>2, <1>3 DEF ServedBy, MemBut, RunnersBut, Alive

LEMMA ThreadFindsActs ==
    ASSUME IInv, NEW i \in Instance, NEW k \in Handoff, ThreadFinds(i, k)
    PROVE  \E g \in Courseware : ServedBy(i, g)
<1> DEFINE g == thread[i][k].gen
<1>1. g \in Courseware /\ g \in Generation
  BY BusyThread DEF ThreadFinds
<1>2. mem' = mem \/ Remember(i, g, thread[i][k].task)
  BY DEF ThreadFinds
<1>3. MemBut(i, g)
  BY <1>1, <1>2, MemActs DEF MemBut
<1>4. UNCHANGED <<row, lease, runner>>
  BY DEF ThreadFinds
<1> HIDE DEF g
<1>5. QED
  BY <1>1, <1>3, <1>4 DEF ServedBy, RowsBut, RunnersBut, Alive

LEMMA ThreadKeepsActs ==
    ASSUME IInv, NEW i \in Instance, NEW k \in Handoff, ThreadKeeps(i, k)
    PROVE  \E g \in Courseware : ServedBy(i, g)
<1>1. thread[i][k].gen \in Courseware /\ thread[i][k].gen \in Generation
  BY BusyThread DEF ThreadKeeps
<1>2. ASSUME NEW g \in Generation, MemBut(i, g), UNCHANGED <<row, lease>>,
             runner' = [runner EXCEPT ![i][g] = [runner[i][g] EXCEPT !.known = FALSE]]
      PROVE  ServedBy(i, g)
  <2> DEFINE x == [runner[i][g] EXCEPT !.known = FALSE]
  <2>1. x.at = runner[i][g].at /\ x.task = runner[i][g].task
    BY RunnersHold DEF Runner
  <2>2. x = NoRunner => runner[i][g] = NoRunner
    BY <2>1, RunnersHold DEF Runs, NoRunner
  <2>3. runner[i][g] = NoRunner => x = NoRunner
    BY RunnersHold, RunnerFacts DEF Runner, NoRunner
  <2>4. runner' = [runner EXCEPT ![i][g] = x]
    BY <1>2
  <2> HIDE DEF x
  <2>5. runner'[i][g] = x /\ RunnersBut(i, g)
    BY <2>4, RunnerActs
  <2>6. RowsBut(g) /\ row'[g] = row[g]
    BY <1>2 DEF RowsBut
  <2>7. Alive(i, g)' <=> Alive(i, g)
    BY <2>2, <2>3, <2>5 DEF Alive
  <2>8. QED
    BY <1>2, <2>1, <2>5, <2>6, <2>7 DEF ServedBy
<1>3. MemBut(i, thread[i][k].gen)
  BY <1>1, MemActs DEF ThreadKeeps
<1>4. QED
  BY <1>1, <1>2, <1>3 DEF ThreadKeeps

ThreadActsOn(i, k) ==
    \/ ThreadStep(i, k) \/ StoreFailsOffLoop(i, k)
    \/ \E g \in Generation : ThreadLoads(i, k, g)

\* A thread serves a generation, or claims one for a runner that it cannot start.
LEMMA ThreadActs ==
    ASSUME IInv, NEW i \in Instance, NEW k \in Handoff, ThreadActsOn(i, k)
    PROVE  /\ UNCHANGED <<loop, retries>>
           /\ \/ \E g \in Courseware : ServedBy(i, g)
              \/ /\ runner' = runner
                 /\ \/ RowsSwept(Generation) /\ mem' = mem
                    \/ \E d \in 0..Lag, g \in Generation : Claims(i, d, g)
<1>1. UNCHANGED <<loop, retries>>
  BY DEF ThreadActsOn, ThreadStep, ThreadFinds, ThreadPuts, ThreadKeeps, ClaimNextOffLoop,
         StoreFailsOffLoop, ThreadLoads
<1>2. CASE StoreFailsOffLoop(i, k) \/ \E g \in Generation : ThreadLoads(i, k, g)
  <2>1. UNCHANGED <<row, lease, runner, mem>>
    BY <1>2 DEF StoreFailsOffLoop, ThreadLoads
  <2>2. QED
    BY <1>1, <2>1 DEF RowsSwept
<1>3. ASSUME NEW d \in 0..Lag, ClaimNextOffLoop(i, k, d)
      PROVE  /\ runner' = runner
             /\ \/ RowsSwept(Generation) /\ mem' = mem
                \/ \E g \in Generation : Claims(i, d, g)
  BY <1>3, NothingActs DEF ClaimNextOffLoop
<1>4. QED
  BY <1>1, <1>2, <1>3, ThreadPutsActs, ThreadFindsActs, ThreadKeepsActs
  DEF ThreadActsOn, ThreadStep

LEMMA ViewActs ==
    ASSUME IInv, NEW i \in Instance, NEW g \in Generation, View(i, g)
    PROVE  /\ UNCHANGED <<row, lease, loop, runner, retries>>
           /\ MemBut(i, g) /\ mem'[i][g] = Get(i, g)
           /\ runner[i][g].known => mem'[i][g] = mem[i][g]
<1>1. Remember(i, g, Get(i, g))
  BY DEF View
<1>2. mem'[i][g] = Get(i, g) /\ MemBut(i, g)
  BY <1>1, MemActs
<1>3. QED
  BY <1>2 DEF View, Get

LEMMA CancelActs ==
    ASSUME IInv, NEW i \in Instance, NEW g \in Generation, Cancel(i, g)
    PROVE  /\ loop[i] = Idle /\ UNCHANGED <<lease, loop, retries>>
           /\ RowGoes(g, IF Is(g, "queued") THEN "cancelled" ELSE row[g].task.status,
                      row[g].holder)
           /\ RowsBut(g) /\ RunnersBut(i, g) /\ MemBut(i, g)
           /\ mem'[i][g].status = row'[g].task.status
           /\ Known(g) /\ Get(i, g).status \notin Terminal
           /\ runner[i][g].at # "none" =>
                 runner'[i][g].task = runner[i][g].task \/ runner'[i][g] = NoRunner
           /\ runner[i][g].known => runner'[i][g].at \notin {"claimed", "waiting"}
           /\ Alive(i, g)' => /\ Alive(i, g) /\ runner'[i][g].task = runner[i][g].task
                              /\ runner'[i][g].known = runner[i][g].known
                              /\ runner'[i][g].at \in {"stopping", runner[i][g].at}
<1> DEFINE t == CancelRequested(row[g].task)
           r == [row[g] EXCEPT !.task = t]
           x == CASE ~runner[i][g].known -> runner[i][g]
                  [] runner[i][g].at = "claimed" -> NoRunner
                  [] OTHER -> [runner[i][g] EXCEPT !.at = "stopping"]
<1>1. row[g] \in Row /\ row[g].task \in Task /\ runner[i][g] \in Runner
  BY RowsHold, RunnersHold
<1>2. t.status = IF Is(g, "queued") THEN "cancelled" ELSE row[g].task.status
  <2> DEFINE old == row[g].task
  <2>1. [old EXCEPT !.status = "cancelled", !.flag = TRUE].status = "cancelled"
    BY <1>1, TaskGetsFlag, NamesOfStatus
  <2>2. [old EXCEPT !.flag = TRUE].status = old.status
    BY <1>1, TaskGetsFlag, NamesOfStatus
  <2> HIDE DEF old
  <2>3. CancelRequested(old).status = IF old.status = "queued" THEN "cancelled" ELSE old.status
    BY <2>1, <2>2 DEF CancelRequested
  <2>4. QED
    BY <2>3 DEF old, Is
<1>3. r.task = t /\ r.holder = row[g].holder /\ r.owner = row[g].owner
  BY <1>1 DEF Row
<1>4. /\ row' = [row EXCEPT ![g] = r] /\ runner' = [runner EXCEPT ![i][g] = x]
      /\ Remember(i, g, row'[g].task)
      /\ loop[i] = Idle /\ UNCHANGED <<lease, loop, retries>>
      /\ Known(g) /\ Get(i, g).status \notin Terminal
  BY DEF Cancel
<1>5. /\ x = NoRunner \/ x.task = runner[i][g].task
      /\ runner[i][g].known => x.at \notin {"claimed", "waiting"}
      /\ x # NoRunner => /\ runner[i][g] # NoRunner /\ x.task = runner[i][g].task
                         /\ x.known = runner[i][g].known
                         /\ x.at \in {"stopping", runner[i][g].at}
  <2>1. CASE ~runner[i][g].known
    BY <2>1
  <2>2. CASE runner[i][g].known /\ runner[i][g].at = "claimed"
    BY <2>2 DEF NoRunner
  <2>3. CASE runner[i][g].known /\ runner[i][g].at # "claimed"
    <3>1. x = [runner[i][g] EXCEPT !.at = "stopping"] /\ runner[i][g] # NoRunner
      BY <2>3 DEF NoRunner
    <3>2. QED
      BY <1>1, <2>3, <3>1 DEF Runner
  <2>4. QED
    BY <2>1, <2>2, <2>3
<1> HIDE DEF t, r, x
<1>6. row'[g] = r /\ RowsBut(g)
  BY <1>4, RowActs
<1>7. runner'[i][g] = x /\ RunnersBut(i, g)
  BY <1>4, RunnerActs
<1>8. mem'[i][g] = row'[g].task /\ MemBut(i, g)
  BY <1>4, MemActs
<1>9. QED
  BY <1>2, <1>3, <1>4, <1>5, <1>6, <1>7, <1>8 DEF RowGoes, Alive

LEMMA RequestReadsActs ==
    ASSUME IInv, NEW i \in Instance, NEW g \in Generation,
           RetryReads(i, g) \/ ConfirmReads(i, g) \/ DiscardReads(i, g)
    PROVE  /\ loop[i] = Idle /\ UNCHANGED <<row, lease, runner>>
           /\ Get(i, g).status \in {"interrupted", "needs_review", "failed"}
           /\ MemBut(i, g)
           /\ \E op \in {"requeueing", "confirming", "discarding"}, t \in Task :
                 /\ LoopGoes(i, At(op, g, t)) /\ TaskFits(At(op, g, t)) /\ mem'[i][g] = t
                 /\ op = "requeueing" => retries' = [retries EXCEPT ![g] = retries[g] + 1]
                 /\ op # "requeueing" => /\ retries' = retries
                                         /\ Get(i, g).status = "needs_review"
<1>1. Get(i, g) \in Task
  BY GetIsATask
<1>2. ASSUME NEW op \in {"requeueing", "confirming", "discarding"}, NEW t \in Task,
             LoopTo(i, At(op, g, t)), Remember(i, g, t),
             op = "requeueing" => t.status = "queued",
             op = "confirming" => t.status = "completed",
             op = "discarding" => t.status = "discarded"
      PROVE  /\ LoopGoes(i, At(op, g, t)) /\ TaskFits(At(op, g, t))
             /\ mem'[i][g] = t /\ MemBut(i, g)
  BY <1>2, LoopActs, MemActs DEF TaskFits, At
<1>3. CASE RetryReads(i, g)
  <2> DEFINE old == Get(i, g)
             t == [status |-> "queued", flag |-> FALSE, code |-> "none",
                   result |-> IF old.status = "needs_review" THEN "none" ELSE old.result]
  <2>1. t \in Task /\ t.status = "queued"
    BY <1>1 DEF Task, Status
  <2>2. Remember(i, g, t) /\ LoopTo(i, At("requeueing", g, t))
    BY <1>3 DEF RetryReads
  <2>3. /\ loop[i] = Idle /\ UNCHANGED <<row, lease, runner>>
        /\ Get(i, g).status \in {"interrupted", "needs_review", "failed"}
        /\ retries' = [retries EXCEPT ![g] = retries[g] + 1]
    BY <1>3 DEF RetryReads, Retryable
  <2> HIDE DEF t
  <2>4. QED
    BY <1>2, <2>1, <2>2, <2>3
<1>4. CASE ConfirmReads(i, g)
  <2> DEFINE t == [Get(i, g) EXCEPT !.status = "completed", !.result = "final"]
  <2>1. t \in Task /\ t.status = "completed"
    BY <1>1, TaskGetsResult, NamesOfStatus
  <2>2. Remember(i, g, t) /\ LoopTo(i, At("confirming", g, t))
    BY <1>4 DEF ConfirmReads
  <2>3. /\ loop[i] = Idle /\ UNCHANGED <<row, lease, runner, retries>>
        /\ Get(i, g).status = "needs_review"
    BY <1>4 DEF ConfirmReads
  <2> HIDE DEF t
  <2>4. QED
    BY <1>2, <2>1, <2>2, <2>3
<1>5. CASE DiscardReads(i, g)
  <2> DEFINE t == [Get(i, g) EXCEPT !.status = "discarded"]
  <2>1. t \in Task /\ t.status = "discarded"
    BY <1>1, TaskIsSet, NamesOfStatus
  <2>2. Remember(i, g, t) /\ LoopTo(i, At("discarding", g, t))
    BY <1>5 DEF DiscardReads
  <2>3. /\ loop[i] = Idle /\ UNCHANGED <<row, lease, runner, retries>>
        /\ Get(i, g).status = "needs_review"
    BY <1>5 DEF DiscardReads
  <2> HIDE DEF t
  <2>4. QED
    BY <1>2, <2>1, <2>2, <2>3
<1>6. QED
  BY <1>3, <1>4, <1>5

\* The puts of retry, confirm_review and discard_review.
LEMMA RequestPutsActs ==
    ASSUME IInv, NEW i \in Instance, RetryPuts(i) \/ RetryClears(i) \/ ReviewPuts(i)
    PROVE  LET g == loop[i].gen IN
           /\ g \in Generation /\ UNCHANGED <<lease, runner, mem, retries>>
           /\ loop[i].op \in {"requeueing", "clearing", "releasing", "discarding"}
           /\ RowGoes(g, IF loop[i].op = "clearing" THEN row[g].task.status
                         ELSE loop[i].task.status, row[g].holder)
           /\ RowsBut(g)
           /\ \E l \in {Scheduling, Idle, At("clearing", g, loop[i].task)} :
                 /\ LoopGoes(i, l)
                 /\ loop[i].op # "requeueing" => l \in {Scheduling, Idle}
<1> DEFINE g == loop[i].gen
<1>1. g \in Generation /\ loop[i].task \in Task
  BY Busy DEF RetryPuts, RetryClears, ReviewPuts
<1>2. UNCHANGED <<lease, runner, mem, retries>>
  BY DEF RetryPuts, RetryClears, ReviewPuts
<1>3. CASE RetryPuts(i)
  <2>1. RowGoes(g, loop[i].task.status, row[g].holder) /\ RowsBut(g)
    BY <1>1, <1>3, PutActs DEF RetryPuts
  <2>2. LoopGoes(i, At("clearing", g, loop[i].task)) /\ loop[i].op = "requeueing"
    BY <1>3, LoopActs DEF RetryPuts
  <2>3. QED
    BY <1>1, <1>2, <2>1, <2>2
<1>4. CASE RetryClears(i)
  <2> DEFINE r == [row[g] EXCEPT !.task.flag = FALSE]
  <2>1. row' = [row EXCEPT ![g] = r]
    BY <1>4 DEF RetryClears
  <2>2. /\ r.task.status = row[g].task.status
        /\ r.holder = row[g].holder /\ r.owner = row[g].owner
    BY <1>1, RowsHold DEF Row, Task
  <2>3. LoopGoes(i, Scheduling) /\ loop[i].op = "clearing"
    BY <1>4, LoopActs DEF RetryClears
  <2> HIDE DEF r
  <2>4. row'[g] = r /\ RowsBut(g)
    BY <1>1, <2>1, RowActs
  <2>5. QED
    BY <1>1, <1>2, <2>2, <2>3, <2>4 DEF RowGoes
<1>5. CASE ReviewPuts(i)
  <2>1. RowGoes(g, loop[i].task.status, row[g].holder) /\ RowsBut(g)
    BY <1>1, <1>5, PutActs DEF ReviewPuts
  <2>2. LoopGoes(i, Idle) /\ loop[i].op \in {"releasing", "discarding"}
    BY <1>5, LoopActs DEF ReviewPuts
  <2>3. QED
    BY <1>1, <1>2, <2>1, <2>2
<1>6. QED
  BY <1>3, <1>4, <1>5

LEMMA TimeActs ==
    ASSUME IInv, Tick \/ \E i \in Instance, g \in Generation : Renew(i, g)
    PROVE  /\ UNCHANGED <<row, loop, runner, mem, retries>>
           /\ \A g \in Generation :
                 \/ lease'[g] >= lease[g]
                 \/ /\ lease'[g] = lease[g] - 1
                    /\ HeartbeatsOnTime => ~HeartbeatDue
<1>1. lease \in [Generation -> Int] /\ LeaseTicks \in Int
  BY ConstantsAssumption DEF IInv, Others
<1>2. CASE Tick
  BY <1>1, <1>2 DEF Tick
<1>3. ASSUME NEW i \in Instance, NEW g \in Generation, Renew(i, g)
      PROVE  \A h \in Generation : lease'[h] >= lease[h]
  BY <1>1, <1>3 DEF Renew
<1>4. UNCHANGED <<row, loop, runner, mem, retries>>
  BY DEF Tick, Renew
<1>5. QED
  BY <1>2, <1>3, <1>4

-----------------------------------------------------------------------------
(* What the sequences put. *)

LEMMA RestingTasks ==
    /\ \A l \in {Idle, Scheduling, Down, At("starting", None, NoTask)} :
          TaskFits(l) /\ l.op \in {"idle", "scheduling", "down", "starting"}
    /\ \A g : /\ TaskFits(At("creating", g, NoTask))
              /\ At("creating", g, NoTask).op = "creating"
BY DEF TaskFits, At, Idle, Scheduling, Down

\* The runners of the next state have the tasks they were started with.
TasksKept ==
    \A j \in Instance, h \in Generation :
        Alive(j, h)' => \/ Alive(j, h) /\ runner'[j][h].task = runner[j][h].task
                        \/ runner'[j][h].task.status = "running"

\* Instance i goes on to l; the runners of the others stay.
LEMMA TasksStay ==
    ASSUME IInv, Tasks, TasksKept, NEW i \in Instance, NEW l, LoopGoes(i, l), TaskFits(l),
           \A j \in Instance, h \in Generation : j # i => runner'[j][h] = runner[j][h],
           l.op \in {"persisting", "saving", "finalizing"} => Alive(i, l.gen)',
           l.op = "persisting" => runner'[i][l.gen].at = "claimed"
    PROVE  Tasks'
<1>1. ASSUME NEW j \in Instance
      PROVE  TaskFits(loop[j])' /\ RunnerFits(j)'
  <2>1. CASE j = i
    BY <2>1 DEF LoopGoes, RunnerFits
  <2>2. CASE j # i
    <3>1. TaskFits(loop[j]) /\ RunnerFits(j) /\ loop'[j] = loop[j]
      BY <2>2 DEF Tasks, LoopGoes
    <3>2. loop[j].op \in {"persisting", "saving", "finalizing"} => loop[j].gen \in Generation
      BY Busy
    <3>3. QED
      BY <2>2, <3>1, <3>2 DEF RunnerFits, Alive
  <2>3. QED
    BY <2>1, <2>2
<1>2. QED
  BY <1>1 DEF Tasks, TasksKept

\* The same where l is no sequence of a runner.
LEMMA TasksRest ==
    ASSUME IInv, Tasks, TasksKept, NEW i \in Instance, NEW l, LoopGoes(i, l), TaskFits(l),
           \A j \in Instance, h \in Generation : j # i => runner'[j][h] = runner[j][h],
           l.op \notin {"persisting", "saving", "finalizing"}
    PROVE  Tasks'
BY TasksStay

LEMMA TasksSame ==
    ASSUME Tasks, UNCHANGED <<loop, runner>>
    PROVE  Tasks'
BY DEF Tasks, RunnerFits, Alive

LEMMA SameRunners ==
    ASSUME NEW i \in Instance,
           runner' = runner \/ \E g \in Generation : runner'[i][g] = NoRunner /\ RunnersBut(i, g)
    PROVE  /\ TasksKept
           /\ \A j \in Instance, h \in Generation : j # i => runner'[j][h] = runner[j][h]
BY DEF TasksKept, RunnersBut, Alive

LEMMA TasksStep ==
    ASSUME IInv, Tasks, [Next]_vars
    PROVE  Tasks'
<1>1. ASSUME NEW i \in Instance, Boot(i)
      PROVE  Tasks'
  <2>1. LoopGoes(i, At("starting", None, NoTask)) /\ runner' = runner
    BY <1>1, LoopActs DEF Boot
  <2>2. QED
    BY <2>1, SameRunners, RestingTasks, TasksRest
<1>2. ASSUME NEW i \in Instance, Start(i)
      PROVE  Tasks'
  BY <1>2, StartActs, SameRunners, RestingTasks, TasksRest
<1>3. ASSUME NEW i \in Instance, Crash(i)
      PROVE  Tasks'
  <2>1. TasksKept
    BY <1>3, CrashActs DEF TasksKept, Alive
  <2>2. QED
    BY <1>3, <2>1, CrashActs, RestingTasks, TasksRest
<1>4. ASSUME NEW i \in Instance, NEW d \in 0..Lag, ClaimNext(i, d)
      PROVE  Tasks'
  <2>1. CASE LoopGoes(i, Idle) /\ runner' = runner
    BY <2>1, SameRunners, RestingTasks, TasksRest
  <2>2. ASSUME NEW g \in Generation, loop' = loop, RunnersBut(i, g),
               runner'[i][g].task.status = "running"
        PROVE  Tasks'
    <3>1. TasksKept
      BY <2>2 DEF TasksKept, RunnersBut, Alive
    <3>2. loop[i] = Scheduling /\ LoopGoes(i, Scheduling)
      BY <1>4, <2>2, ClaimNextActs DEF LoopGoes
    <3>3. \A j \in Instance, h \in Generation : j # i => runner'[j][h] = runner[j][h]
      BY <2>2 DEF RunnersBut
    <3>4. QED
      BY <3>1, <3>2, <3>3, RestingTasks, TasksRest
  <2>3. QED
    BY <1>4, <2>1, <2>2, ClaimNextActs
<1>5. ASSUME NEW i \in Instance, NEW k \in Handoff, ThreadActsOn(i, k)
      PROVE  Tasks'
  <2>1. loop' = loop
    BY <1>5, ThreadActs
  <2>2. CASE runner' = runner
    BY <2>1, <2>2, TasksSame
  <2>3. ASSUME NEW g \in Courseware, ServedBy(i, g)
        PROVE  Tasks'
    <3>1. \A j \in Instance, h \in Generation :
             /\ runner'[j][h].at = runner[j][h].at /\ runner'[j][h].task = runner[j][h].task
             /\ Alive(j, h)' <=> Alive(j, h)
      BY <2>3 DEF ServedBy, RunnersBut, Alive
    <3>2. \A j \in Instance : loop[j].op \in {"persisting", "saving", "finalizing"} =>
             loop[j].gen \in Generation
      BY Busy
    <3>3. \A j \in Instance : RunnerFits(j)'
      BY <2>1, <3>1, <3>2 DEF Tasks, RunnerFits
    <3>4. \A j \in Instance, h \in Generation :
             Alive(j, h)' => runner'[j][h].task.status = "running"
      BY <3>1 DEF Tasks
    <3>5. QED
      BY <2>1, <3>3, <3>4 DEF Tasks
  <2>4. QED
    BY <1>5, <2>2, <2>3, ThreadActs
<1>6. ASSUME NEW i \in Instance, NEW g \in Generation, RunnerStep(i, g)
      PROVE  Tasks'
  <2>1. PICK op \in {"persisting", "saving", "finalizing"}, u \in Task :
          /\ LoopGoes(i, At(op, g, u))
          /\ op = "persisting" => runner[i][g].at = "claimed"
          /\ op \in {"persisting", "saving"} => u.status = "running"
          /\ op = "finalizing" => u.status \in Settled
    BY <1>6, RunnerStepActs
  <2>2. TaskFits(At(op, g, u)) /\ At(op, g, u).op = op /\ At(op, g, u).gen = g
    BY <2>1 DEF TaskFits, At
  <2>3. runner' = runner /\ Alive(i, g)'
    BY <1>6, RunnerStepActs DEF Alive, NoRunner
  <2>4. QED
    BY <2>1, <2>2, <2>3, SameRunners, TasksStay
<1>7. ASSUME NEW i \in Instance, PersistRun(i)
      PROVE  Tasks'
  <2> DEFINE g == loop[i].gen
  <2>1. g \in Generation /\ LoopGoes(i, Idle)
    BY <1>7, PersistRunActs
  <2>2. /\ runner'[i][g].task = runner[i][g].task /\ RunnersBut(i, g)
    BY <1>7, PersistRunActs
  <2>3. Alive(i, g)
    BY <1>7 DEF Tasks, RunnerFits, PersistRun
  <2>4. /\ TasksKept
        /\ \A j \in Instance, h \in Generation : j # i => runner'[j][h] = runner[j][h]
    BY <2>1, <2>2, <2>3 DEF TasksKept, RunnersBut, Alive
  <2>5. QED
    BY <2>1, <2>4, RestingTasks, TasksRest
<1>8. ASSUME NEW i \in Instance, SaveGeneration(i) \/ ConfirmSaves(i)
      PROVE  Tasks'
  <2>1. PICK t \in Task :
           /\ t.status = IF loop[i].op = "saving" THEN "completed" ELSE loop[i].task.status
           /\ \/ loop[i].op = "saving" /\ LoopGoes(i, At("finalizing", loop[i].gen, t))
              \/ loop[i].op = "confirming" /\ LoopGoes(i, At("releasing", loop[i].gen, t))
    BY <1>8, SaveActs
  <2>2. TaskFits(loop[i]) /\ RunnerFits(i) /\ runner' = runner
    BY <1>8, SaveActs DEF Tasks
  <2>3. PICK l : /\ LoopGoes(i, l) /\ TaskFits(l)
                 /\ l.op \in {"finalizing", "releasing"}
                 /\ l.op = "finalizing" => Alive(i, l.gen)'
    BY <2>1, <2>2 DEF TaskFits, RunnerFits, At, Settled, Alive
  <2>4. QED
    BY <2>2, <2>3, SameRunners, TasksStay
<1>9. ASSUME NEW i \in Instance, Finalize(i)
      PROVE  Tasks'
  BY <1>9, FinalizeActs, SameRunners, RestingTasks, TasksRest
<1>10. ASSUME NEW i \in Instance, StoreFails(i)
       PROVE  Tasks'
  <2>1. CASE /\ loop[i].op \in {"persisting", "saving"} /\ runner' = runner
             /\ \E t \in Task : /\ t.status = "failed"
                                /\ LoopGoes(i, At("finalizing", loop[i].gen, t))
    <3>1. PICK l : LoopGoes(i, l) /\ TaskFits(l) /\ l.op = "finalizing" /\ l.gen = loop[i].gen
      BY <2>1 DEF TaskFits, At, Settled
    <3>2. Alive(i, l.gen)'
      BY <2>1, <3>1 DEF Tasks, RunnerFits, Alive
    <3>3. QED
      BY <2>1, <3>1, <3>2, SameRunners, TasksStay
  <2>2. CASE LoopGoes(i, Idle) /\ (runner' = runner \/ \E g \in Generation :
                 runner'[i][g] = NoRunner /\ RunnersBut(i, g))
    BY <2>2, SameRunners, RestingTasks, TasksRest
  <2>3. QED
    BY <1>10, <2>1, <2>2, StoreFailsActs
<1>11. ASSUME NEW i \in Instance, NEW u \in User, CreatePuts(i, u)
       PROVE  Tasks'
  BY <1>11, CreatePutsActs, SameRunners, RestingTasks, TasksRest
<1>12. ASSUME NEW i \in Instance, NEW g \in Generation, Cancel(i, g)
       PROVE  Tasks'
  <2>1. TasksKept
    BY <1>12, CancelActs DEF TasksKept, RunnersBut, Alive
  <2>2. \A j \in Instance, h \in Generation : j # i => runner'[j][h] = runner[j][h]
    BY <1>12, CancelActs DEF RunnersBut
  <2>3. LoopGoes(i, Idle)
    BY <1>12, CancelActs DEF LoopGoes
  <2>4. QED
    BY <2>1, <2>2, <2>3, RestingTasks, TasksRest
<1>13. ASSUME NEW i \in Instance, NEW g \in Generation, UserStep(i, g)
       PROVE  Tasks'
  <2>1. CASE CreateLoads(i, g)
    BY <2>1, CreateLoadsActs, SameRunners, RestingTasks, TasksRest
  <2>2. CASE CreateAgain(i, g)
    BY <2>2, CreateAgainActs, SameRunners, RestingTasks, TasksRest
  <2>3. CASE \E k \in Handoff : ThreadLoads(i, k, g)
    BY <1>5, <2>3 DEF ThreadActsOn
  <2>4. CASE View(i, g)
    BY <2>4, ViewActs, TasksSame
  <2>5. CASE RetryReads(i, g) \/ ConfirmReads(i, g) \/ DiscardReads(i, g)
    <3>1. PICK op \in {"requeueing", "confirming", "discarding"}, t \in Task :
             LoopGoes(i, At(op, g, t)) /\ TaskFits(At(op, g, t))
      BY <2>5, RequestReadsActs
    <3>2. At(op, g, t).op = op /\ runner' = runner
      BY <2>5, RequestReadsActs DEF At
    <3>3. QED
      BY <3>1, <3>2, SameRunners, TasksRest
  <2>6. QED
    BY <1>12, <1>13, <2>1, <2>2, <2>3, <2>4, <2>5 DEF UserStep
<1>14. ASSUME NEW i \in Instance, RetryPuts(i) \/ RetryClears(i) \/ ReviewPuts(i)
       PROVE  Tasks'
  <2>1. PICK l \in {Scheduling, Idle, At("clearing", loop[i].gen, loop[i].task)} :
           /\ LoopGoes(i, l)
           /\ loop[i].op # "requeueing" => l \in {Scheduling, Idle}
    BY <1>14, RequestPutsActs
  <2>2. TaskFits(loop[i])
    BY DEF Tasks
  <2>3. loop[i].op = "requeueing" => TaskFits(At("clearing", loop[i].gen, loop[i].task))
    BY <2>2 DEF TaskFits, At
  <2>4. TaskFits(l) /\ l.op \in {"scheduling", "idle", "clearing"}
    BY <2>1, <2>3 DEF TaskFits, At, Idle, Scheduling
  <2>5. QED
    BY <1>14, <2>1, <2>4, RequestPutsActs, SameRunners, TasksRest
<1>15. CASE UNCHANGED vars \/ Tick \/ \E i \in Instance, g \in Generation : Renew(i, g)
  <2>1. loop' = loop /\ runner' = runner
    BY <1>15, TimeActs DEF vars
  <2>2. QED
    BY <2>1, TasksSame
<1>16. QED
  BY <1>1, <1>2, <1>3, <1>4, <1>5, <1>6, <1>7, <1>8, <1>9, <1>10, <1>11, <1>13, <1>14, <1>15
  DEF Next, LoopStep, ThreadActsOn

LEMMA TasksInit == Init => Tasks
BY RestingTasks DEF Init, Tasks, RunnerFits, Alive

\* What each sequence puts is what its kind says, and the sequences of a runner have
\* their runner.
THEOREM TasksHold == Spec => []Tasks
<1>1. Init => Tasks
  BY TasksInit
<1>2. IInv /\ Tasks /\ [Next]_vars => Tasks'
  BY TasksStep
<1>3. QED
  BY <1>1, <1>2, Invariance, PTL DEF Spec
=============================================================================
