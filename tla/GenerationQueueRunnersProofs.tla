--------------------- MODULE GenerationQueueRunnersProofs ---------------------
(***************************************************************************)
(* Theorems about the runners of the generation queue and their leases:    *)
(* for any number of instances, what holds of the generations that are     *)
(* submitted once and not retried; for one instance, what holds of all     *)
(* that are submitted on its loop.                                         *)
(***************************************************************************)
EXTENDS GenerationQueueProofs, FiniteSetTheorems

-----------------------------------------------------------------------------
(* A generation that is submitted once and not retried has one runner. *)

\* Only a retry counts as one.
LEMMA RetriesChange ==
    ASSUME [Next]_vars
    PROVE  retries' = retries \/ \E i \in Instance, g \in Generation : RetryReads(i, g)
<1>1. ASSUME NEW i \in Instance, Boot(i) \/ Crash(i) \/ StoreFails(i)
      PROVE  retries' = retries
  BY <1>1 DEF Boot, Crash, StoreFails
<1>2. ASSUME NEW i \in Instance, LoopStep(i)
      PROVE  retries' = retries
  <2>1. ASSUME NEW d \in 0..Lag, ClaimNext(i, d)
        PROVE  retries' = retries
    BY <2>1 DEF ClaimNext
  <2>2. ASSUME NEW u \in User, CreatePuts(i, u)
        PROVE  retries' = retries
    BY <2>2 DEF CreatePuts
  <2>3. ASSUME Start(i) \/ PersistRun(i) \/ SaveGeneration(i) \/ Finalize(i) \/ RetryPuts(i)
                  \/ RetryClears(i) \/ ConfirmSaves(i) \/ ReviewPuts(i)
        PROVE  retries' = retries
    BY <2>3 DEF Start, PersistRun, SaveGeneration, Finalize, RetryPuts, RetryClears,
                ConfirmSaves, ReviewPuts
  <2>4. QED
    BY <1>2, <2>1, <2>2, <2>3 DEF LoopStep
<1>3. ASSUME NEW i \in Instance, NEW g \in Generation, RunnerStep(i, g) \/ Renew(i, g)
      PROVE  retries' = retries
  BY <1>3 DEF RunnerStep, RunBegins, ProviderReturns, ProviderFails, Stops, Renew
<1>4. ASSUME NEW i \in Instance, NEW g \in Generation, UserStep(i, g), ~RetryReads(i, g)
      PROVE  retries' = retries
  BY <1>4 DEF UserStep, CreateLoads, ThreadLoads, CreateAgain, View, Cancel, ConfirmReads,
              DiscardReads
<1>5. CASE Tick \/ UNCHANGED vars
  BY <1>5 DEF Tick, vars
<1>6. ASSUME NEW i \in Instance, NEW k \in Handoff, ThreadStep(i, k) \/ StoreFailsOffLoop(i, k)
      PROVE  retries' = retries
  BY <1>6 DEF ThreadStep, ThreadFinds, ThreadPuts, ThreadKeeps, ClaimNextOffLoop,
              StoreFailsOffLoop
<1>7. QED
  BY <1>1, <1>2, <1>3, <1>4, <1>5, <1>6 DEF Next

\* What is untouched has been so all along, and is not being retried.
LEMMA UntouchedBefore ==
    ASSUME IInv, [Next]_vars, NEW g \in Generation, Untouched(g)'
    PROVE  Untouched(g) /\ \A i \in Instance : ~RetryReads(i, g)
<1>1. retries \in [Generation -> 0..MaxRetries] /\ retries[g] \in Nat
  BY ConstantsAssumption DEF IInv, Others
<1>2. ASSUME NEW i \in Instance, NEW h \in Generation, RetryReads(i, h)
      PROVE  h # g /\ retries'[g] = retries[g]
  <2>1. retries' = [retries EXCEPT ![h] = retries[h] + 1]
    BY <1>2 DEF RetryReads
  <2>2. QED
    BY <1>1, <2>1 DEF Untouched
<1>3. QED
  BY <1>2, RetriesChange DEF Untouched

\* The loops take up nothing new about g, except to decide a review that is due.
LoopsCalm(g) ==
    \A i \in Instance :
        /\ Creating(i, g)' => Creating(i, g)
        /\ ~Requeueing(i, g)'
        /\ Deciding(i, g)' => Deciding(i, g) \/ row[g].task.status \in Settled

\* No runner of g starts.
RunnersCalm(g) ==
    \A i \in Instance :
        Alive(i, g)' => Alive(i, g) /\ mem'[i][g].status \in {"running", "interrupted"}

\* The row of g changes its lease at most.
RowCalm(g) ==
    \/ row'[g] = row[g]
    \/ RowLost(g)
    \/ Is(g, "running") /\ Is(g, "running")'

LEMMA AbsentStatus ==
    ASSUME NEW g, ~Known(g)
    PROVE  row[g].task.status = "absent"
BY DEF Known, Absent, NoTask

LEMMA RunOnceCalm ==
    ASSUME NEW g \in Generation, RunOnce(g), LoopsCalm(g), RunnersCalm(g), RowCalm(g)
    PROVE  RunOnce(g)'
<1>1. ASSUME NEW i \in Instance, NEW j \in Instance
      PROVE  /\ Alive(i, g)' /\ Alive(j, g)' => i = j
             /\ Creating(i, g)' /\ Creating(j, g)' => i = j
  BY DEF RunOnce, LoopsCalm, RunnersCalm
<1>2. ASSUME NEW i \in Instance
      PROVE  /\ Alive(i, g)' => /\ row'[g].task.status \in {"running", "interrupted"}
                                /\ mem'[i][g].status \in {"running", "interrupted"}
             /\ ~Requeueing(i, g)'
             /\ Deciding(i, g)' => row'[g].task.status \in Settled
  BY DEF RunOnce, LoopsCalm, RunnersCalm, RowCalm, RowLost, RowGoes, Is, Settled
<1>3. ASSUME NEW i \in Instance, Creating(i, g)'
      PROVE  ~Known(g)'
  <2>1. ~Known(g)
    BY <1>3 DEF RunOnce, LoopsCalm
  <2>2. ~Is(g, "running")
    BY <2>1, AbsentStatus DEF Is
  <2>3. row'[g] = row[g]
    BY <2>2 DEF RowCalm, RowLost
  <2>4. QED
    BY <2>1, <2>3 DEF Known
<1>4. ~Is(g, "running")' => row'[g].holder = None
  BY DEF RunOnce, RowCalm, RowLost, RowGoes, Is
<1>5. QED
  BY <1>1, <1>2, <1>3, <1>4 DEF RunOnce

\* The loops and the rows when an instance goes on to l.
LEMMA LoopCalm ==
    ASSUME NEW g \in Generation, RunOnce(g), NEW i \in Instance, NEW l, LoopGoes(i, l),
           \/ l.gen # g
           \/ l.op \notin {"creating", "requeueing", "clearing", "confirming", "releasing",
                           "discarding"}
           \/ /\ l.op \in {"confirming", "releasing", "discarding"}
              /\ Deciding(i, g) \/ row[g].task.status \in Settled
    PROVE  LoopsCalm(g)
BY DEF LoopsCalm, LoopGoes, RunOnce, Creating, Requeueing, Deciding

LEMMA LoopSame ==
    ASSUME NEW g \in Generation, RunOnce(g), loop' = loop
    PROVE  LoopsCalm(g)
BY DEF LoopsCalm, RunOnce, Creating, Requeueing, Deciding

\* Runners and memory of g are left alone, or a runner of g is gone.
LEMMA RunnerCalm ==
    ASSUME NEW g \in Generation, RunOnce(g),
           \/ runner' = runner
           \/ \E i \in Instance, h \in Generation : RunnersBut(i, h) /\ (h # g \/ ~Alive(i, h)'),
           \/ mem' = mem
           \/ \E i \in Instance, h \in Generation :
                 MemBut(i, h) /\ (h # g \/ ~Alive(i, h)' \/ mem'[i][h] = mem[i][h])
    PROVE  RunnersCalm(g)
<1>1. ASSUME NEW j \in Instance, Alive(j, g)'
      PROVE  Alive(j, g)
  BY <1>1 DEF RunnersBut, Alive
<1>2. ASSUME NEW j \in Instance, Alive(j, g)'
      PROVE  mem'[j][g] = mem[j][g]
  BY <1>2 DEF MemBut
<1>3. QED
  BY <1>1, <1>2 DEF RunnersCalm, RunOnce

\* Nobody works on a generation that is not running or interrupted.
LEMMA NobodyAlive ==
    ASSUME NEW g \in Generation, RunOnce(g),
           row[g].task.status \notin {"running", "interrupted"}
    PROVE  \A i \in Instance : ~Alive(i, g)
BY DEF RunOnce

\* Nobody creates or decides a generation that is at work or waits for it.
LEMMA NobodyDecides ==
    ASSUME NEW g \in Generation, RunOnce(g),
           row[g].task.status \in {"queued", "running", "interrupted"}
    PROVE  \A i \in Instance : ~Creating(i, g) /\ ~Deciding(i, g) /\ ~Requeueing(i, g)
BY AbsentStatus DEF RunOnce, Settled

LEMMA RestingOps ==
    \A l \in {Idle, Scheduling, Down, At("starting", None, NoTask)} :
        l.op \in {"idle", "scheduling", "down", "starting"}
BY RestingTasks

\* The claim of a generation by i, whether i runs it or not.
LEMMA RunOnceClaims ==
    ASSUME IInv, NEW g \in Generation, RunOnce(g), loop' = loop,
           NEW i \in Instance, NEW d \in 0..Lag, NEW h \in Generation, Claims(i, d, h),
           runner' = runner \/ RunnersBut(i, h)
    PROVE  RunOnce(g)'
<1>1. LoopsCalm(g)
  BY LoopSame
<1>2. /\ Is(h, "queued") /\ RowGoes(h, "running", i) /\ RowsSwept(Generation \ {h})
      /\ mem'[i][h].status = "running" /\ MemBut(i, h)
  BY ClaimActs
<1>3. CASE h # g
  <2>1. RowCalm(g)
    BY <1>2, <1>3 DEF RowCalm, RowsSwept
  <2>2. RunnersCalm(g)
    BY <1>2, <1>3, RunnerCalm
  <2>3. QED
    BY <1>1, <2>1, <2>2, RunOnceCalm
<1>4. CASE h = g
  <2>1. row[g].task.status = "queued" /\ row'[g].task.status = "running"
    BY <1>2, <1>4 DEF RowGoes, Is
  <2>2. \A j \in Instance : ~Alive(j, g)
    BY <2>1, NobodyAlive
  <2>3. \A j \in Instance : ~Creating(j, g)' /\ ~Deciding(j, g)' /\ ~Requeueing(j, g)'
    BY <2>1, NobodyDecides DEF Creating, Deciding, Requeueing
  <2>4. \A j \in Instance : Alive(j, g)' => j = i
    BY <1>4, <2>2 DEF RunnersBut, Alive
  <2>5. mem'[i][g].status = "running"
    BY <1>2, <1>4
  <2>6. QED
    BY <2>1, <2>3, <2>4, <2>5 DEF RunOnce, Is
<1>5. QED
  BY <1>3, <1>4

\* Sweeps and nothing else.
LEMMA RunOnceSwept ==
    ASSUME NEW g \in Generation, RunOnce(g), RowsSwept(Generation), LoopsCalm(g),
           UNCHANGED <<runner, mem>>
    PROVE  RunOnce(g)'
<1>1. RowCalm(g)
  BY DEF RowCalm, RowsSwept
<1>2. RunnersCalm(g)
  BY RunnerCalm
<1>3. QED
  BY <1>1, <1>2, RunOnceCalm

LEMMA RunOnceCrash ==
    ASSUME IInv, NEW g \in Generation, RunOnce(g), NEW i \in Instance, Crash(i)
    PROVE  RunOnce(g)'
<1>1. LoopsCalm(g)
  BY CrashActs, RestingOps, LoopCalm
<1>2. RunnersCalm(g)
  BY CrashActs DEF RunnersCalm, RunOnce, Alive
<1>3. i # None
  BY ConstantsAssumption
<1>4. RowCalm(g)
  BY <1>3, CrashActs DEF RowCalm, RowGoes, RunOnce, Is
<1>5. QED
  BY <1>1, <1>2, <1>4, RunOnceCalm

LEMMA RunOnceRunner ==
    ASSUME IInv, Tasks, NEW g \in Generation, RunOnce(g), NEW i \in Instance,
           \/ \E h \in Generation : RunnerStep(i, h)
           \/ PersistRun(i) \/ SaveGeneration(i) \/ Finalize(i) \/ StoreFails(i)
    PROVE  RunOnce(g)'
<1>1. ASSUME NEW h \in Generation, RunnerStep(i, h)
      PROVE  RunOnce(g)'
  <2>1. PICK op \in {"persisting", "saving", "finalizing"}, u \in Task :
          LoopGoes(i, At(op, h, u))
    BY <1>1, RunnerStepActs
  <2>2. At(op, h, u).op = op
    BY DEF At
  <2>3. LoopsCalm(g)
    BY <2>1, <2>2, LoopCalm
  <2>4. RunnersCalm(g) /\ RowCalm(g)
    BY <1>1, RunnerStepActs, RunnerCalm DEF RowCalm
  <2>5. QED
    BY <2>3, <2>4, RunOnceCalm
<1>2. CASE PersistRun(i)
  <2> DEFINE h == loop[i].gen
  <2>1. /\ h \in Generation /\ LoopGoes(i, Idle) /\ mem' = mem
        /\ RunnersBut(i, h) /\ RowGoes(h, loop[i].task.status, row[h].holder) /\ RowsBut(h)
    BY <1>2, PersistRunActs
  <2>2. loop[i].task.status = "running" /\ Alive(i, h)
    BY <1>2 DEF Tasks, TaskFits, RunnerFits, PersistRun
  <2>3. LoopsCalm(g)
    BY <2>1, RestingOps, LoopCalm
  <2>4. CASE h # g
    <3>1. RowCalm(g)
      BY <2>1, <2>4 DEF RowCalm, RowsBut
    <3>2. RunnersCalm(g)
      BY <2>1, <2>4, RunnerCalm
    <3>3. QED
      BY <2>3, <3>1, <3>2, RunOnceCalm
  <2>5. CASE h = g
    <3>1. row'[g].task.status = "running" /\ row[g].task.status \in {"running", "interrupted"}
      BY <2>1, <2>2, <2>5 DEF RowGoes, RunOnce
    <3>2. \A j \in Instance : ~Creating(j, g)' /\ ~Deciding(j, g)' /\ ~Requeueing(j, g)'
      BY <2>3, <3>1, NobodyDecides DEF LoopsCalm, Settled
    <3>3. \A j \in Instance : Alive(j, g)' => Alive(j, g) /\ mem'[j][g] = mem[j][g]
      BY <2>1, <2>2, <2>5 DEF RunnersBut, Alive
    <3>4. QED
      BY <3>1, <3>2, <3>3 DEF RunOnce, Is
  <2>6. QED
    BY <2>4, <2>5
<1>3. CASE SaveGeneration(i)
  <2>1. loop[i].op = "saving" /\ UNCHANGED <<row, runner, mem>>
    BY <1>3, SaveActs DEF SaveGeneration
  <2>2. PICK t \in Task : LoopGoes(i, At("finalizing", loop[i].gen, t))
    BY <1>3, <2>1, SaveActs
  <2>3. At("finalizing", loop[i].gen, t).op = "finalizing"
    BY DEF At
  <2>4. LoopsCalm(g)
    BY <2>2, <2>3, LoopCalm
  <2>5. RunnersCalm(g) /\ RowCalm(g)
    BY <2>1, RunnerCalm DEF RowCalm
  <2>6. QED
    BY <2>4, <2>5, RunOnceCalm
<1>4. CASE Finalize(i)
  <2> DEFINE h == loop[i].gen
  <2>1. /\ h \in Generation /\ LoopGoes(i, Scheduling)
        /\ runner'[i][h] = NoRunner /\ RunnersBut(i, h) /\ MemBut(i, h)
        /\ row'[h].task.status \in Settled /\ row'[h].holder = None /\ RowsBut(h)
    BY <1>4, FinalizeActs
  <2>2. Alive(i, h)
    BY <1>4 DEF Tasks, RunnerFits, Finalize
  <2>3. LoopsCalm(g)
    BY <2>1, RestingOps, LoopCalm
  <2>4. CASE h # g
    <3>1. RowCalm(g)
      BY <2>1, <2>4 DEF RowCalm, RowsBut
    <3>2. RunnersCalm(g)
      BY <2>1, <2>4, RunnerCalm
    <3>3. QED
      BY <2>3, <3>1, <3>2, RunOnceCalm
  <2>5. CASE h = g
    <3>1. row[g].task.status \in {"running", "interrupted"}
      BY <2>2, <2>5 DEF RunOnce
    <3>2. \A j \in Instance : ~Creating(j, g)' /\ ~Deciding(j, g)' /\ ~Requeueing(j, g)'
      BY <2>3, <3>1, NobodyDecides DEF LoopsCalm, Settled
    <3>3. \A j \in Instance : ~Alive(j, g)'
      BY <2>1, <2>2, <2>5 DEF RunnersBut, RunOnce, Alive
    <3>4. QED
      BY <2>1, <2>5, <3>2, <3>3 DEF RunOnce
  <2>6. QED
    BY <2>4, <2>5
<1>5. CASE StoreFails(i)
  <2>1. row' = row /\ mem' = mem
    BY <1>5, StoreFailsActs
  <2>2. LoopsCalm(g)
    <3>1. CASE \E t \in Task : LoopGoes(i, At("finalizing", loop[i].gen, t))
      <4>1. PICK t \in Task : LoopGoes(i, At("finalizing", loop[i].gen, t))
        BY <3>1
      <4>2. At("finalizing", loop[i].gen, t).op = "finalizing"
        BY DEF At
      <4>3. QED
        BY <4>1, <4>2, LoopCalm
    <3>2. CASE LoopGoes(i, Idle)
      BY <3>2, RestingOps, LoopCalm
    <3>3. QED
      BY <1>5, <3>1, <3>2, StoreFailsActs
  <2>3. RunnersCalm(g)
    <3>1. \/ runner' = runner
          \/ \E h \in Generation : RunnersBut(i, h) /\ ~Alive(i, h)'
      BY <1>5, StoreFailsActs DEF Alive
    <3>2. QED
      BY <2>1, <3>1, RunnerCalm
  <2>4. QED
    BY <2>1, <2>2, <2>3, RunOnceCalm DEF RowCalm
<1>6. QED
  BY <1>1, <1>2, <1>3, <1>4, <1>5

LEMMA RunOnceCreate ==
    ASSUME IInv, NEW g \in Generation, g \notin Derived, RunOnce(g), NEW i \in Instance,
           \/ \E u \in User : CreatePuts(i, u)
           \/ \E h \in Generation : CreateLoads(i, h) \/ CreateAgain(i, h)
    PROVE  RunOnce(g)'
<1>1. ASSUME NEW u \in User, CreatePuts(i, u)
      PROVE  RunOnce(g)'
  <2> DEFINE h == loop[i].gen
  <2>1. /\ h \in Generation /\ LoopGoes(i, Scheduling) /\ runner' = runner
        /\ MemBut(i, h) /\ RowsBut(h)
        /\ row'[h].task.status = "queued"
        /\ ~Known(h) => row'[h].holder = None
    BY <1>1, CreatePutsActs
  <2>2. LoopsCalm(g)
    BY <2>1, RestingOps, LoopCalm
  <2>3. CASE h # g
    <3>1. RowCalm(g)
      BY <2>1, <2>3 DEF RowCalm, RowsBut
    <3>2. RunnersCalm(g)
      BY <2>1, <2>3, RunnerCalm
    <3>3. QED
      BY <2>2, <3>1, <3>2, RunOnceCalm
  <2>4. CASE h = g
    <3>1. Creating(i, g)
      BY <1>1, <2>4 DEF Creating, CreatePuts
    <3>2. ~Known(g) /\ row[g].task.status = "absent"
      BY <3>1, AbsentStatus DEF RunOnce
    <3>3. \A j \in Instance : ~Alive(j, g)'
      BY <2>1, <3>2, NobodyAlive DEF Alive
    <3>4. \A j \in Instance : ~Creating(j, g)'
      BY <2>1, <3>1, RestingOps DEF RunOnce, Creating, LoopGoes
    <3>5. \A j \in Instance : ~Deciding(j, g)' /\ ~Requeueing(j, g)'
      BY <2>2, <3>2 DEF RunOnce, LoopsCalm, Settled
    <3>6. QED
      BY <2>1, <2>4, <3>2, <3>3, <3>4, <3>5 DEF RunOnce
  <2>5. QED
    BY <2>3, <2>4
<1>2. ASSUME NEW h \in Generation, CreateLoads(i, h)
      PROVE  RunOnce(g)'
  <2>1. /\ ~Known(h) /\ LoopGoes(i, At("creating", h, NoTask))
        /\ UNCHANGED <<row, runner, mem>>
        /\ h \in Derived \/ \A j \in Instance : loop[j].gen # h
    BY <1>2, CreateLoadsActs
  <2>2. At("creating", h, NoTask).gen = h /\ At("creating", h, NoTask).op = "creating"
    BY DEF At
  <2>3. CASE h # g
    <3>1. LoopsCalm(g)
      BY <2>1, <2>2, <2>3, LoopCalm
    <3>2. RunnersCalm(g) /\ RowCalm(g)
      BY <2>1, RunnerCalm DEF RowCalm
    <3>3. QED
      BY <3>1, <3>2, RunOnceCalm
  <2>4. CASE h = g
    <3>1. \A j \in Instance : loop[j].gen # g
      BY <2>1, <2>4
    <3>2. \A j \in Instance : /\ Creating(j, g)' => j = i
                              /\ ~Deciding(j, g)' /\ ~Requeueing(j, g)'
      BY <2>1, <2>2, <2>4, <3>1 DEF LoopGoes, Creating, Deciding, Requeueing
    <3>3. QED
      BY <2>1, <2>4, <3>2 DEF RunOnce, Alive, Known, Is
  <2>5. QED
    BY <2>3, <2>4
<1>3. ASSUME NEW h \in Generation, CreateAgain(i, h)
      PROVE  RunOnce(g)'
  <2>1. h # g /\ LoopGoes(i, Scheduling) /\ UNCHANGED <<row, runner>> /\ MemBut(i, h)
    BY <1>3, CreateAgainActs
  <2>2. LoopsCalm(g)
    BY <2>1, RestingOps, LoopCalm
  <2>3. RunnersCalm(g) /\ RowCalm(g)
    BY <2>1, RunnerCalm DEF RowCalm
  <2>4. QED
    BY <2>2, <2>3, RunOnceCalm
<1>4. QED
  BY <1>1, <1>2, <1>3

\* What a thread serves is derived; what it claims is what the loop claims.
LEMMA RunOnceThread ==
    ASSUME IInv, NEW g \in Generation, g \notin Derived, RunOnce(g), NEW i \in Instance,
           NEW k \in Handoff, ThreadActsOn(i, k)
    PROVE  RunOnce(g)'
<1>1. loop' = loop /\ LoopsCalm(g)
  BY ThreadActs, LoopSame
<1>2. ASSUME NEW h \in Courseware, ServedBy(i, h)
      PROVE  RunOnce(g)'
  <2>1. h # g /\ h \in Generation
    BY ConstantsAssumption
  <2>2. RowCalm(g)
    BY <1>2, <2>1 DEF ServedBy, RowsBut, RowCalm
  <2>3. RunnersCalm(g)
    BY <1>2, <2>1, RunnerCalm DEF ServedBy
  <2>4. QED
    BY <1>1, <2>2, <2>3, RunOnceCalm
<1>3. CASE RowsSwept(Generation) /\ UNCHANGED <<runner, mem>>
  BY <1>1, <1>3, RunOnceSwept
<1>4. ASSUME NEW d \in 0..Lag, NEW h \in Generation, Claims(i, d, h), runner' = runner
      PROVE  RunOnce(g)'
  BY <1>1, <1>4, RunOnceClaims
<1>5. QED
  BY <1>2, <1>3, <1>4, ThreadActs

LEMMA RunOnceRequest ==
    ASSUME IInv, Tasks, NEW g \in Generation, RunOnce(g), NEW i \in Instance, NEW h \in Generation,
           View(i, h) \/ Cancel(i, h) \/ ConfirmReads(i, h) \/ DiscardReads(i, h)
              \/ (RetryReads(i, h) /\ h # g)
    PROVE  RunOnce(g)'
<1>1. CASE View(i, h)
  <2>1. /\ UNCHANGED <<row, loop, runner>> /\ MemBut(i, h) /\ mem'[i][h] = Get(i, h)
    BY <1>1, ViewActs
  <2>2. RunnersCalm(g)
    BY <2>1 DEF RunnersCalm, RunOnce, MemBut, Alive, Get
  <2>3. QED
    BY <2>1, <2>2, LoopSame, RunOnceCalm DEF RowCalm
<1>2. CASE Cancel(i, h)
  <2>1. /\ loop' = loop /\ RowsBut(h) /\ RunnersBut(i, h) /\ MemBut(i, h)
        /\ RowGoes(h, IF Is(h, "queued") THEN "cancelled" ELSE row[h].task.status, row[h].holder)
        /\ mem'[i][h].status = row'[h].task.status /\ Known(h)
        /\ Alive(i, h)' => Alive(i, h)
    BY <1>2, CancelActs
  <2>2. LoopsCalm(g)
    BY <2>1, LoopSame
  <2>3. CASE h # g
    <3>1. RunnersCalm(g)
      BY <2>1, <2>3, RunnerCalm
    <3>2. QED
      BY <2>1, <2>2, <2>3, <3>1, RunOnceCalm DEF RowCalm, RowsBut
  <2>4. CASE h = g
    <3>1. \A j \in Instance : Alive(j, g)' => Alive(j, g)
      BY <2>1, <2>4 DEF RunnersBut, Alive
    <3>2. ASSUME NEW j \in Instance, Alive(j, g)'
          PROVE  /\ row'[g].task.status = row[g].task.status
                 /\ mem'[j][g].status \in {"running", "interrupted"}
                 /\ row'[g].task.status \in {"running", "interrupted"}
      <4>1. row[g].task.status \in {"running", "interrupted"}
        BY <3>1, <3>2 DEF RunOnce
      <4>2. row'[g].task.status = row[g].task.status
        BY <2>1, <2>4, <4>1 DEF RowGoes, Is
      <4>3. mem'[j][g].status \in {"running", "interrupted"}
        BY <2>1, <2>4, <3>1, <3>2, <4>1, <4>2 DEF MemBut, RunOnce
      <4>4. QED
        BY <4>1, <4>2, <4>3
    <3>3. \A j \in Instance : ~Creating(j, g) /\ ~Creating(j, g)' /\ ~Requeueing(j, g)'
      BY <2>1, <2>2, <2>4 DEF RunOnce, LoopsCalm
    <3>4. \A j \in Instance : Deciding(j, g)' => row'[g].task.status \in Settled
      BY <2>1, <2>2, <2>4 DEF RunOnce, LoopsCalm, RowGoes, Is, Settled
    <3>5. ~Is(g, "running")' => row'[g].holder = None
      BY <2>1, <2>4 DEF RowGoes, RunOnce, Is
    <3>6. QED
      BY <3>1, <3>2, <3>3, <3>4, <3>5 DEF RunOnce
  <2>5. QED
    BY <2>3, <2>4
<1>3. CASE ConfirmReads(i, h) \/ DiscardReads(i, h) \/ (RetryReads(i, h) /\ h # g)
  <2>1. /\ UNCHANGED <<row, runner>> /\ MemBut(i, h)
        /\ Get(i, h).status \in {"interrupted", "needs_review", "failed"}
    BY <1>3, RequestReadsActs
  <2>2. PICK op \in {"requeueing", "confirming", "discarding"}, t \in Task :
           /\ LoopGoes(i, At(op, h, t))
           /\ op # "requeueing" => Get(i, h).status = "needs_review"
           /\ op = "requeueing" => retries' = [retries EXCEPT ![h] = retries[h] + 1]
    BY <1>3, RequestReadsActs
  <2>3. At(op, h, t).op = op /\ At(op, h, t).gen = h
    BY DEF At
  <2>4. CASE h # g
    <3>1. LoopsCalm(g)
      BY <2>2, <2>3, <2>4, LoopCalm
    <3>2. RunnersCalm(g)
      BY <2>1, <2>4, RunnerCalm
    <3>3. QED
      BY <2>1, <3>1, <3>2, RunOnceCalm DEF RowCalm
  <2>5. CASE h = g
    <3>1. Get(i, g).status = "needs_review"
      BY <1>3, <2>5 DEF ConfirmReads, DiscardReads
    <3>2. ~Alive(i, g) /\ row[g].task.status = "needs_review"
      <4>1. ~Alive(i, g)
        BY <3>1 DEF Get, RunOnce
      <4>2. runner[i][g].known = FALSE
        BY <4>1 DEF Alive, NoRunner
      <4>3. QED
        BY <3>1, <4>1, <4>2 DEF Get
    <3>3. op # "requeueing"
      <4>1. retries' = retries /\ retries[g] \in Int
        BY <1>3, <2>5, ConstantsAssumption DEF ConfirmReads, DiscardReads, IInv, Others
      <4>2. retries \in [Generation -> 0..MaxRetries]
        BY DEF IInv, Others
      <4>3. QED
        BY <2>2, <2>5, <4>1, <4>2
    <3>4. LoopsCalm(g)
      BY <2>2, <2>3, <3>2, <3>3, LoopCalm DEF Settled
    <3>5. RunnersCalm(g)
      BY <2>1, <2>5, <3>2, RunnerCalm DEF Alive
    <3>6. QED
      BY <2>1, <3>4, <3>5, RunOnceCalm DEF RowCalm
  <2>6. QED
    BY <2>4, <2>5
<1>4. QED
  BY <1>1, <1>2, <1>3

LEMMA RunOncePuts ==
    ASSUME IInv, Tasks, NEW g \in Generation, RunOnce(g), NEW i \in Instance,
           RetryPuts(i) \/ RetryClears(i) \/ ReviewPuts(i) \/ ConfirmSaves(i)
    PROVE  RunOnce(g)'
<1>1. CASE ConfirmSaves(i)
  <2>1. loop[i].op = "confirming" /\ UNCHANGED <<row, runner, mem>>
    BY <1>1, SaveActs DEF ConfirmSaves
  <2>2. PICK t \in Task : LoopGoes(i, At("releasing", loop[i].gen, t))
    BY <1>1, <2>1, SaveActs
  <2>3. /\ At("releasing", loop[i].gen, t).op = "releasing"
        /\ At("releasing", loop[i].gen, t).gen = loop[i].gen
    BY DEF At
  <2>4. LoopsCalm(g)
    BY <2>1, <2>2, <2>3, LoopCalm DEF Deciding
  <2>5. RunnersCalm(g) /\ RowCalm(g)
    BY <2>1, RunnerCalm DEF RowCalm
  <2>6. QED
    BY <2>4, <2>5, RunOnceCalm
<1>2. CASE RetryPuts(i) \/ RetryClears(i) \/ ReviewPuts(i)
  <2> DEFINE h == loop[i].gen
  <2>1. /\ h \in Generation /\ UNCHANGED <<runner, mem>>
        /\ loop[i].op \in {"requeueing", "clearing", "releasing", "discarding"}
        /\ RowGoes(h, IF loop[i].op = "clearing" THEN row[h].task.status
                      ELSE loop[i].task.status, row[h].holder)
        /\ RowsBut(h)
    BY <1>2, RequestPutsActs
  <2>2. PICK l \in {Scheduling, Idle, At("clearing", h, loop[i].task)} :
           /\ LoopGoes(i, l)
           /\ loop[i].op # "requeueing" => l \in {Scheduling, Idle}
    BY <1>2, RequestPutsActs
  <2>3. l \in {Scheduling, Idle} \/ l.gen = h
    BY <2>2 DEF At
  <2>4. CASE h # g
    <3>1. LoopsCalm(g)
      BY <2>2, <2>3, <2>4, RestingOps, LoopCalm
    <3>2. RunnersCalm(g) /\ RowCalm(g)
      BY <2>1, <2>4, RunnerCalm DEF RowCalm, RowsBut
    <3>3. QED
      BY <3>1, <3>2, RunOnceCalm
  <2>5. CASE h = g
    <3>1. loop[i].op \in {"releasing", "discarding"} /\ Deciding(i, g)
      BY <2>1, <2>5 DEF RunOnce, Requeueing, Deciding
    <3>2. loop[i].task.status \in Settled
      BY <3>1 DEF Tasks, TaskFits, Settled
    <3>3. row[g].task.status \in Settled /\ row'[g].task.status \in Settled
      BY <2>1, <2>5, <3>1, <3>2 DEF RunOnce, RowGoes
    <3>4. LoopsCalm(g)
      BY <2>2, <3>1, RestingOps, LoopCalm
    <3>5. \A j \in Instance : ~Alive(j, g)'
      BY <2>1, <3>3, NobodyAlive DEF Alive, Settled
    <3>6. \A j \in Instance : ~Creating(j, g)' /\ ~Requeueing(j, g)'
      BY <3>3, <3>4, AbsentStatus DEF RunOnce, LoopsCalm, Settled
    <3>7. row'[g].holder = None
      BY <2>1, <2>5, <3>3 DEF RowGoes, RunOnce, Is, Settled
    <3>8. QED
      BY <3>3, <3>5, <3>6, <3>7 DEF RunOnce
  <2>6. QED
    BY <2>4, <2>5
<1>3. QED
  BY <1>1, <1>2

LEMMA RunOnceStep ==
    ASSUME IInv, Tasks, [Next]_vars, NEW g \in Generation, Untouched(g) => RunOnce(g),
           Untouched(g)'
    PROVE  RunOnce(g)'
<1>1. RunOnce(g) /\ g \notin Derived /\ \A i \in Instance : ~RetryReads(i, g)
  BY UntouchedBefore DEF Untouched
<1>2. ASSUME NEW i \in Instance, Boot(i)
      PROVE  RunOnce(g)'
  <2>1. LoopGoes(i, At("starting", None, NoTask)) /\ UNCHANGED <<row, runner, mem>>
    BY <1>2, LoopActs DEF Boot
  <2>2. LoopsCalm(g)
    BY <1>1, <2>1, RestingOps, LoopCalm
  <2>3. QED
    BY <1>1, <2>1, <2>2, RunnerCalm, RunOnceCalm DEF RowCalm
<1>3. ASSUME NEW i \in Instance, Start(i)
      PROVE  RunOnce(g)'
  <2>1. LoopsCalm(g)
    BY <1>1, <1>3, StartActs, RestingOps, LoopCalm
  <2>2. QED
    BY <1>1, <1>3, <2>1, StartActs, RunOnceSwept
<1>4. ASSUME NEW i \in Instance, NEW d \in 0..Lag, ClaimNext(i, d)
      PROVE  RunOnce(g)'
  <2>1. CASE RowsSwept(Generation) /\ LoopGoes(i, Idle) /\ UNCHANGED <<runner, mem>>
    <3>1. LoopsCalm(g)
      BY <1>1, <2>1, RestingOps, LoopCalm
    <3>2. QED
      BY <1>1, <2>1, <3>1, RunOnceSwept
  <2>2. ASSUME NEW h \in Generation, Claims(i, d, h), loop' = loop, RunnersBut(i, h)
        PROVE  RunOnce(g)'
    BY <1>1, <2>2, RunOnceClaims
  <2>3. QED
    BY <1>4, <2>1, <2>2, ClaimNextActs
<1>5. ASSUME NEW i \in Instance, NEW k \in Handoff, ThreadActsOn(i, k)
      PROVE  RunOnce(g)'
  BY <1>1, <1>5, RunOnceThread
<1>6. ASSUME NEW i \in Instance, NEW h \in Generation, UserStep(i, h)
      PROVE  RunOnce(g)'
  BY <1>1, <1>5, <1>6, RunOnceCreate, RunOnceRequest DEF UserStep, ThreadActsOn
<1>7. CASE UNCHANGED vars \/ Tick \/ \E i \in Instance, h \in Generation : Renew(i, h)
  <2>1. UNCHANGED <<row, loop, runner, mem>>
    BY <1>7, TimeActs DEF vars
  <2>2. QED
    BY <1>1, <2>1, LoopSame, RunnerCalm, RunOnceCalm DEF RowCalm
<1>8. ASSUME NEW i \in Instance, LoopStep(i)
      PROVE  RunOnce(g)'
  BY <1>1, <1>3, <1>4, <1>8, RunOnceCreate, RunOnceRunner, RunOncePuts DEF LoopStep
<1>9. ASSUME NEW i \in Instance, NEW k \in Handoff, ThreadStep(i, k) \/ StoreFailsOffLoop(i, k)
      PROVE  RunOnce(g)'
  BY <1>5, <1>9 DEF ThreadActsOn
<1>10. QED
  BY <1>1, <1>2, <1>6, <1>7, <1>8, <1>9, RunOnceCrash, RunOnceRunner DEF Next

LEMMA RunOnceInit == Init => OneRunner
<1> SUFFICES ASSUME Init, NEW g \in Generation
             PROVE  RunOnce(g)
  BY DEF OneRunner
<1>1. \A i \in Instance : ~Alive(i, g) /\ loop[i].op = "down"
  BY RestingOps DEF Init, Alive, Down, At
<1>2. ~Is(g, "running") /\ row[g].holder = None
  BY DEF Init, Is, Absent, NoTask
<1>3. QED
  BY <1>1, <1>2 DEF RunOnce, Creating, Requeueing, Deciding

\* Whatever the number of instances, the faults and the leases that lapse: a generation
\* that is submitted under an id of its own and not retried has one runner at most,
\* none before it is claimed and none after its outcome; nobody else creates it, queues
\* it or decides it meanwhile.
THEOREM OneRunnerEach == Spec => []OneRunner
<1>1. IInv /\ Tasks /\ OneRunner /\ [Next]_vars => OneRunner'
  BY RunOnceStep DEF OneRunner
<1>2. QED
  BY <1>1, RunOnceInit, Invariance, TasksHold, PTL DEF Spec

\* Where nothing is retried and no id is submitted twice, everything is untouched.
LEMMA AllUntouched ==
    ASSUME IInv, MaxRetries = 0, Derived = {}
    PROVE  \A g \in Generation : Untouched(g)
BY DEF IInv, Others, Untouched

\* Without retries and derived ids no generation is worked on by two instances: the
\* lease and the claim of a queued row are enough.
THEOREM OneInstanceWithoutRetries ==
    ASSUME MaxRetries = 0, Derived = {}
    PROVE  Spec => []OneInstancePerGeneration
<1>1. IInv /\ OneRunner => OneInstancePerGeneration
  BY AllUntouched DEF OneRunner, RunOnce, OneInstancePerGeneration
<1>2. QED
  BY <1>1, Invariance, OneRunnerEach, PTL

-----------------------------------------------------------------------------
(* Cancellations. *)

\* An outcome that finds a request to cancel is no success.
LEMMA FinalizeObeys ==
    ASSUME IInv, NEW i \in Instance, Finalize(i), row[loop[i].gen].task.flag
    PROVE  row'[loop[i].gen].task.status \in {"cancelled", "failed"}
<1> DEFINE g == loop[i].gen
           t == Outcome(g, loop[i].task)
<1>1. g \in Generation /\ loop[i].task \in Task
  BY Busy DEF Finalize
<1>2. t.status \in {"cancelled", "failed"}
  <2> DEFINE u == [loop[i].task EXCEPT !.status = "cancelled", !.flag = TRUE]
  <2>1. u.status = "cancelled"
    BY <1>1 DEF Task
  <2>2. t = u \/ t.status \in {"cancelled", "failed"}
    BY DEF Outcome
  <2> HIDE DEF u, t
  <2>3. QED
    BY <2>1, <2>2
<1>3. row' = [row EXCEPT ![g].task = t, ![g].holder = None]
  BY DEF Finalize
<1> HIDE DEF t
<1>4. row'[g].task = t
  BY <1>1, <1>3, RowsHold DEF IInv, Rows, Row
<1>5. QED
  BY <1>2, <1>4

\* Where the status of a generation comes from: an outcome, a review, or one of the
\* steps that never record a success.
LEMMA StatusChanges ==
    ASSUME IInv, Tasks, [Next]_vars, NEW g \in Generation
    PROVE  \/ row'[g].task.status = row[g].task.status
           \/ row'[g].task.status \in {"queued", "running", "interrupted", "cancelled"}
           \/ \E i \in Instance : Finalize(i) /\ loop[i].gen = g
           \/ \E i \in Instance : Deciding(i, g) /\ ReviewPuts(i)
<1> DEFINE Easy == \/ row'[g].task.status = row[g].task.status
                   \/ row'[g].task.status \in {"queued", "running", "interrupted", "cancelled"}
<1>1. row' = row => Easy
  OBVIOUS
<1>2. RowsSwept(Generation) => Easy
  BY DEF RowsSwept, RowLost, RowGoes
<1>3. ASSUME NEW i \in Instance, Boot(i) \/ Crash(i) \/ StoreFails(i)
      PROVE  Easy
  <2>1. CASE Boot(i)
    BY <2>1 DEF Boot
  <2>2. CASE Crash(i)
    BY <2>2, CrashActs DEF RowGoes
  <2>3. CASE StoreFails(i)
    BY <2>3, StoreFailsActs
  <2>4. QED
    BY <1>3, <2>1, <2>2, <2>3
<1>4. ASSUME NEW i \in Instance, NEW d \in 0..Lag, NEW h \in Generation, Claims(i, d, h)
      PROVE  Easy
  <2>1. RowGoes(h, "running", i) /\ RowsSwept(Generation \ {h})
    BY <1>4, ClaimActs
  <2>2. QED
    BY <2>1 DEF RowsSwept, RowLost, RowGoes
<1>5. ASSUME NEW i \in Instance, NEW d \in 0..Lag, ClaimNext(i, d)
      PROVE  Easy
  BY <1>2, <1>4, <1>5, ClaimNextActs
<1>6. ASSUME NEW i \in Instance, PersistRun(i)
      PROVE  Easy
  <2>1. loop[i].task.status = "running"
    BY <1>6 DEF Tasks, TaskFits, PersistRun
  <2>2. QED
    BY <1>6, <2>1, PersistRunActs DEF RowGoes, RowsBut
<1>7. ASSUME NEW i \in Instance, Finalize(i), loop[i].gen # g
      PROVE  Easy
  BY <1>7, FinalizeActs DEF RowsBut
<1>8. ASSUME NEW i \in Instance, NEW u \in User, CreatePuts(i, u)
      PROVE  Easy
  BY <1>8, CreatePutsActs DEF RowsBut
<1>9. ASSUME NEW i \in Instance, RetryPuts(i) \/ RetryClears(i) \/ ReviewPuts(i),
             ~(Deciding(i, g) /\ ReviewPuts(i))
      PROVE  Easy
  <2>1. /\ RowGoes(loop[i].gen, IF loop[i].op = "clearing" THEN row[loop[i].gen].task.status
                                ELSE loop[i].task.status, row[loop[i].gen].holder)
        /\ RowsBut(loop[i].gen)
    BY <1>9, RequestPutsActs
  <2>2. CASE loop[i].gen # g
    BY <2>1, <2>2 DEF RowsBut
  <2>3. CASE loop[i].gen = g
    <3>1. loop[i].op \in {"requeueing", "clearing"}
      BY <1>9, <2>3 DEF RetryPuts, RetryClears, ReviewPuts, Deciding
    <3>2. loop[i].task.status = "queued"
      BY <3>1 DEF Tasks, TaskFits
    <3>3. QED
      BY <2>1, <2>3, <3>2 DEF RowGoes
  <2>4. QED
    BY <2>2, <2>3
<1>10. ASSUME NEW i \in Instance, NEW h \in Generation, UserStep(i, h)
       PROVE  Easy
  <2>1. CASE CreateLoads(i, h) \/ CreateAgain(i, h)
    BY <1>1, <2>1, CreateLoadsActs, CreateAgainActs
  <2>2. CASE \E k \in Handoff : ThreadLoads(i, k, h)
    BY <1>1, <2>2 DEF ThreadLoads
  <2>3. CASE View(i, h)
    BY <1>1, <2>3, ViewActs
  <2>4. CASE Cancel(i, h)
    BY <2>4, CancelActs DEF RowGoes, RowsBut
  <2>5. CASE RetryReads(i, h) \/ ConfirmReads(i, h) \/ DiscardReads(i, h)
    BY <1>1, <2>5, RequestReadsActs
  <2>6. QED
    BY <1>10, <2>1, <2>2, <2>3, <2>4, <2>5 DEF UserStep
<1>11. ASSUME UNCHANGED vars \/ Tick \/ \E i \in Instance, h \in Generation : Renew(i, h)
       PROVE  Easy
  BY <1>11, <1>1, TimeActs DEF vars
<1>12. ASSUME NEW i \in Instance, NEW h \in Generation, RunnerStep(i, h)
       PROVE  Easy
  BY <1>12, RunnerStepActs
<1>13. ASSUME NEW i \in Instance, LoopStep(i)
       PROVE  \/ Easy
              \/ \E j \in Instance : Finalize(j) /\ loop[j].gen = g
              \/ \E j \in Instance : Deciding(j, g) /\ ReviewPuts(j)
  <2>1. Start(i) \/ SaveGeneration(i) \/ ConfirmSaves(i) => Easy
    BY <1>1, <1>2, StartActs, SaveActs
  <2>2. QED
    BY <1>5, <1>6, <1>7, <1>8, <1>9, <1>13, <2>1 DEF LoopStep
<1>14. ASSUME NEW i \in Instance, NEW k \in Handoff, ThreadActsOn(i, k)
       PROVE  Easy
  <2>1. ASSUME NEW h \in Courseware, ServedBy(i, h)
        PROVE  Easy
    BY <2>1 DEF ServedBy, RowsBut
  <2>2. QED
    BY <1>2, <1>4, <1>14, <2>1, ThreadActs
<1> DEFINE Goal == \/ Easy
                   \/ \E j \in Instance : Finalize(j) /\ loop[j].gen = g
                   \/ \E j \in Instance : Deciding(j, g) /\ ReviewPuts(j)
<1>15. Easy => Goal
  OBVIOUS
<1> HIDE DEF Easy, Goal
<1>16. ASSUME NEW i \in Instance,
              \/ Boot(i) \/ Crash(i) \/ StoreFails(i) \/ LoopStep(i)
              \/ \E k \in Handoff : ThreadStep(i, k) \/ StoreFailsOffLoop(i, k)
              \/ \E h \in Generation : RunnerStep(i, h) \/ Renew(i, h) \/ UserStep(i, h)
       PROVE  Goal
  <2>1. CASE Boot(i) \/ Crash(i) \/ StoreFails(i)
    BY <1>3, <1>15, <2>1
  <2>2. CASE LoopStep(i)
    BY <1>13, <2>2 DEF Goal
  <2>3. ASSUME NEW h \in Generation, RunnerStep(i, h) \/ Renew(i, h) \/ UserStep(i, h)
        PROVE  Goal
    BY <1>10, <1>11, <1>12, <1>15, <2>3
  <2>4. ASSUME NEW k \in Handoff, ThreadStep(i, k) \/ StoreFailsOffLoop(i, k)
        PROVE  Goal
    BY <1>15, <1>14, <2>4 DEF ThreadActsOn
  <2>5. QED
    BY <1>16, <2>1, <2>2, <2>3, <2>4
<1>17. Goal
  <2>1. CASE UNCHANGED vars \/ Tick
    BY <1>11, <1>15, <2>1
  <2>2. QED
    BY <1>16, <2>1 DEF Next
<1>18. QED
  BY <1>17 DEF Easy, Goal

\* A running generation that is to be cancelled has no review to be decided.
LEMMA CancelObeyed ==
    ASSUME IInv, Tasks, [Next]_vars, NEW g \in Generation,
           Is(g, "running"), row[g].task.flag,
           \A i \in Instance : Deciding(i, g) => row[g].task.status \in Settled
    PROVE  row'[g].task.status \notin {"completed", "needs_review"}
<1>1. \A i \in Instance : ~Deciding(i, g)
  BY DEF Is, Settled
<1>2. QED
  BY <1>1, StatusChanges, FinalizeObeys DEF Is

\* A cancellation recorded while a generation runs is not overwritten by its success,
\* on whichever instance it runs, as long as it was submitted once and not retried.
THEOREM CancelPrevailsOnce ==
    Spec => [][\A g \in Generation : Untouched(g) /\ Is(g, "running") /\ row[g].task.flag
                  => row'[g].task.status \notin {"completed", "needs_review"}]_vars
<1>1. IInv /\ Tasks /\ OneRunner /\ [Next]_vars =>
         [\A g \in Generation : Untouched(g) /\ Is(g, "running") /\ row[g].task.flag
                  => row'[g].task.status \notin {"completed", "needs_review"}]_vars
  BY CancelObeyed DEF OneRunner, RunOnce
<1>2. QED
  BY <1>1, Invariance, TasksHold, OneRunnerEach, PTL DEF Spec

\* Without retries and derived ids a recorded cancellation always prevails.
THEOREM CancelPrevailsWithoutRetries ==
    ASSUME MaxRetries = 0, Derived = {}
    PROVE  Spec => CancelPrevails
<1>1. IInv /\ Tasks /\ OneRunner /\ [Next]_vars =>
         [\A g \in Generation : Is(g, "running") /\ row[g].task.flag
                  => row'[g].task.status \notin {"completed", "needs_review"}]_vars
  BY AllUntouched, CancelObeyed DEF OneRunner, RunOnce
<1>2. QED
  BY <1>1, Invariance, TasksHold, OneRunnerEach, PTL DEF Spec, CancelPrevails

-----------------------------------------------------------------------------
(* The lease of a runner. *)

\* What becomes of the row of g while it has a runner: it goes on under its lease.
RowKept(g) ==
    \/ row'[g] = row[g]
    \/ RowLost(g)
    \/ RowGoes(g, "running", row[g].holder)

\* No runner of g starts, its row is kept, and its lease does not run.
LEMMA LeasedCalm ==
    ASSUME IInv, IInv', NEW g \in Generation, RunnerLeased(g),
           lease'[g] >= lease[g] \/ RowLost(g),
           \A j \in Instance : Alive(j, g)' => Alive(j, g) /\ RowKept(g)
    PROVE  RunnerLeased(g)'
<1>1. lease[g] \in Int /\ lease'[g] \in Int
  BY DEF IInv, Others
<1>2. ASSUME NEW j \in Instance, Alive(j, g)'
      PROVE  Is(g, "running")' /\ row'[g].holder = j /\ lease'[g] >= 0
  <2>1. Is(g, "running") /\ row[g].holder = j /\ lease[g] >= 0 /\ j # None
    BY <1>2, ConstantsAssumption DEF RunnerLeased
  <2>2. ~RowLost(g)
    BY <1>1, <2>1 DEF RowLost
  <2>3. Is(g, "running")' /\ row'[g].holder = j
    BY <1>2, <2>1, <2>2 DEF RowKept, RowGoes, Is
  <2>4. QED
    BY <1>1, <2>1, <2>2, <2>3
<1>3. QED
  BY <1>2 DEF RunnerLeased

\* Steps that leave the row and the lease of g alone, or sweep, and start no runner.
LEMMA LeasedSame ==
    ASSUME IInv, IInv', NEW g \in Generation, RunnerLeased(g),
           UNCHANGED <<row, lease>> \/ RowsSwept({g}),
           \A j \in Instance : Alive(j, g)' => Alive(j, g)
    PROVE  RunnerLeased(g)'
<1>1. (lease'[g] >= lease[g] \/ RowLost(g)) /\ RowKept(g)
  BY DEF IInv, Others, RowsSwept, RowKept
<1>2. QED
  BY <1>1, LeasedCalm

LEMMA LeasedClaims ==
    ASSUME IInv, IInv', NEW g \in Generation, RunOnce(g), RunnerLeased(g),
           NEW i \in Instance, NEW d \in 0..Lag, NEW h \in Generation, Claims(i, d, h),
           runner' = runner \/ RunnersBut(i, h)
    PROVE  RunnerLeased(g)'
<1>1. /\ Is(h, "queued") /\ RowGoes(h, "running", i) /\ RowsSwept(Generation \ {h})
      /\ lease'[h] >= 0
  BY ClaimActs
<1>2. CASE h # g
  <2>1. RowsSwept({g})
    BY <1>1, <1>2 DEF RowsSwept
  <2>2. \A j \in Instance : Alive(j, g)' => Alive(j, g)
    BY <1>2 DEF RunnersBut, Alive
  <2>3. QED
    BY <2>1, <2>2, LeasedSame
<1>3. CASE h = g
  <2>1. \A j \in Instance : ~Alive(j, g)
    BY <1>1, <1>3, NobodyAlive DEF Is
  <2>2. \A j \in Instance : Alive(j, g)' => j = i
    BY <1>3, <2>1 DEF RunnersBut, Alive
  <2>3. QED
    BY <1>1, <1>3, <2>2 DEF RunnerLeased, RowGoes, Is
<1>4. QED
  BY <1>2, <1>3

LEMMA LeasedRunner ==
    ASSUME IInv, IInv', Tasks, NEW g \in Generation, RunOnce(g), RunnerLeased(g),
           NEW i \in Instance,
           \/ \E h \in Generation : RunnerStep(i, h)
           \/ PersistRun(i) \/ SaveGeneration(i) \/ Finalize(i) \/ StoreFails(i) \/ Crash(i)
    PROVE  RunnerLeased(g)'
<1>1. lease' = lease => lease'[g] >= lease[g]
  BY DEF IInv, Others
<1>2. CASE (\E h \in Generation : RunnerStep(i, h)) \/ SaveGeneration(i)
  <2>1. UNCHANGED <<row, lease, runner>>
    BY <1>2, RunnerStepActs, SaveActs
  <2>2. QED
    BY <2>1, LeasedSame DEF Alive
<1>3. CASE PersistRun(i)
  <2> DEFINE h == loop[i].gen
  <2>1. /\ h \in Generation /\ lease' = lease /\ RunnersBut(i, h)
        /\ RowGoes(h, loop[i].task.status, row[h].holder) /\ RowsBut(h)
    BY <1>3, PersistRunActs
  <2>2. loop[i].task.status = "running" /\ Alive(i, h)
    BY <1>3 DEF Tasks, TaskFits, RunnerFits, PersistRun
  <2>3. \A j \in Instance : Alive(j, g)' => Alive(j, g)
    BY <2>1, <2>2 DEF RunnersBut, Alive
  <2>4. RowKept(g)
    BY <2>1, <2>2 DEF RowKept, RowsBut
  <2>5. QED
    BY <1>1, <2>1, <2>3, <2>4, LeasedCalm
<1>4. CASE Finalize(i)
  <2> DEFINE h == loop[i].gen
  <2>1. /\ h \in Generation /\ LeasesBut(h) /\ RowsBut(h)
        /\ runner'[i][h] = NoRunner /\ RunnersBut(i, h)
    BY <1>4, FinalizeActs
  <2>2. Alive(i, h)
    BY <1>4 DEF Tasks, RunnerFits, Finalize
  <2>3. \A j \in Instance : Alive(j, g)' => Alive(j, g) /\ h # g
    BY <2>1, <2>2 DEF RunnersBut, RunOnce, Alive
  <2>4. h # g => RowKept(g) /\ lease'[g] >= lease[g]
    BY <2>1 DEF RowKept, RowsBut, LeasesBut, IInv, Others
  <2> HIDE DEF h
  <2>5. CASE h # g
    BY <2>3, <2>4, <2>5, LeasedCalm
  <2>6. CASE h = g
    BY <2>3, <2>6 DEF RunnerLeased
  <2>7. QED
    BY <2>5, <2>6
<1>5. CASE StoreFails(i)
  <2>1. UNCHANGED <<row, lease>>
    BY <1>5, StoreFailsActs
  <2>2. \A j \in Instance : Alive(j, g)' => Alive(j, g)
    BY <1>5, StoreFailsActs DEF RunnersBut, Alive
  <2>3. QED
    BY <2>1, <2>2, LeasedSame
<1>6. CASE Crash(i)
  <2>1. \A j \in Instance : Alive(j, g)' => Alive(j, g) /\ j # i
    BY <1>6, CrashActs DEF Alive
  <2>2. ASSUME NEW j \in Instance, Alive(j, g)'
        PROVE  RowKept(g)
    BY <1>6, <2>1, <2>2, CrashActs DEF RowKept, RunnerLeased
  <2>3. QED
    BY <1>1, <1>6, <2>1, <2>2, CrashActs, LeasedCalm
<1>7. QED
  BY <1>2, <1>3, <1>4, <1>5, <1>6

LEMMA LeasedRequest ==
    ASSUME IInv, IInv', Tasks, NEW g \in Generation, g \notin Derived, RunOnce(g),
           RunnerLeased(g), NEW i \in Instance,
           \/ \E h \in Generation : UserStep(i, h)
           \/ \E u \in User : CreatePuts(i, u)
           \/ RetryPuts(i) \/ RetryClears(i) \/ ReviewPuts(i) \/ ConfirmSaves(i)
    PROVE  RunnerLeased(g)'
<1>1. lease' = lease => lease'[g] >= lease[g]
  BY DEF IInv, Others
<1>2. ASSUME NEW u \in User, CreatePuts(i, u)
      PROVE  RunnerLeased(g)'
  <2> DEFINE h == loop[i].gen
  <2>1. h \in Generation /\ UNCHANGED <<lease, runner>> /\ RowsBut(h)
    BY <1>2, CreatePutsActs
  <2>2. h = g => Creating(i, g)
    BY <1>2 DEF Creating, CreatePuts
  <2>3. h = g => \A j \in Instance : ~Alive(j, g)
    BY <2>2, AbsentStatus, NobodyAlive DEF RunOnce
  <2>4. h # g => RowKept(g)
    BY <2>1 DEF RowKept, RowsBut
  <2> HIDE DEF h
  <2>5. QED
    BY <1>1, <2>1, <2>3, <2>4, LeasedCalm DEF Alive
<1>3. ASSUME NEW h \in Generation, UserStep(i, h)
      PROVE  RunnerLeased(g)'
  <2>1. CASE \/ CreateLoads(i, h) \/ CreateAgain(i, h) \/ View(i, h)
             \/ RetryReads(i, h) \/ ConfirmReads(i, h) \/ DiscardReads(i, h)
    <3>1. UNCHANGED <<row, lease, runner>>
      BY <2>1, CreateLoadsActs, CreateAgainActs, ViewActs, RequestReadsActs
    <3>2. QED
      BY <3>1, LeasedSame DEF Alive
  <2>2. CASE \E k \in Handoff : ThreadLoads(i, k, h)
    <3>1. UNCHANGED <<row, lease, runner>>
      BY <2>2 DEF ThreadLoads
    <3>2. QED
      BY <3>1, LeasedSame DEF Alive
  <2>3. CASE Cancel(i, h)
    <3>1. /\ lease' = lease /\ RowsBut(h) /\ RunnersBut(i, h)
          /\ RowGoes(h, IF Is(h, "queued") THEN "cancelled" ELSE row[h].task.status,
                     row[h].holder)
          /\ Alive(i, h)' => Alive(i, h)
      BY <2>3, CancelActs
    <3>2. \A j \in Instance : Alive(j, g)' => Alive(j, g)
      BY <3>1 DEF RunnersBut, Alive
    <3>3. (\E j \in Instance : Alive(j, g)) => Is(g, "running")
      BY DEF RunnerLeased
    <3>4. Is(g, "running") => RowKept(g)
      BY <3>1 DEF RowKept, RowsBut, RowGoes, Is
    <3>5. QED
      BY <1>1, <3>1, <3>2, <3>3, <3>4, LeasedCalm
  <2>4. QED
    BY <1>3, <2>1, <2>2, <2>3 DEF UserStep
<1>4. CASE ConfirmSaves(i)
  <2>1. UNCHANGED <<row, lease, runner>>
    BY <1>4, SaveActs
  <2>2. QED
    BY <2>1, LeasedSame DEF Alive
<1>5. CASE RetryPuts(i) \/ RetryClears(i) \/ ReviewPuts(i)
  <2> DEFINE h == loop[i].gen
  <2>1. h \in Generation /\ UNCHANGED <<lease, runner>> /\ RowsBut(h)
    BY <1>5, RequestPutsActs
  <2>2. h = g => Requeueing(i, g) \/ Deciding(i, g)
    BY <1>5 DEF Requeueing, Deciding, RetryPuts, RetryClears, ReviewPuts
  <2>3. h = g => \A j \in Instance : ~Alive(j, g)
    BY <2>2 DEF RunOnce, Settled
  <2>4. h # g => RowKept(g)
    BY <2>1 DEF RowKept, RowsBut
  <2> HIDE DEF h
  <2>5. QED
    BY <1>1, <2>1, <2>3, <2>4, LeasedCalm DEF Alive
<1>6. QED
  BY <1>2, <1>3, <1>4, <1>5

\* Time does not outrun the heartbeat of a runner whose lease is in force.
LEMMA LeasedTime ==
    ASSUME IInv, IInv', HeartbeatsOnTime, NEW g \in Generation, RunnerLeased(g),
           Tick \/ \E i \in Instance, h \in Generation : Renew(i, h)
    PROVE  RunnerLeased(g)'
<1>1. /\ UNCHANGED <<row, runner>>
      /\ lease'[g] >= lease[g] \/ (lease'[g] = lease[g] - 1 /\ ~HeartbeatDue)
  BY TimeActs
<1>2. lease[g] \in Int /\ lease'[g] \in Int
  BY DEF IInv, Others
<1>3. ASSUME NEW j \in Instance, Alive(j, g)'
      PROVE  Is(g, "running")' /\ row'[g].holder = j /\ lease'[g] >= 0
  <2>1. Alive(j, g) /\ Is(g, "running") /\ row[g].holder = j /\ lease[g] >= 0
    BY <1>1, <1>3 DEF RunnerLeased, Alive
  <2>2. ~HeartbeatDue => lease[g] > 0
    BY <1>2, <2>1 DEF HeartbeatDue
  <2>3. lease'[g] >= 0
    BY <1>1, <1>2, <2>1, <2>2
  <2>4. QED
    BY <1>1, <2>1, <2>3 DEF Is
<1>4. QED
  BY <1>3 DEF RunnerLeased

LEMMA LeasedStep ==
    ASSUME IInv, IInv', Tasks, HeartbeatsOnTime, [Next]_vars, OneRunner, RunnersLeased,
           NEW g \in Generation, Untouched(g)'
    PROVE  RunnerLeased(g)'
<1>1. Untouched(g) /\ RunOnce(g) /\ RunnerLeased(g) /\ g \notin Derived
  BY UntouchedBefore DEF OneRunner, RunnersLeased, Untouched
<1>2. ASSUME NEW i \in Instance, Boot(i) \/ Start(i)
      PROVE  RunnerLeased(g)'
  <2>1. runner' = runner /\ (UNCHANGED <<row, lease>> \/ RowsSwept(Generation))
    BY <1>2, StartActs DEF Boot
  <2>2. UNCHANGED <<row, lease>> \/ RowsSwept({g})
    BY <2>1 DEF RowsSwept
  <2>3. QED
    BY <1>1, <2>1, <2>2, LeasedSame DEF Alive
<1>3. ASSUME NEW i \in Instance,
             \/ RowsSwept(Generation) /\ runner' = runner
             \/ \E d \in 0..Lag, h \in Generation :
                   Claims(i, d, h) /\ (runner' = runner \/ RunnersBut(i, h))
      PROVE  RunnerLeased(g)'
  <2>1. CASE RowsSwept(Generation) /\ runner' = runner
    <3>1. RowsSwept({g})
      BY <2>1 DEF RowsSwept
    <3>2. QED
      BY <1>1, <2>1, <3>1, LeasedSame DEF Alive
  <2>2. ASSUME NEW d \in 0..Lag, NEW h \in Generation, Claims(i, d, h),
               runner' = runner \/ RunnersBut(i, h)
        PROVE  RunnerLeased(g)'
    BY <1>1, <2>2, LeasedClaims
  <2>3. QED
    BY <1>3, <2>1, <2>2
<1>4. ASSUME NEW i \in Instance, NEW d \in 0..Lag, ClaimNext(i, d)
      PROVE  RunnerLeased(g)'
  BY <1>3, <1>4, ClaimNextActs
<1>5. ASSUME NEW i \in Instance, NEW k \in Handoff, ThreadStep(i, k) \/ StoreFailsOffLoop(i, k)
      PROVE  RunnerLeased(g)'
  <2>1. ThreadActsOn(i, k)
    BY <1>5 DEF ThreadActsOn
  <2>2. ASSUME NEW h \in Courseware, ServedBy(i, h)
        PROVE  RunnerLeased(g)'
    <3>1. h # g /\ h \in Generation
      BY <1>1, ConstantsAssumption
    <3>2. RowKept(g) /\ lease'[g] >= lease[g]
      BY <2>2, <3>1 DEF ServedBy, RowsBut, RowKept, IInv, Others
    <3>3. \A j \in Instance : Alive(j, g)' => Alive(j, g)
      BY <2>2, <3>1 DEF ServedBy, RunnersBut, Alive
    <3>4. QED
      BY <1>1, <3>2, <3>3, LeasedCalm
  <2>3. QED
    BY <1>3, <2>1, <2>2, ThreadActs
<1>6. ASSUME NEW i \in Instance, LoopStep(i)
      PROVE  RunnerLeased(g)'
  BY <1>1, <1>2, <1>4, <1>6, LeasedRunner, LeasedRequest DEF LoopStep
<1>7. CASE UNCHANGED vars
  BY <1>1, <1>7 DEF vars, RunnerLeased, Alive, Is
<1>8. ASSUME NEW i \in Instance, NEW h \in Generation,
             RunnerStep(i, h) \/ Renew(i, h) \/ UserStep(i, h)
      PROVE  RunnerLeased(g)'
  BY <1>1, <1>8, LeasedRunner, LeasedRequest, LeasedTime
<1>9. QED
  BY <1>1, <1>2, <1>6, <1>7, <1>8, <1>5, LeasedRunner, LeasedTime DEF Next

\* While heartbeats are on time, the runner of a generation that is not retried works
\* under a lease that is in force: no sweep, of any instance, interrupts it.
THEOREM RunnersHoldLeases ==
    ASSUME HeartbeatsOnTime
    PROVE  Spec => []RunnersLeased
<1>1. Init => RunnersLeased
  BY DEF Init, RunnersLeased, RunnerLeased, Alive
<1>2. IInv /\ IInv' /\ Tasks /\ OneRunner /\ RunnersLeased /\ [Next]_vars => RunnersLeased'
  BY LeasedStep DEF RunnersLeased
<1>3. QED
  BY <1>1, <1>2, Invariance, TasksHold, OneRunnerEach, PTL DEF Spec

-----------------------------------------------------------------------------
(* Leases, the pool and the shares. *)

\* A generation that is leased next is leased now, to the same owner.
LeaseStays(h) ==
    h \in Leased(row') => h \in Leased(row) /\ row'[h].owner = row[h].owner

\* A row that keeps its lease, or loses it, or is not running.
LEMMA RowLeases ==
    ASSUME NEW h \in Generation,
           \/ row'[h] = row[h]
           \/ RowLost(h)
           \/ row'[h].task.status # "running"
           \/ row'[h].holder = None
           \/ /\ row[h].task.status = "running" /\ row[h].holder # None
              /\ row'[h].owner = row[h].owner
    PROVE  LeaseStays(h)
BY DEF LeaseStays, Leased, RowLost, RowGoes

LEMMA PersistLeases ==
    ASSUME IInv, Tasks, NEW i \in Instance, PersistRun(i)
    PROVE  /\ \A h \in Generation : h # loop[i].gen => LeaseStays(h)
           /\ Is(loop[i].gen, "running") \/ row[loop[i].gen].holder = None
                 => \A h \in Generation : LeaseStays(h)
<1> DEFINE g == loop[i].gen
<1>1. /\ g \in Generation /\ RowGoes(g, loop[i].task.status, row[g].holder) /\ RowsBut(g)
  BY PersistRunActs
<1> HIDE DEF g
<1>2. \A h \in Generation : h # g => LeaseStays(h)
  BY <1>1, RowLeases DEF RowsBut
<1>3. Is(g, "running") \/ row[g].holder = None => LeaseStays(g)
  BY <1>1, RowLeases DEF RowGoes, Is
<1>4. QED
  BY <1>2, <1>3 DEF g

\* Leases come from claims and from the puts of runners that begin.
LEMMA LeasesChange ==
    ASSUME IInv, Tasks, [Next]_vars
    PROVE  \/ \A h \in Generation : LeaseStays(h)
           \/ \E i \in Instance, d \in 0..Lag, g \in Generation : Claims(i, d, g)
           \/ \E i \in Instance : PersistRun(i)
<1> DEFINE Stay == \A h \in Generation : LeaseStays(h)
<1>1. row' = row => Stay
  BY RowLeases
<1>2. RowsSwept(Generation) => Stay
  BY RowLeases DEF RowsSwept
<1>3. ASSUME NEW i \in Instance, Crash(i)
      PROVE  Stay
  <2>1. ASSUME NEW h \in Generation
        PROVE  LeaseStays(h)
    <3>1. row[h].holder = i => row[h].holder # None
      BY ConstantsAssumption
    <3>2. row'[h] = row[h] \/ (row[h].holder = i /\ RowGoes(h, row[h].task.status, Gone))
      BY <1>3, CrashActs
    <3>3. CASE row[h].holder = i /\ RowGoes(h, row[h].task.status, Gone)
      BY <3>1, <3>3, RowLeases DEF RowGoes
    <3>4. QED
      BY <3>2, <3>3, RowLeases
  <2>2. QED
    BY <2>1
<1>4. ASSUME NEW i \in Instance, Boot(i) \/ Start(i) \/ StoreFails(i)
      PROVE  Stay
  BY <1>1, <1>2, <1>4, StartActs, StoreFailsActs DEF Boot
<1>5. ASSUME NEW i \in Instance, Finalize(i)
      PROVE  Stay
  BY <1>5, FinalizeActs, RowLeases DEF RowsBut
<1>6. ASSUME NEW i \in Instance, NEW u \in User, CreatePuts(i, u)
      PROVE  Stay
  BY <1>6, CreatePutsActs, RowLeases DEF RowsBut
<1>7. ASSUME NEW i \in Instance, RetryPuts(i) \/ RetryClears(i) \/ ReviewPuts(i)
      PROVE  Stay
  <2> DEFINE g == loop[i].gen
  <2>1. /\ g \in Generation /\ RowsBut(g)
        /\ loop[i].op \in {"requeueing", "clearing", "releasing", "discarding"}
        /\ RowGoes(g, IF loop[i].op = "clearing" THEN row[g].task.status
                      ELSE loop[i].task.status, row[g].holder)
    BY <1>7, RequestPutsActs
  <2>2. loop[i].op # "clearing" => loop[i].task.status # "running"
    BY <2>1 DEF Tasks, TaskFits
  <2> HIDE DEF g
  <2>3. LeaseStays(g)
    BY <2>1, <2>2, RowLeases DEF RowGoes
  <2>4. QED
    BY <2>1, <2>3, RowLeases DEF RowsBut
<1>8. ASSUME NEW i \in Instance, NEW g \in Generation, UserStep(i, g)
      PROVE  Stay
  <2>1. CASE \/ CreateLoads(i, g) \/ CreateAgain(i, g) \/ View(i, g)
             \/ RetryReads(i, g) \/ ConfirmReads(i, g) \/ DiscardReads(i, g)
    BY <1>1, <2>1, CreateLoadsActs, CreateAgainActs, ViewActs, RequestReadsActs
  <2>2. CASE \E k \in Handoff : ThreadLoads(i, k, g)
    BY <1>1, <2>2 DEF ThreadLoads
  <2>3. CASE Cancel(i, g)
    <3>1. /\ RowsBut(g)
          /\ RowGoes(g, IF Is(g, "queued") THEN "cancelled" ELSE row[g].task.status,
                     row[g].holder)
      BY <2>3, CancelActs
    <3>2. LeaseStays(g)
      BY <3>1, RowLeases DEF RowGoes
    <3>3. QED
      BY <3>1, <3>2, RowLeases DEF RowsBut
  <2>4. QED
    BY <1>8, <2>1, <2>2, <2>3 DEF UserStep
<1>9. ASSUME UNCHANGED vars \/ Tick \/ \E i \in Instance, g \in Generation :
                                          Renew(i, g) \/ RunnerStep(i, g)
      PROVE  Stay
  BY <1>1, <1>9, TimeActs, RunnerStepActs DEF vars
<1> DEFINE Claim == \E i \in Instance, d \in 0..Lag, g \in Generation : Claims(i, d, g)
<1>10. ASSUME NEW i \in Instance, NEW d \in 0..Lag, ClaimNext(i, d)
       PROVE  Stay \/ Claim
  BY <1>2, <1>10, ClaimNextActs
<1>11. ASSUME NEW i \in Instance, SaveGeneration(i) \/ ConfirmSaves(i)
       PROVE  Stay
  BY <1>1, <1>11, SaveActs
<1>12. ASSUME NEW i \in Instance, NEW k \in Handoff, ThreadStep(i, k) \/ StoreFailsOffLoop(i, k)
       PROVE  Stay \/ Claim
  <2>1. ThreadActsOn(i, k)
    BY <1>12 DEF ThreadActsOn
  <2>2. ASSUME NEW g \in Courseware, ServedBy(i, g)
        PROVE  Stay
    BY <2>2, RowLeases DEF ServedBy, RowsBut
  <2>3. QED
    BY <1>2, <2>1, <2>2, ThreadActs
<1> HIDE DEF Stay, Claim
<1>13. ASSUME NEW i \in Instance, LoopStep(i)
       PROVE  Stay \/ Claim \/ PersistRun(i)
  BY <1>4, <1>5, <1>6, <1>7, <1>10, <1>11, <1>13 DEF LoopStep
<1>14. Stay \/ Claim \/ \E i \in Instance : PersistRun(i)
  BY <1>3, <1>4, <1>8, <1>9, <1>13, <1>12 DEF Next
<1>15. QED
  BY <1>14 DEF Stay, Claim

\* A claim leases one more than the sweep before it has left, and no more than fit.
LEMMA ClaimLeases ==
    ASSUME IInv, NEW i \in Instance, NEW d \in 0..Lag, NEW g \in Generation, Claims(i, d, g)
    PROVE  /\ Leased(row') = Leased(Swept(d)) \cup {g}
           /\ \A h \in Generation : row'[h].owner = row[h].owner /\ Swept(d)[h].owner = row[h].owner
           /\ Leased(Swept(d)) \subseteq Leased(row)
           /\ Fits(i, Swept(d), g)
<1>1. RowGoes(g, "running", i) /\ Fits(i, Swept(d), g)
  BY ClaimActs
<1>2. Swept(d) \in [Generation -> Row]
  BY RowsAreInterrupted DEF IInv, Swept, Rows
<1>3. \A h \in Generation : h # g => row'[h] = Swept(d)[h]
  BY ClaimActs
<1>4. \A h \in Generation : Swept(d)[h].owner = row[h].owner
  BY SweptRow
<1>5. \A h \in Leased(Swept(d)) : h \in Leased(row)
  BY SweptRow DEF Leased
<1>6. i # None
  BY ConstantsAssumption
<1>7. Leased(row') = Leased(Swept(d)) \cup {g}
  BY <1>1, <1>3, <1>6 DEF Leased, RowGoes
<1>8. \A h \in Generation : row'[h].owner = row[h].owner
  BY <1>1, <1>3, <1>4 DEF RowGoes
<1>9. QED
  BY <1>1, <1>4, <1>5, <1>7, <1>8

LEMMA LeasesFiniteStep ==
    ASSUME IInv, Tasks, [Next]_vars, IsFiniteSet(Leased(row))
    PROVE  IsFiniteSet(Leased(row'))
<1>1. ASSUME NEW g, Leased(row') \subseteq Leased(row) \cup {g}
      PROVE  IsFiniteSet(Leased(row'))
  <2>1. IsFiniteSet(Leased(row) \cup {g})
    BY FS_AddElement
  <2>2. QED
    BY <1>1, <2>1, FS_Subset
<1>2. CASE \A h \in Generation : LeaseStays(h)
  <2>1. Leased(row') \subseteq Leased(row)
    BY <1>2 DEF LeaseStays, Leased
  <2>2. QED
    BY <2>1, FS_Subset
<1>3. ASSUME NEW i \in Instance, NEW d \in 0..Lag, NEW g \in Generation, Claims(i, d, g)
      PROVE  IsFiniteSet(Leased(row'))
  <2>1. Leased(row') = Leased(Swept(d)) \cup {g} /\ Leased(Swept(d)) \subseteq Leased(row)
    BY <1>3, ClaimLeases
  <2>2. QED
    BY <1>1, <2>1
<1>4. ASSUME NEW i \in Instance, PersistRun(i)
      PROVE  IsFiniteSet(Leased(row'))
  <2>1. \A h \in Generation : h # loop[i].gen => LeaseStays(h)
    BY <1>4, PersistLeases
  <2>2. Leased(row') \subseteq Leased(row) \cup {loop[i].gen}
    BY <2>1 DEF LeaseStays, Leased
  <2>3. QED
    BY <1>1, <2>2
<1>5. QED
  BY <1>2, <1>3, <1>4, LeasesChange

\* Finitely many generations are under lease at any time.
THEOREM LeasesFinite == Spec => []IsFiniteSet(Leased(row))
<1>1. Init => IsFiniteSet(Leased(row))
  <2>1. Init => Leased(row) = {}
    BY DEF Init, Leased, Absent, NoTask
  <2>2. QED
    BY <2>1, FS_EmptySet
<1>2. IInv /\ Tasks /\ IsFiniteSet(Leased(row)) /\ [Next]_vars => IsFiniteSet(Leased(row))'
  BY LeasesFiniteStep
<1>3. QED
  BY <1>1, <1>2, Invariance, TasksHold, PTL DEF Spec

\* A subset of what fits, fits.
LEMMA FewerFit ==
    ASSUME NEW S, NEW T, IsFiniteSet(S), T \subseteq S, NEW n \in Nat, Cardinality(S) <= n
    PROVE  Cardinality(T) <= n
<1>1. Cardinality(S) \in Nat /\ Cardinality(T) \in Nat /\ Cardinality(T) <= Cardinality(S)
  BY FS_Subset, FS_CardinalityType
<1>2. QED
  BY <1>1

LEMMA OneMoreFits ==
    ASSUME NEW S, NEW T, NEW g, IsFiniteSet(S), T \subseteq S \cup {g}, NEW n \in Nat,
           Cardinality(S) < n
    PROVE  Cardinality(T) <= n
<1> DEFINE U == S \cup {g}
<1>1. IsFiniteSet(U) /\ (Cardinality(U) = Cardinality(S) \/ Cardinality(U) = Cardinality(S) + 1)
  BY FS_AddElement
<1>2. Cardinality(S) \in Nat
  BY FS_CardinalityType
<1>3. Cardinality(U) <= n
  BY <1>1, <1>2
<1> HIDE DEF U
<1>4. Cardinality(T) <= n
  BY <1>1, <1>3, FewerFit DEF U
<1>5. QED
  BY <1>4

\* A step keeps the pool and the shares among the generations of G, if no runner of
\* theirs puts back a lease that was counted out.
LEMMA FitsStep ==
    ASSUME IInv, Tasks, [Next]_vars, IsFiniteSet(Leased(row)), NEW G, RowsFit(row, G),
           PersistsFit(G), NEW H \in SUBSET G
    PROVE  RowsFit(row', H)
<1>1. PoolLimit \in Nat /\ PerUser \in Nat
  BY ConstantsAssumption
<1>2. ASSUME \A h \in Generation : h \in G => LeaseStays(h)
      PROVE  RowsFit(row', H)
  <2>1. Leased(row') \cap H \subseteq Leased(row) \cap G
    BY <1>2 DEF LeaseStays, Leased
  <2>2. IsFiniteSet(Leased(row) \cap G)
    BY FS_Intersection
  <2>3. Cardinality(Leased(row') \cap H) <= PoolLimit
    BY <1>1, <2>1, <2>2, FewerFit DEF RowsFit
  <2>4. ASSUME NEW u \in User
        PROVE  Cardinality(OwnedBy(row', Leased(row') \cap H, u)) <= PerUser
    <3> DEFINE S == OwnedBy(row, Leased(row) \cap G, u)
               T == OwnedBy(row', Leased(row') \cap H, u)
    <3>1. T \subseteq S
      BY <1>2 DEF LeaseStays, Leased, OwnedBy
    <3>2. S \subseteq Leased(row) \cap G
      BY DEF OwnedBy
    <3>3. Cardinality(S) <= PerUser
      BY DEF RowsFit
    <3> HIDE DEF S, T
    <3>4. Cardinality(T) <= PerUser
      BY <1>1, <2>2, <3>1, <3>2, <3>3, FS_Subset, FewerFit
    <3>5. QED
      BY <3>4 DEF T
  <2>5. QED
    BY <2>3, <2>4 DEF RowsFit
<1>3. ASSUME NEW i \in Instance, NEW d \in 0..Lag, NEW g \in Generation, Claims(i, d, g)
      PROVE  RowsFit(row', H)
  <2>1. /\ Leased(row') = Leased(Swept(d)) \cup {g}
        /\ \A h \in Generation : row'[h].owner = row[h].owner /\ Swept(d)[h].owner = row[h].owner
        /\ Leased(Swept(d)) \subseteq Leased(row)
        /\ Cardinality(Leased(Swept(d))) < PoolLimit
        /\ Cardinality(OwnedBy(Swept(d), Leased(Swept(d)), Swept(d)[g].owner)) < PerUser
    BY <1>3, ClaimLeases DEF Fits
  <2>2. IsFiniteSet(Leased(Swept(d)))
    BY <2>1, FS_Subset
  <2>3. Cardinality(Leased(row') \cap H) <= PoolLimit
    BY <1>1, <2>1, <2>2, OneMoreFits
  <2>4. ASSUME NEW u \in User
        PROVE  Cardinality(OwnedBy(row', Leased(row') \cap H, u)) <= PerUser
    <3> DEFINE T == OwnedBy(row', Leased(row') \cap H, u)
    <3>1. CASE u = row[g].owner
      <4> DEFINE S == OwnedBy(Swept(d), Leased(Swept(d)), u)
      <4>1. T \subseteq S \cup {g} /\ S \subseteq Leased(Swept(d))
        BY <2>1 DEF OwnedBy, Leased
      <4>2. Cardinality(S) < PerUser
        BY <2>1, <3>1
      <4> HIDE DEF S, T
      <4>3. Cardinality(T) <= PerUser
        BY <1>1, <2>2, <4>1, <4>2, FS_Subset, OneMoreFits
      <4>4. QED
        BY <4>3 DEF T
    <3>2. CASE u # row[g].owner
      <4> DEFINE S == OwnedBy(row, Leased(row) \cap G, u)
      <4>1. T \subseteq S /\ S \subseteq Leased(row)
        BY <2>1, <3>2 DEF OwnedBy, Leased
      <4>2. Cardinality(S) <= PerUser
        BY DEF RowsFit
      <4> HIDE DEF S, T
      <4>3. Cardinality(T) <= PerUser
        BY <1>1, <4>1, <4>2, FS_Subset, FewerFit
      <4>4. QED
        BY <4>3 DEF T
    <3>3. QED
      BY <3>1, <3>2
  <2>5. QED
    BY <2>3, <2>4 DEF RowsFit
<1>4. ASSUME NEW i \in Instance, PersistRun(i)
      PROVE  RowsFit(row', H)
  <2>1. loop[i].gen \in G => Is(loop[i].gen, "running") \/ row[loop[i].gen].holder = None
    BY <1>4 DEF PersistsFit, PersistRun
  <2>2. \A h \in Generation : h \in G => LeaseStays(h)
    BY <1>4, <2>1, PersistLeases
  <2>3. QED
    BY <1>2, <2>2
<1>5. QED
  BY <1>2, <1>3, <1>4, LeasesChange

\* The generations that are submitted once and not retried so far.
LEMMA UntouchedPersists ==
    ASSUME IInv, Tasks, OneRunner
    PROVE  PersistsFit({g \in Generation : Untouched(g)})
BY DEF PersistsFit, OneRunner, RunOnce, Is

LEMMA UntouchedFitsStep ==
    ASSUME IInv, Tasks, OneRunner, IsFiniteSet(Leased(row)), UntouchedFit, [Next]_vars
    PROVE  UntouchedFit'
<1> DEFINE G == {g \in Generation : Untouched(g)}
           H == {g \in Generation : Untouched(g)'}
<1>1. RowsFit(row, G) /\ PersistsFit(G)
  BY UntouchedPersists DEF UntouchedFit
<1>2. H \in SUBSET G
  BY UntouchedBefore
<1>3. RowsFit(row', H) => UntouchedFit'
  BY DEF UntouchedFit, RowsFit
<1> HIDE DEF G, H
<1>4. RowsFit(row', H)
  BY <1>1, <1>2, FitsStep
<1>5. QED
  BY <1>3, <1>4

LEMMA NothingLeased ==
    ASSUME NEW G, Leased(row) = {}
    PROVE  RowsFit(row, G)
<1>1. Leased(row) \cap G = {} /\ \A u \in User : OwnedBy(row, Leased(row) \cap G, u) = {}
  BY DEF OwnedBy
<1>2. Cardinality({}) = 0 /\ 0 <= PoolLimit /\ 0 <= PerUser
  BY FS_EmptySet, ConstantsAssumption
<1>3. QED
  BY <1>1, <1>2 DEF RowsFit

LEMMA InitiallyUnleased == Init => Leased(row) = {}
BY DEF Init, Leased, Absent, NoTask

\* The pool and the share of every user are kept among the generations that are not
\* retried, on any number of instances, however leases lapse: a claim counts what is
\* leased, and no runner comes back to a lease that was counted out.
THEOREM UntouchedFits == Spec => []UntouchedFit
<1>1. Init => UntouchedFit
  BY InitiallyUnleased, NothingLeased DEF UntouchedFit
<1>2. IInv /\ Tasks /\ OneRunner /\ IsFiniteSet(Leased(row)) /\ UntouchedFit /\ [Next]_vars
         => UntouchedFit'
  BY UntouchedFitsStep
<1>3. QED
  BY <1>1, <1>2, Invariance, TasksHold, OneRunnerEach, LeasesFinite, PTL DEF Spec

\* The shares of the generations with an id of their own.
LEMMA SharesOnLoop ==
    ASSUME RowsFit(row, OnLoop)
    PROVE  SharesAreKept
<1>1. Leased(row) \cap OnLoop = Leased(row) \ Courseware
  BY DEF Leased, OnLoop
<1>2. QED
  BY <1>1 DEF RowsFit, SharesAreKept

\* Without retries and derived ids no user holds more leases than their share, on any
\* number of instances.
THEOREM SharesWithoutRetries ==
    ASSUME MaxRetries = 0, Derived = {}
    PROVE  Spec => []SharesAreKept
<1>1. IInv /\ UntouchedFit => SharesAreKept
  <2> SUFFICES ASSUME IInv, UntouchedFit PROVE SharesAreKept
    OBVIOUS
  <2>1. {g \in Generation : Untouched(g)} = OnLoop
    BY AllUntouched, ConstantsAssumption DEF OnLoop
  <2>2. QED
    BY <2>1, SharesOnLoop DEF UntouchedFit
<1>2. QED
  BY <1>1, Invariance, UntouchedFits, PTL

\* A runner has a lease of its own in the pool.
LEMMA RunnersFit ==
    ASSUME IInv, OneRunner, RunnersLeased, IsFiniteSet(Leased(row)), UntouchedFit
    PROVE  UntouchedPool
<1> DEFINE G == {g \in Generation : Untouched(g)}
           S == {ig \in Instance \X Generation : Untouched(ig[2]) /\ Alive(ig[1], ig[2])}
           T == Leased(row) \cap G
           f == [ig \in S |-> ig[2]]
<1>1. \A ig \in S : ig[2] \in T
  <2>1. ASSUME NEW i \in Instance, NEW g \in Generation, Untouched(g), Alive(i, g)
        PROVE  g \in T
    BY <2>1, ConstantsAssumption DEF RunnersLeased, RunnerLeased, Leased, Is
  <2>2. QED
    BY <2>1
<1>2. \A a, b \in S : a[2] = b[2] => a = b
  <2>1. ASSUME NEW i \in Instance, NEW j \in Instance, NEW g \in Generation, Untouched(g),
               Alive(i, g), Alive(j, g)
        PROVE  i = j
    BY <2>1 DEF OneRunner, RunOnce
  <2>2. QED
    BY <2>1
<1>3. IsFiniteSet(T) /\ Cardinality(T) <= PoolLimit
  BY FS_Intersection DEF UntouchedFit, RowsFit
<1>4. UntouchedPool <=> Cardinality(S) <= PoolLimit
  BY DEF UntouchedPool
<1> HIDE DEF S, T
<1>5. f \in Injection(S, T)
  BY <1>1, <1>2 DEF Injection, IsInjective
<1>6. IsFiniteSet(S) /\ Cardinality(S) <= Cardinality(T)
  BY <1>3, <1>5, FS_Injection
<1>7. Cardinality(S) \in Nat /\ Cardinality(T) \in Nat /\ PoolLimit \in Nat
  BY <1>3, <1>6, FS_CardinalityType, ConstantsAssumption
<1>8. QED
  BY <1>3, <1>4, <1>6, <1>7

\* While heartbeats are on time, the provider has no more runners of generations that
\* are not retried, over all instances, than the pool admits.
THEOREM UntouchedPoolKept ==
    ASSUME HeartbeatsOnTime
    PROVE  Spec => []UntouchedPool
<1>1. IInv /\ OneRunner /\ RunnersLeased /\ IsFiniteSet(Leased(row)) /\ UntouchedFit
         => UntouchedPool
  BY RunnersFit
<1>2. QED
  BY <1>1, Invariance, OneRunnerEach, RunnersHoldLeases, LeasesFinite, UntouchedFits, PTL

\* Without retries and derived ids, and while heartbeats are on time, the provider is
\* never oversubscribed.
THEOREM PoolWithoutRetries ==
    ASSUME HeartbeatsOnTime, MaxRetries = 0, Derived = {}
    PROVE  Spec => []PoolIsKept
<1>1. IInv /\ UntouchedPool => PoolIsKept
  <2> SUFFICES ASSUME IInv, UntouchedPool PROVE PoolIsKept
    OBVIOUS
  <2>1. {ig \in Instance \X Generation : Untouched(ig[2]) /\ Alive(ig[1], ig[2])}
           = {ig \in Instance \X Generation : Alive(ig[1], ig[2])}
    BY AllUntouched
  <2>2. QED
    BY <2>1 DEF UntouchedPool, PoolIsKept
<1>2. QED
  BY <1>1, Invariance, UntouchedPoolKept, PTL

-----------------------------------------------------------------------------
(* One instance, and the generations that are submitted on its loop. *)

\* The runner of g, if it goes on, goes on as it was.
LEMMA KnownSame ==
    ASSUME NEW i \in Instance, NEW g, RunnerKnown(i, g),
           Alive(i, g)' => /\ Alive(i, g) /\ runner'[i][g].at = runner[i][g].at
                           /\ runner'[i][g].known = runner[i][g].known
                           /\ mem'[i][g] = mem[i][g] /\ RowKept(g)
    PROVE  RunnerKnown(i, g)'
<1> SUFFICES ASSUME Alive(i, g)'
             PROVE  runner'[i][g].known /\ (RunnerAtWork(i, g) \/ RunnerStopping(i, g))'
  BY DEF RunnerKnown
<1>1. /\ runner'[i][g].at = runner[i][g].at /\ mem'[i][g] = mem[i][g]
      /\ RowKept(g) /\ i # None
  BY ConstantsAssumption
<1>2. runner'[i][g].known
  BY DEF RunnerKnown
<1>3. CASE RunnerAtWork(i, g)
  BY <1>1, <1>2, <1>3 DEF RunnerAtWork, AtWork, RowKept, RowLost, RowGoes, Is
<1>4. CASE RunnerStopping(i, g)
  BY <1>1, <1>2, <1>4 DEF RunnerStopping, Pending, RowKept, RowLost, RowGoes, Is
<1>5. QED
  BY <1>3, <1>4 DEF RunnerKnown

\* Sequences that are no requests.
LEMMA LoopRests ==
    ASSUME NEW i \in Instance, NEW l, LoopGoes(i, l),
           l.op \notin {"creating", "requeueing", "confirming", "releasing", "discarding"}
    PROVE  LoopAtWork(i)'
BY DEF LoopAtWork, LoopGoes

\* Nothing touches what the sequence in progress decides.
LEMMA LoopWaits ==
    ASSUME NEW i \in Instance, LoopAtWork(i), loop' = loop,
           \A g \in OnLoop : /\ runner'[i][g] = runner[i][g]
                             /\ row[g].task.status \in Settled => row'[g] = row[g]
    PROVE  LoopAtWork(i)'
BY DEF LoopAtWork, AtWork, Alive, OnLoop

LEMMA SettledStay ==
    ASSUME NEW g, row[g].task.status \in Settled, row'[g] = row[g] \/ RowLost(g)
    PROVE  row'[g] = row[g]
BY DEF Settled, RowLost, Is

\* A generation that is not at work in its row has no runner at work, and get returns
\* what is in memory while there is one.
LEMMA NotAtWork ==
    ASSUME NEW i \in Instance, NEW g, RunnerKnown(i, g)
    PROVE  /\ AtWork(i, g) => Alive(i, g)
           /\ row[g].task.status \notin {"running", "interrupted"} => ~AtWork(i, g)
           /\ mem[i][g].status # "running" => ~AtWork(i, g)
           /\ row[g].task.status \notin Pending => ~Alive(i, g)
           /\ mem[i][g].status \notin Pending => ~Alive(i, g)
           /\ Alive(i, g) => mem[i][g] # NoTask
           /\ Alive(i, g) /\ ~AtWork(i, g) => RunnerStopping(i, g)
BY DEF RunnerKnown, RunnerAtWork, RunnerStopping, AtWork, Alive, NoRunner, NoTask, Is, Pending

LEMMA GetKnown ==
    ASSUME NEW i \in Instance, NEW g, RunnerKnown(i, g)
    PROVE  /\ Alive(i, g) => runner[i][g].known = TRUE /\ Get(i, g) = mem[i][g]
           /\ ~Alive(i, g) => Get(i, g) = row[g].task
<1>1. ~Alive(i, g) => runner[i][g].known = FALSE
  BY DEF Alive, NoRunner
<1>2. Alive(i, g) => runner[i][g].known
  BY DEF RunnerKnown
<1>3. runner[i][g].known => Get(i, g) = mem[i][g]
  BY DEF Get
<1>4. runner[i][g].known = FALSE => Get(i, g) = row[g].task
  BY DEF Get
<1>5. QED
  BY <1>1, <1>2, <1>3, <1>4

\* What one instance keeps true of itself.
Kept(i) == /\ \A g \in OnLoop : RunnerKnown(i, g)
           /\ LoopAtWork(i)

\* Steps of the loop that leave runners and memory alone.
LEMMA KeptCalm ==
    ASSUME NEW i \in Instance, Kept(i), NEW l, LoopGoes(i, l), runner' = runner,
           mem' = mem, \A g \in OnLoop : RowKept(g),
           l.op \notin {"creating", "requeueing", "confirming", "releasing", "discarding"}
    PROVE  Kept(i)'
<1>1. \A g \in OnLoop : RunnerKnown(i, g)'
  BY KnownSame DEF Kept, Alive
<1>2. QED
  BY <1>1, LoopRests DEF Kept, OnLoop

LEMMA RowsAreKept ==
    ASSUME row' = row \/ RowsSwept(Generation)
    PROVE  \A g \in OnLoop : RowKept(g)
BY DEF RowsSwept, RowKept, OnLoop

LEMMA KeptClaims ==
    ASSUME IInv, NEW i \in Instance, Kept(i), NEW d \in 0..Lag, NEW g \in Generation,
           Claims(i, d, g), loop' = loop
    PROVE  /\ \A h \in OnLoop : h # g /\ runner'[i][h] = runner[i][h] => RunnerKnown(i, h)'
           /\ runner' = runner => Kept(i)'
           /\ runner'[i][g].at = "claimed" /\ runner'[i][g].known = TRUE => RunnerKnown(i, g)'
<1>1. /\ Is(g, "queued") /\ RowGoes(g, "running", i) /\ RowsSwept(Generation \ {g})
      /\ mem'[i][g].status = "running" /\ MemBut(i, g)
  BY ClaimActs
<1>2. ASSUME NEW h \in OnLoop, h # g, runner'[i][h] = runner[i][h]
      PROVE  RunnerKnown(i, h)'
  <2>1. RowKept(h) /\ mem'[i][h] = mem[i][h]
    BY <1>1, <1>2 DEF RowsSwept, RowKept, MemBut, OnLoop
  <2>2. QED
    BY <1>2, <2>1, KnownSame DEF Kept, Alive
<1>3. runner'[i][g].at = "claimed" /\ runner'[i][g].known = TRUE => RunnerKnown(i, g)'
  BY <1>1 DEF RunnerKnown, RunnerAtWork, AtWork, RowGoes, Is
<1>4. ASSUME runner' = runner
      PROVE  Kept(i)'
  <2>1. ASSUME g \in OnLoop
        PROVE  RunnerKnown(i, g)'
    <3>1. RunnerKnown(i, g)
      BY <2>1 DEF Kept
    <3>2. ~AtWork(i, g)
      BY <1>1, <3>1, NotAtWork DEF Is
    <3>3. Alive(i, g) => runner[i][g].at = "stopping" /\ runner[i][g].known
      BY <3>1, <3>2, NotAtWork DEF RunnerKnown, RunnerStopping
    <3>4. QED
      BY <1>1, <1>4, <3>3 DEF RunnerKnown, RunnerStopping, RowGoes, Pending, Alive
  <2>2. ASSUME NEW h \in OnLoop, row[h].task.status \in Settled
        PROVE  row'[h] = row[h]
    BY <1>1, <2>2, SettledStay DEF RowsSwept, Is, Settled, OnLoop
  <2>3. LoopAtWork(i)'
    BY <1>4, <2>2, LoopWaits DEF Kept
  <2>4. \A h \in OnLoop : RunnerKnown(i, h)'
    BY <1>2, <1>4, <2>1
  <2>5. QED
    BY <2>3, <2>4 DEF Kept, OnLoop
<1>5. QED
  BY <1>2, <1>3, <1>4

LEMMA KeptSchedule ==
    ASSUME IInv, NEW i \in Instance, Kept(i), NEW d \in 0..Lag, ClaimNext(i, d)
    PROVE  Kept(i)'
<1>1. CASE RowsSwept(Generation) /\ LoopGoes(i, Idle) /\ UNCHANGED <<runner, mem>>
  BY <1>1, RowsAreKept, RestingOps, KeptCalm
<1>2. ASSUME NEW g \in Generation, Claims(i, d, g), loop' = loop,
             runner'[i][g].at = "claimed", runner'[i][g].known = TRUE, RunnersBut(i, g)
      PROVE  Kept(i)'
  <2>1. \A h \in OnLoop : RunnerKnown(i, h)'
    BY <1>2, KeptClaims DEF RunnersBut, OnLoop
  <2>2. LoopGoes(i, Scheduling)
    BY <1>2, ClaimNextActs DEF LoopGoes
  <2>3. QED
    BY <2>1, <2>2, RestingOps, LoopRests DEF Kept, OnLoop
<1>3. QED
  BY <1>1, <1>2, ClaimNextActs

\* A thread serves generations of its own kind.
LEMMA KeptThread ==
    ASSUME IInv, NEW i \in Instance, Kept(i), NEW k \in Handoff, ThreadActsOn(i, k)
    PROVE  Kept(i)'
<1>1. loop' = loop
  BY ThreadActs
<1>2. ASSUME NEW g \in Courseware, ServedBy(i, g)
      PROVE  Kept(i)'
  <2>1. ASSUME NEW h \in OnLoop
        PROVE  /\ runner'[i][h] = runner[i][h] /\ mem'[i][h] = mem[i][h]
               /\ row'[h] = row[h]
    BY <1>2 DEF ServedBy, RunnersBut, MemBut, RowsBut, OnLoop
  <2>2. \A h \in OnLoop : RunnerKnown(i, h)'
    BY <2>1, KnownSame DEF Kept, RowKept, Alive
  <2>3. LoopAtWork(i)'
    BY <1>1, <2>1, LoopWaits DEF Kept
  <2>4. QED
    BY <2>2, <2>3 DEF Kept, OnLoop
<1>3. CASE RowsSwept(Generation) /\ UNCHANGED <<runner, mem>>
  <2>1. \A h \in OnLoop : RunnerKnown(i, h)'
    BY <1>3, RowsAreKept, KnownSame DEF Kept, Alive
  <2>2. LoopAtWork(i)'
    BY <1>1, <1>3, SettledStay, LoopWaits DEF Kept, RowsSwept, OnLoop
  <2>3. QED
    BY <2>1, <2>2 DEF Kept, OnLoop
<1>4. ASSUME NEW d \in 0..Lag, NEW g \in Generation, Claims(i, d, g), runner' = runner
      PROVE  Kept(i)'
  BY <1>1, <1>4, KeptClaims
<1>5. QED
  BY <1>2, <1>3, <1>4, ThreadActs

LEMMA KeptRunner ==
    ASSUME IInv, Tasks, NEW i \in Instance, Kept(i),
           \/ \E g \in Generation : RunnerStep(i, g)
           \/ PersistRun(i) \/ SaveGeneration(i) \/ Finalize(i) \/ StoreFails(i) \/ Crash(i)
    PROVE  Kept(i)'
<1>1. ASSUME NEW g \in Generation, RunnerStep(i, g)
      PROVE  Kept(i)'
  <2>1. PICK op \in {"persisting", "saving", "finalizing"}, u \in Task :
          LoopGoes(i, At(op, g, u))
    BY <1>1, RunnerStepActs
  <2>2. At(op, g, u).op = op /\ UNCHANGED <<row, runner, mem>>
    BY <1>1, RunnerStepActs DEF At
  <2>3. QED
    BY <2>1, <2>2, RowsAreKept, KeptCalm
<1>2. CASE PersistRun(i)
  <2>1. PICK g \in Generation :
           /\ g = loop[i].gen /\ LoopGoes(i, Idle) /\ mem' = mem
           /\ RunnersBut(i, g) /\ runner'[i][g].at = "waiting"
           /\ runner'[i][g].known = runner[i][g].known
           /\ RowGoes(g, loop[i].task.status, row[g].holder) /\ RowsBut(g)
    BY <1>2, PersistRunActs
  <2>2. /\ loop[i].task.status = "running" /\ Alive(i, g) /\ runner[i][g].at = "claimed"
    BY <1>2, <2>1 DEF Tasks, TaskFits, RunnerFits, PersistRun
  <2>3. g \in OnLoop => runner[i][g].known /\ RunnerAtWork(i, g)
    BY <2>1, <2>2 DEF Kept, RunnerKnown, RunnerStopping
  <2>4. g \in OnLoop => RunnerKnown(i, g)'
    BY <2>1, <2>2, <2>3 DEF RunnerKnown, RunnerAtWork, AtWork, RowGoes, Is
  <2>5. ASSUME NEW h \in OnLoop, h # g
        PROVE  RunnerKnown(i, h)'
    BY <2>1, <2>5, KnownSame DEF Kept, RunnersBut, RowsBut, RowKept, Alive, OnLoop
  <2>6. QED
    BY <2>1, <2>4, <2>5, RestingOps, LoopRests DEF Kept
<1>3. CASE SaveGeneration(i)
  <2>1. loop[i].op = "saving" /\ UNCHANGED <<row, runner, mem>>
    BY <1>3, SaveActs DEF SaveGeneration
  <2>2. PICK t \in Task : LoopGoes(i, At("finalizing", loop[i].gen, t))
    BY <1>3, <2>1, SaveActs
  <2>3. At("finalizing", loop[i].gen, t).op = "finalizing"
    BY DEF At
  <2>4. QED
    BY <2>1, <2>2, <2>3, RowsAreKept, KeptCalm
<1>4. CASE Finalize(i)
  <2>1. PICK g \in Generation :
           /\ g = loop[i].gen /\ LoopGoes(i, Scheduling)
           /\ runner'[i][g] = NoRunner /\ RunnersBut(i, g) /\ MemBut(i, g) /\ RowsBut(g)
    BY <1>4, FinalizeActs
  <2>2. RunnerKnown(i, g)'
    BY <2>1 DEF RunnerKnown, Alive
  <2>3. ASSUME NEW h \in OnLoop, h # g
        PROVE  RunnerKnown(i, h)'
    BY <2>1, <2>3, KnownSame DEF Kept, RunnersBut, MemBut, RowsBut, RowKept, Alive, OnLoop
  <2>4. QED
    BY <2>1, <2>2, <2>3, RestingOps, LoopRests DEF Kept, OnLoop
<1>5. CASE StoreFails(i)
  <2>1. row' = row /\ mem' = mem
    BY <1>5, StoreFailsActs
  <2>2. \A g \in OnLoop : Alive(i, g)' => runner'[i][g] = runner[i][g]
    BY <1>5, StoreFailsActs DEF RunnersBut, Alive, OnLoop
  <2>3. \A g \in OnLoop : RunnerKnown(i, g)'
    BY <2>1, <2>2, RowsAreKept, KnownSame DEF Kept, Alive
  <2>4. CASE LoopGoes(i, Idle)
    BY <2>3, <2>4, RestingOps, LoopRests DEF Kept
  <2>5. ASSUME NEW t \in Task, LoopGoes(i, At("finalizing", loop[i].gen, t))
        PROVE  Kept(i)'
    <3>1. At("finalizing", loop[i].gen, t).op = "finalizing"
      BY DEF At
    <3>2. QED
      BY <2>3, <2>5, <3>1, LoopRests DEF Kept
  <2>6. QED
    BY <1>5, <2>4, <2>5, StoreFailsActs
<1>6. CASE Crash(i)
  <2>1. LoopGoes(i, Down) /\ \A g \in Generation : runner'[i][g] = NoRunner
    BY <1>6, CrashActs
  <2>2. \A g \in OnLoop : RunnerKnown(i, g)'
    BY <2>1 DEF RunnerKnown, Alive, OnLoop
  <2>3. QED
    BY <2>1, <2>2, RestingOps, LoopRests DEF Kept, OnLoop
<1>7. QED
  BY <1>1, <1>2, <1>3, <1>4, <1>5, <1>6

LEMMA KeptCreate ==
    ASSUME IInv, NEW i \in Instance, Kept(i),
           \/ \E u \in User : CreatePuts(i, u)
           \/ \E g \in Generation : CreateLoads(i, g) \/ CreateAgain(i, g)
    PROVE  Kept(i)'
<1>1. ASSUME NEW u \in User, CreatePuts(i, u)
      PROVE  Kept(i)'
  <2>1. PICK g \in Generation :
           /\ g = loop[i].gen /\ LoopGoes(i, Scheduling) /\ runner' = runner
           /\ MemBut(i, g) /\ RowsBut(g) /\ row'[g].task.status = "queued"
    BY <1>1, CreatePutsActs
  <2>2. mem'[i][g].status = "queued"
    BY <1>1, <2>1, FreshTask, MemActs DEF CreatePuts
  <2>3. g \in OnLoop => RunnerKnown(i, g) /\ ~AtWork(i, g)
    BY <1>1, <2>1 DEF Kept, LoopAtWork, CreatePuts
  <2>4. g \in OnLoop /\ Alive(i, g) => runner[i][g].at = "stopping" /\ runner[i][g].known
    BY <2>3, NotAtWork DEF RunnerKnown, RunnerStopping
  <2>5. g \in OnLoop => RunnerKnown(i, g)'
    BY <2>1, <2>2, <2>4 DEF RunnerKnown, RunnerStopping, Pending, Alive
  <2>6. ASSUME NEW h \in OnLoop, h # g
        PROVE  RunnerKnown(i, h)'
    BY <2>1, <2>6, KnownSame DEF Kept, MemBut, RowsBut, RowKept, Alive, OnLoop
  <2>7. QED
    BY <2>1, <2>5, <2>6, RestingOps, LoopRests DEF Kept
<1>2. ASSUME NEW g \in Generation, CreateLoads(i, g)
      PROVE  Kept(i)'
  <2>1. /\ ~Known(g) /\ LoopGoes(i, At("creating", g, NoTask))
        /\ UNCHANGED <<row, runner, mem>>
    BY <1>2, CreateLoadsActs
  <2>2. At("creating", g, NoTask).gen = g /\ At("creating", g, NoTask).op = "creating"
    BY DEF At
  <2>3. g \in OnLoop => ~AtWork(i, g)
    BY <2>1, AbsentStatus, NotAtWork DEF Kept
  <2>4. LoopAtWork(i)'
    BY <2>1, <2>2, <2>3 DEF LoopGoes, LoopAtWork, AtWork
  <2>5. QED
    BY <2>1, <2>4, RowsAreKept, KnownSame DEF Kept, Alive
<1>3. ASSUME NEW g \in Generation, CreateAgain(i, g)
      PROVE  Kept(i)'
  <2>1. /\ LoopGoes(i, Scheduling) /\ UNCHANGED <<row, runner>>
        /\ MemBut(i, g) /\ mem[i][g] = NoTask
    BY <1>3, CreateAgainActs
  <2>2. ASSUME NEW h \in OnLoop
        PROVE  RunnerKnown(i, h)'
    <3>1. Alive(i, h) => mem'[i][h] = mem[i][h]
      BY <2>1, NotAtWork DEF Kept, MemBut, OnLoop
    <3>2. QED
      BY <2>1, <3>1, RowsAreKept, KnownSame DEF Kept, Alive
  <2>3. QED
    BY <2>1, <2>2, RestingOps, LoopRests DEF Kept
<1>4. QED
  BY <1>1, <1>2, <1>3

LEMMA KeptView ==
    ASSUME IInv, NEW i \in Instance, Kept(i), NEW g \in Generation, View(i, g)
    PROVE  Kept(i)'
<1>1. UNCHANGED <<row, loop, runner>> /\ MemBut(i, g) /\ mem'[i][g] = Get(i, g)
  BY ViewActs
<1>2. ASSUME NEW h \in OnLoop
      PROVE  RunnerKnown(i, h)'
  <2>1. Alive(i, h) => Get(i, h) = mem[i][h]
    BY GetKnown DEF Kept
  <2>2. Alive(i, h) => mem'[i][h] = mem[i][h]
    BY <1>1, <2>1 DEF MemBut, OnLoop
  <2>3. QED
    BY <1>1, <2>2, RowsAreKept, KnownSame DEF Kept, Alive
<1>3. QED
  BY <1>1, <1>2, LoopWaits DEF Kept

LEMMA KeptCancel ==
    ASSUME IInv, NEW i \in Instance, Kept(i), NEW g \in Generation, Cancel(i, g)
    PROVE  Kept(i)'
<1>1. /\ loop[i] = Idle /\ loop' = loop
      /\ RowGoes(g, IF Is(g, "queued") THEN "cancelled" ELSE row[g].task.status,
                 row[g].holder)
      /\ RowsBut(g) /\ RunnersBut(i, g) /\ MemBut(i, g)
      /\ mem'[i][g].status = row'[g].task.status
      /\ runner[i][g].known => runner'[i][g].at \notin {"claimed", "waiting"}
      /\ Alive(i, g)' => /\ Alive(i, g) /\ runner'[i][g].at \in {"stopping", runner[i][g].at}
                         /\ runner'[i][g].known = runner[i][g].known
  BY CancelActs
<1>2. LoopGoes(i, Idle)
  BY <1>1 DEF LoopGoes
<1>3. ASSUME g \in OnLoop
      PROVE  RunnerKnown(i, g)'
  <2> SUFFICES ASSUME Alive(i, g)'
               PROVE  runner'[i][g].known /\ RunnerStopping(i, g)'
    BY DEF RunnerKnown
  <2>1. /\ Alive(i, g) /\ runner[i][g].known
        /\ runner[i][g].at \in {"claimed", "waiting", "stopping"}
    BY <1>1, <1>3 DEF Kept, RunnerKnown, RunnerAtWork, RunnerStopping, AtWork
  <2>2. runner'[i][g].at = "stopping" /\ runner'[i][g].known
    BY <1>1, <2>1
  <2>3. row[g].task.status \in Pending
    BY <1>3, <2>1, NotAtWork DEF Kept
  <2>4. row'[g].task.status \in Pending
    BY <1>1, <2>3 DEF RowGoes, Pending
  <2>5. QED
    BY <1>1, <2>2, <2>4 DEF RunnerStopping
<1>4. ASSUME NEW h \in OnLoop, h # g
      PROVE  RunnerKnown(i, h)'
  BY <1>1, <1>4, KnownSame DEF Kept, RunnersBut, MemBut, RowsBut, RowKept, Alive, OnLoop
<1>5. QED
  BY <1>2, <1>3, <1>4, RestingOps, LoopRests DEF Kept, OnLoop

LEMMA KeptReads ==
    ASSUME IInv, NEW i \in Instance, Kept(i), NEW g \in Generation,
           RetryReads(i, g) \/ ConfirmReads(i, g) \/ DiscardReads(i, g)
    PROVE  Kept(i)'
<1>1. /\ UNCHANGED <<row, runner>> /\ MemBut(i, g)
      /\ Get(i, g).status \in {"interrupted", "needs_review", "failed"}
  BY RequestReadsActs
<1>2. PICK op \in {"requeueing", "confirming", "discarding"}, t \in Task :
         /\ LoopGoes(i, At(op, g, t)) /\ TaskFits(At(op, g, t)) /\ mem'[i][g] = t
         /\ op # "requeueing" => Get(i, g).status = "needs_review"
  BY RequestReadsActs
<1>3. /\ At(op, g, t).op = op /\ At(op, g, t).gen = g
      /\ op = "requeueing" => t.status = "queued"
  BY <1>2 DEF At, TaskFits
<1>4. g \in OnLoop => RunnerKnown(i, g) /\ ~AtWork(i, g)
  <2> SUFFICES ASSUME g \in OnLoop
               PROVE  RunnerKnown(i, g) /\ ~AtWork(i, g)
    OBVIOUS
  <2>1. RunnerKnown(i, g)
    BY DEF Kept
  <2>2. Get(i, g) = mem[i][g] \/ ~Alive(i, g)
    BY <2>1, GetKnown
  <2>3. QED
    BY <1>1, <2>1, <2>2, NotAtWork
<1>5. g \in OnLoop /\ op # "requeueing" => ~Alive(i, g) /\ row[g].task.status \in Settled
  <2> SUFFICES ASSUME g \in OnLoop, Get(i, g).status = "needs_review"
               PROVE  ~Alive(i, g) /\ row[g].task.status \in Settled
    BY <1>2
  <2>1. ~Alive(i, g)
    BY <1>4, GetKnown, NotAtWork DEF Pending
  <2>2. QED
    BY <1>4, <2>1, GetKnown DEF Settled
<1>6. LoopAtWork(i)'
  <2>1. /\ AtWork(i, g)' <=> AtWork(i, g)
        /\ Alive(i, g)' <=> Alive(i, g)
    BY <1>1 DEF AtWork, Alive
  <2>2. loop'[i].op = op /\ loop'[i].gen = g
    BY <1>2, <1>3 DEF LoopGoes
  <2>3. QED
    BY <1>1, <1>4, <1>5, <2>1, <2>2 DEF LoopAtWork, AtWork, Alive
<1>7. ASSUME g \in OnLoop
      PROVE  RunnerKnown(i, g)'
  <2> SUFFICES ASSUME Alive(i, g)'
               PROVE  runner'[i][g].known /\ RunnerStopping(i, g)'
    BY DEF RunnerKnown
  <2>1. Alive(i, g) /\ runner'[i][g].known /\ RunnerStopping(i, g)
    BY <1>1, <1>4, <1>7, NotAtWork DEF RunnerKnown, Alive
  <2>2. mem'[i][g].status = "queued"
    BY <1>2, <1>3, <1>5, <1>7, <2>1
  <2>3. QED
    BY <1>1, <2>1, <2>2 DEF RunnerStopping, Pending
<1>8. ASSUME NEW h \in OnLoop, h # g
      PROVE  RunnerKnown(i, h)'
  BY <1>1, <1>8, RowsAreKept, KnownSame DEF Kept, MemBut, Alive, OnLoop
<1>9. QED
  BY <1>6, <1>7, <1>8 DEF Kept, OnLoop

LEMMA KeptPuts ==
    ASSUME IInv, Tasks, NEW i \in Instance, Kept(i),
           RetryPuts(i) \/ RetryClears(i) \/ ReviewPuts(i) \/ ConfirmSaves(i)
    PROVE  Kept(i)'
<1>1. CASE ConfirmSaves(i)
  <2>1. loop[i].op = "confirming" /\ UNCHANGED <<row, runner, mem>>
    BY <1>1, SaveActs DEF ConfirmSaves
  <2>2. PICK t \in Task : LoopGoes(i, At("releasing", loop[i].gen, t))
    BY <1>1, <2>1, SaveActs
  <2>3. /\ At("releasing", loop[i].gen, t).op = "releasing"
        /\ At("releasing", loop[i].gen, t).gen = loop[i].gen
    BY DEF At
  <2>4. LoopAtWork(i)'
    BY <2>1, <2>2, <2>3 DEF Kept, LoopAtWork, LoopGoes, AtWork, Alive
  <2>5. QED
    BY <2>1, <2>4, RowsAreKept, KnownSame DEF Kept, Alive
<1>2. CASE RetryPuts(i) \/ RetryClears(i) \/ ReviewPuts(i)
  <2>1. PICK g \in Generation :
           /\ g = loop[i].gen /\ UNCHANGED <<runner, mem>>
           /\ loop[i].op \in {"requeueing", "clearing", "releasing", "discarding"}
           /\ RowGoes(g, IF loop[i].op = "clearing" THEN row[g].task.status
                         ELSE loop[i].task.status, row[g].holder)
           /\ RowsBut(g)
    BY <1>2, RequestPutsActs
  <2>2. PICK l \in {Scheduling, Idle, At("clearing", loop[i].gen, loop[i].task)} :
           LoopGoes(i, l)
    BY <1>2, RequestPutsActs
  <2>3. l.op \in {"scheduling", "idle", "clearing"}
    BY <2>2 DEF At, Idle, Scheduling
  <2>4. ASSUME g \in OnLoop
        PROVE  RunnerKnown(i, g)'
    <3>1. RunnerKnown(i, g)
      BY <2>4 DEF Kept
    <3>2. CASE loop[i].op = "requeueing"
      <4>1. loop[i].task.status = "queued" /\ ~AtWork(i, g)
        BY <2>1, <2>4, <3>2 DEF Tasks, TaskFits, Kept, LoopAtWork
      <4>2. Alive(i, g) => RunnerStopping(i, g) /\ runner[i][g].known
        BY <3>1, <4>1, NotAtWork DEF RunnerKnown
      <4>3. row'[g].task.status = "queued"
        BY <2>1, <3>2, <4>1 DEF RowGoes
      <4>4. QED
        BY <2>1, <4>2, <4>3 DEF RunnerKnown, RunnerStopping, Pending, Alive
    <3>3. CASE loop[i].op = "clearing"
      <4>1. row'[g].task.status = row[g].task.status /\ row'[g].holder = row[g].holder
        BY <2>1, <3>3 DEF RowGoes
      <4>2. QED
        BY <2>1, <3>1, <4>1 DEF RunnerKnown, RunnerAtWork, RunnerStopping, AtWork, Alive, Is
    <3>4. CASE loop[i].op \in {"releasing", "discarding"}
      BY <2>1, <2>4, <3>4 DEF Kept, LoopAtWork, RunnerKnown, Alive
    <3>5. QED
      BY <2>1, <3>2, <3>3, <3>4
  <2>5. ASSUME NEW h \in OnLoop, h # g
        PROVE  RunnerKnown(i, h)'
    BY <2>1, <2>5, KnownSame DEF Kept, RowsBut, RowKept, Alive, OnLoop
  <2>6. QED
    BY <2>2, <2>3, <2>4, <2>5, LoopRests DEF Kept, OnLoop
<1>3. QED
  BY <1>1, <1>2

\* Every step of the instance, and of time, keeps what it knows of its runners.
LEMMA KeptStep ==
    ASSUME IInv, Tasks, [Next]_vars, NEW i \in Instance, \A j \in Instance : j = i, Kept(i)
    PROVE  Kept(i)'
<1>1. CASE Boot(i) \/ Start(i)
  <2>1. LoopGoes(i, At("starting", None, NoTask)) \/ LoopGoes(i, Scheduling)
    BY <1>1, LoopActs, StartActs DEF Boot
  <2>2. UNCHANGED <<runner, mem>> /\ (row' = row \/ RowsSwept(Generation))
    BY <1>1, StartActs DEF Boot
  <2>3. QED
    BY <2>1, <2>2, RowsAreKept, RestingOps, KeptCalm
<1>2. CASE UNCHANGED vars \/ Tick \/ \E j \in Instance, g \in Generation : Renew(j, g)
  <2>1. UNCHANGED <<row, loop, runner, mem>>
    BY <1>2, TimeActs DEF vars
  <2>2. \A g \in OnLoop : RunnerKnown(i, g)'
    BY <2>1, RowsAreKept, KnownSame DEF Kept, Alive
  <2>3. QED
    BY <2>1, <2>2, LoopWaits DEF Kept
<1>3. CASE LoopStep(i)
  BY <1>1, <1>3, KeptSchedule, KeptCreate, KeptRunner, KeptPuts DEF LoopStep
<1>4. ASSUME NEW g \in Generation, UserStep(i, g)
      PROVE  Kept(i)'
  BY <1>4, KeptCreate, KeptThread, KeptView, KeptCancel, KeptReads DEF UserStep, ThreadActsOn
<1>5. ASSUME NEW k \in Handoff, ThreadStep(i, k) \/ StoreFailsOffLoop(i, k)
      PROVE  Kept(i)'
  BY <1>5, KeptThread DEF ThreadActsOn
<1>6. QED
  BY <1>1, <1>2, <1>3, <1>4, <1>5, KeptRunner DEF Next

\* One instance knows each of its runners as running, under a lease or interrupted,
\* until it is stopped, and takes up no request that would put a generation under it:
\* however leases lapse, and whatever is retried, submitted again, cancelled or crashes,
\* and whatever the threads do for the generations that are submitted off the loop.
THEOREM OneInstanceKnowsItsRunners ==
    ASSUME \A i, j \in Instance : i = j
    PROVE  Spec => []OneInstanceInvariant
<1>1. Init => OneInstanceInvariant
  BY RestingOps
  DEF Init, OneInstanceInvariant, OnLoop, RunnerKnown, Alive, LoopAtWork, Down, At
<1>2. IInv /\ Tasks /\ OneInstanceInvariant /\ [Next]_vars => OneInstanceInvariant'
  <2> SUFFICES ASSUME IInv, Tasks, OneInstanceInvariant, [Next]_vars
               PROVE  OneInstanceInvariant'
    OBVIOUS
  <2>1. ASSUME NEW i \in Instance
        PROVE  Kept(i)'
    BY KeptStep DEF OneInstanceInvariant, Kept
  <2>2. QED
    BY <2>1 DEF OneInstanceInvariant, Kept, OnLoop
<1>3. QED
  BY <1>1, <1>2, Invariance, TasksHold, PTL DEF Spec

\* As far as one instance is concerned, a generation that is submitted on the loop is
\* back in the queue only when its last runner is gone or on its way out.
THEOREM RequeuedOnceReleased ==
    ASSUME \A i, j \in Instance : i = j
    PROVE  Spec => []RequeuedAfterItsRunner
<1>1. IInv /\ OneInstanceInvariant => RequeuedAfterItsRunner
  <2> SUFFICES ASSUME IInv, OneInstanceInvariant, NEW g \in OnLoop, Is(g, "queued"),
                      NEW i \in Instance
               PROVE  runner[i][g].at \in {"none", "stopping"}
    BY DEF RequeuedAfterItsRunner, OnLoop
  <2>1. ~AtWork(i, g)
    BY NotAtWork DEF OneInstanceInvariant, Is
  <2>2. g \in Generation
    BY DEF OnLoop
  <2>3. QED
    BY <2>1, <2>2, RunnersHold DEF AtWork, Runner
<1>2. QED
  BY <1>1, Invariance, OneInstanceKnowsItsRunners, PTL

\* A runner that begins has its lease, or has lost it for good.
LEMMA KnownPersists ==
    ASSUME IInv, Tasks, OneInstanceInvariant
    PROVE  PersistsFit(OnLoop)
<1> SUFFICES ASSUME NEW i \in Instance, loop[i].op = "persisting", loop[i].gen \in OnLoop
             PROVE  Is(loop[i].gen, "running") \/ row[loop[i].gen].holder = None
  BY DEF PersistsFit
<1>1. Alive(i, loop[i].gen) /\ runner[i][loop[i].gen].at = "claimed"
  BY DEF Tasks, RunnerFits
<1>2. QED
  BY <1>1 DEF OneInstanceInvariant, RunnerKnown, RunnerAtWork, RunnerStopping

\* Among the generations that are submitted on its loop, one instance never gives a user
\* more leases than their share, nor leases more than the pool, however leases lapse and
\* whatever is retried, submitted again or crashes, and whatever the threads claim.
THEOREM LeasesFitOneInstance ==
    ASSUME \A i, j \in Instance : i = j
    PROVE  Spec => []RowsFit(row, OnLoop)
<1>1. Init => RowsFit(row, OnLoop)
  BY InitiallyUnleased, NothingLeased
<1>2. IInv /\ Tasks /\ OneInstanceInvariant /\ IsFiniteSet(Leased(row)) /\ RowsFit(row, OnLoop)
         /\ [Next]_vars => RowsFit(row, OnLoop)'
  <2> SUFFICES ASSUME IInv, Tasks, OneInstanceInvariant, IsFiniteSet(Leased(row)),
                      RowsFit(row, OnLoop), [Next]_vars
               PROVE  RowsFit(row', OnLoop)
    BY DEF RowsFit, OnLoop
  <2>1. PersistsFit(OnLoop)
    BY KnownPersists
  <2>2. QED
    BY <2>1, FitsStep
<1>3. QED
  BY <1>1, <1>2, Invariance, TasksHold, OneInstanceKnowsItsRunners, LeasesFinite, PTL DEF Spec

\* One instance keeps every user within their share of what is submitted on its loop.
THEOREM SharesOnOneInstance ==
    ASSUME \A i, j \in Instance : i = j
    PROVE  Spec => []SharesAreKept
<1>1. RowsFit(row, OnLoop) => SharesAreKept
  BY SharesOnLoop
<1>2. QED
  BY <1>1, LeasesFitOneInstance, PTL

\* On one instance a cancellation recorded while a generation runs prevails over its
\* success, for what is submitted on the loop: no review of it is being decided meanwhile.
THEOREM CancelPrevailsOnOneInstance ==
    ASSUME \A i, j \in Instance : i = j
    PROVE  Spec => [][\A g \in OnLoop : Is(g, "running") /\ row[g].task.flag
                         => row'[g].task.status \notin {"completed", "needs_review"}]_vars
<1>1. IInv /\ Tasks /\ OneInstanceInvariant /\ [Next]_vars =>
         [\A g \in OnLoop : Is(g, "running") /\ row[g].task.flag
                  => row'[g].task.status \notin {"completed", "needs_review"}]_vars
  <2>1. OneInstanceInvariant => \A i \in Instance, g \in OnLoop :
                                   Deciding(i, g) => row[g].task.status \in Settled
    BY DEF OneInstanceInvariant, LoopAtWork, Deciding
  <2>2. QED
    BY <2>1, CancelObeyed DEF OnLoop
<1>2. QED
  BY <1>1, Invariance, TasksHold, OneInstanceKnowsItsRunners, PTL DEF Spec
=============================================================================
