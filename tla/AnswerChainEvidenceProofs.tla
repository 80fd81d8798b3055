---------------------- MODULE AnswerChainEvidenceProofs ----------------------
(***************************************************************************)
(* What AnswerChain promises of learning plans, for any workers and        *)
(* processes, and of evidence, for workers that share one process: their   *)
(* deletions exclude each other by the mutation lock of that process.      *)
(***************************************************************************)
EXTENDS AnswerChainProofs

USE DEF planning

OneHome == \A v, w \in Worker : Home[v] = Home[w]

\* Which operation a worker is on, by the point it has reached.
OperationsAtPoints ==
    \A w \in Worker :
        /\ pc[w] \in {"resuming", "deriving"} => job[w].op = "learning"
        /\ pc[w] \in {"claiming", "preparing", "projecting", "checking"} => job[w].op = "bkt"
        /\ pc[w] \in {"correcting", "looking"} => job[w].op = "reconcile"
        /\ pc[w] \in {"retracting", "replacing", "compensating", "restoring"} =>
               job[w].op # "learning"

-----------------------------------------------------------------------------
(* How the steps of a worker move it. *)

Begins(w) ==
    /\ pc[w] = "idle"
    /\ \/ pc'[w] = "resuming" /\ job'[w].op = "learning"
       \/ pc'[w] = "claiming" /\ job'[w].op = "bkt" /\ job'[w].event \notin voided
       \/ pc'[w] = "correcting" /\ job'[w].op = "reconcile" /\ job'[w].event \in voided'
    /\ job'[w].next = 1
    /\ Known(job'[w].event)

Continues(w) ==
    /\ pc[w] # "idle"
    /\ job'[w].event = job[w].event /\ job'[w].op = job[w].op

\* The steps of a worker move no other, and it stops, begins a job or goes on with it.
LEMMA Moves ==
    ASSUME TypeOK, NEW w \in Worker, WorkerStep(w)
    PROVE  /\ \A v \in Worker \ {w} : pc'[v] = pc[v] /\ job'[v] = job[v]
           /\ \/ UNCHANGED <<pc, job>>
              \/ pc'[w] = "idle"
              \/ Begins(w)
              \/ Continues(w)
<1>1. CASE MarkDerivedApplied(w) \/ MarkDerivedFailed(w) \/ MarkRaises(w)
  BY <1>1 DEF MarkDerivedApplied, MarkDerivedFailed, MarkRaises, Stop, Go, TypeOK
<1>2. CASE OpenTool(w) \/ CloseTool(w)
  BY <1>2 DEF OpenTool, CloseTool
<1>3. CASE ClaimLearning(w) \/ ClaimProjection(w) \/ ClaimReconciliation(w)
  <2>1. \/ Stop(w)
        \/ /\ \E p \in {"deriving", "preparing", "looking"} : Go(w, p)
           /\ \E op \in Operation : ClaimDerived(w, job[w].event, op)
    BY <1>3 DEF ClaimLearning, ClaimProjection, ClaimReconciliation, Operation
  <2>2. CASE Stop(w)
    BY <2>2 DEF Stop, Go, TypeOK
  <2>3. CASE /\ \E p \in {"deriving", "preparing", "looking"} : Go(w, p)
             /\ \E op \in Operation : ClaimDerived(w, job[w].event, op)
    <3>1. PICK t : job' = [job EXCEPT ![w].token = t]
      BY <2>3 DEF ClaimDerived
    <3>2. job'[w].event = job[w].event /\ job'[w].op = job[w].op /\ pc[w] # "idle"
      BY <1>3, <3>1 DEF TypeOK, Job, ClaimLearning, ClaimProjection, ClaimReconciliation
    <3>3. \A v \in Worker \ {w} : pc'[v] = pc[v] /\ job'[v] = job[v]
      BY <2>3, <3>1 DEF Go, TypeOK
    <3>4. QED
      BY <3>2, <3>3 DEF Continues
  <2>4. QED
    BY <2>1, <2>2, <2>3
<1>4. ASSUME NEW e \in Event,
             StartDerived(w, e) \/ BeginProjection(w, e) \/ AppendAmendment(w, e)
      PROVE  /\ \A v \in Worker \ {w} : pc'[v] = pc[v] /\ job'[v] = job[v]
             /\ Begins(w)
  <2>1. CASE StartDerived(w, e)
    BY <2>1 DEF StartDerived, Begins, Go, TypeOK, NoJob
  <2>2. CASE BeginProjection(w, e)
    BY <2>2 DEF BeginProjection, Begins, Go, TypeOK, NoJob, Effective
  <2>3. CASE AppendAmendment(w, e)
    BY <2>3 DEF AppendAmendment, Begins, Go, TypeOK, NoJob
  <2>4. QED
    BY <1>4, <2>1, <2>2, <2>3
<1>5. CASE \/ LoadPlan(w) \/ Derive(w) \/ Prepare(w) \/ RecordEvent(w) \/ CheckEffective(w)
           \/ ProjectionRaises(w) \/ DeleteReads(w) \/ DeleteReplaces(w)
           \/ DeleteRaises(w) \/ LookForProjection(w)
  <2>1. pc[w] # "idle" /\ \A v \in Worker \ {w} : pc'[v] = pc[v]
    BY <1>5 DEF LoadPlan, Derive, Prepare, RecordEvent, CheckEffective, ProjectionRaises,
                DeleteReads, DeleteReplaces, DeleteRaises, LookForProjection, Go, TypeOK
  <2>2. /\ job'[w].event = job[w].event /\ job'[w].op = job[w].op
        /\ \A v \in Worker \ {w} : job'[v] = job[v]
    BY <1>5 DEF LoadPlan, Derive, Prepare, RecordEvent, CheckEffective, ProjectionRaises,
                DeleteReads, DeleteReplaces, DeleteRaises, LookForProjection, TypeOK, Job
  <2>3. QED
    BY <2>1, <2>2 DEF Continues
<1>6. QED
  BY <1>1, <1>2, <1>3, <1>4, <1>5, Zenon DEF WorkerStep

\* A worker stays with its operation.
LEMMA OperationsStep ==
    ASSUME TypeOK, OperationsAtPoints, [Next]_vars
    PROVE  OperationsAtPoints'
<1>1. CASE UNCHANGED <<pc, job>>
  BY <1>1 DEF OperationsAtPoints
<1>2. ASSUME NEW p \in Process, Crash(p)
      PROVE  OperationsAtPoints'
  BY <1>2 DEF Crash, OperationsAtPoints, TypeOK
<1>3. ASSUME NEW w \in Worker, WorkerStep(w)
      PROVE  OperationsAtPoints'
  <2>1. CASE pc'[w] = "idle" \/ Begins(w) \/ UNCHANGED <<pc, job>>
    BY <1>1, <1>3, <2>1, Moves DEF OperationsAtPoints, Begins
  <2>2. CASE Continues(w) /\ pc'[w] # "idle" /\ ~UNCHANGED <<pc, job>>
    <3>1. \/ ClaimLearning(w) \/ ClaimProjection(w) \/ ClaimReconciliation(w)
          \/ LoadPlan(w) \/ Derive(w) \/ Prepare(w) \/ RecordEvent(w) \/ CheckEffective(w)
          \/ ProjectionRaises(w) \/ DeleteReads(w) \/ DeleteReplaces(w)
          \/ DeleteRaises(w) \/ LookForProjection(w)
      BY <1>3, <2>2 DEF WorkerStep, Continues, OpenTool, CloseTool, StartDerived, Stop, Go,
             BeginProjection, AppendAmendment, MarkDerivedApplied, MarkDerivedFailed,
             MarkRaises, TypeOK
    <3>2. /\ pc'[w] \in {"resuming", "deriving"} => job[w].op = "learning"
          /\ pc'[w] \in {"claiming", "preparing", "projecting", "checking"} =>
                 job[w].op = "bkt"
          /\ pc'[w] \in {"correcting", "looking"} => job[w].op = "reconcile"
          /\ pc'[w] \in {"retracting", "replacing", "compensating", "restoring"} =>
                 job[w].op # "learning"
      BY <2>2, <3>1 DEF OperationsAtPoints, TypeOK, ClaimLearning, ClaimProjection,
             ClaimReconciliation, LoadPlan, Derive, Prepare, RecordEvent, CheckEffective,
             ProjectionRaises, DeleteReads, DeleteReplaces, DeleteRaises, LookForProjection,
             AfterDeletion, Stop, Go
    <3>3. \A v \in Worker \ {w} : pc'[v] = pc[v] /\ job'[v] = job[v]
      BY <1>3, Moves
    <3>4. QED
      BY <2>2, <3>2, <3>3 DEF OperationsAtPoints, Continues
  <2>3. QED
    BY <1>3, <2>1, <2>2, Moves
<1>4. CASE \/ \E e \in Event : Append(e)
           \/ \E e \in Event, op \in Operation : LeaseLapses(e, op)
  BY <1>1, <1>4 DEF Append, LeaseLapses
<1>5. QED
  BY <1>1, <1>2, <1>3, <1>4 DEF Next, vars

-----------------------------------------------------------------------------
(* Learning plans, for any workers and processes. *)

\* Whatever copy of the plan is about is made of plans that were saved, and an
\* answer is ready to be marked as derived only when it has been in one.
PlanInvariant ==
    /\ progress \subseteq planned
    /\ \A w \in Worker : /\ job[w].plan \subseteq planned
                         /\ held[w] # None => held[w] \subseteq planned
                         /\ pc[w] = "completing" /\ job[w].op = "learning" =>
                                job[w].event \in planned
    /\ AppliedWasPlanned

\* Plans are never forgotten, and a worker is ready to complete a derivation only
\* after the callback.
LEMMA PlansKept ==
    ASSUME TypeOK, OperationsAtPoints, PlanInvariant, [Next]_vars
    PROVE  /\ planned \subseteq planned'
           /\ progress' \subseteq planned'
           /\ \A w \in Worker : held'[w] # None => held'[w] \subseteq planned'
<1>1. CASE UNCHANGED planning
  BY <1>1 DEF PlanInvariant
<1>2. ASSUME NEW w \in Worker, OpenTool(w)
      PROVE  /\ planned \subseteq planned'
             /\ progress' \subseteq planned'
             /\ \A v \in Worker : held'[v] # None => held'[v] \subseteq planned'
  BY <1>2 DEF OpenTool, PlanInvariant, TypeOK
<1>3. ASSUME NEW w \in Worker, CloseTool(w)
      PROVE  /\ planned \subseteq planned'
             /\ progress' \subseteq planned'
             /\ \A v \in Worker : held'[v] # None => held'[v] \subseteq planned'
  BY <1>3 DEF CloseTool, Saves, PlanInvariant, TypeOK
<1>4. ASSUME NEW w \in Worker, Derive(w)
      PROVE  /\ planned \subseteq planned'
             /\ progress' \subseteq planned'
             /\ \A v \in Worker : held'[v] # None => held'[v] \subseteq planned'
  <2>1. \/ UNCHANGED planning
        \/ \E plan : /\ progress' = plan /\ planned' = planned \cup plan
                     /\ held' = held \/ held' = [held EXCEPT ![w] = plan]
    BY <1>4 DEF Derive, Saves
  <2>2. QED
    BY <1>1, <2>1 DEF PlanInvariant, TypeOK
<1>5. ASSUME NEW w \in Worker, WorkerStep(w), ~OpenTool(w), ~CloseTool(w), ~Derive(w)
      PROVE  UNCHANGED planning
  BY <1>5 DEF WorkerStep, StartDerived, BeginProjection, AppendAmendment, ClaimLearning,
         LoadPlan, ClaimProjection, Prepare, RecordEvent, CheckEffective, ProjectionRaises,
         DeleteReads, DeleteReplaces, DeleteRaises, ClaimReconciliation, LookForProjection,
         MarkDerivedApplied, MarkDerivedFailed, MarkRaises
<1>6. ASSUME NEW p \in Process, Crash(p)
      PROVE  /\ planned \subseteq planned'
             /\ progress' \subseteq planned'
             /\ \A v \in Worker : held'[v] # None => held'[v] \subseteq planned'
  BY <1>6 DEF Crash, PlanInvariant, TypeOK
<1>7. CASE \/ \E e \in Event : Append(e)
           \/ \E e \in Event, op \in Operation : LeaseLapses(e, op)
  BY <1>1, <1>7 DEF Append, LeaseLapses
<1>8. QED
  BY <1>1, <1>2, <1>3, <1>4, <1>5, <1>6, <1>7 DEF Next, vars

\* So are the copies the workers derive into.
LEMMA CopiesKept ==
    ASSUME TypeOK, OperationsAtPoints, PlanInvariant, [Next]_vars, NEW w \in Worker
    PROVE  /\ job'[w].plan \subseteq planned'
           /\ pc'[w] = "completing" /\ job'[w].op = "learning" => job'[w].event \in planned'
<1> DEFINE Good == /\ job'[w].plan \subseteq planned'
                   /\ pc'[w] = "completing" /\ job'[w].op = "learning" =>
                          job'[w].event \in planned'
<1>1. planned \subseteq planned' /\ progress \subseteq planned
  BY PlansKept DEF PlanInvariant
<1>2. CASE UNCHANGED <<pc[w], job[w]>>
  BY <1>1, <1>2 DEF PlanInvariant
<1>3. ASSUME NEW p \in Process, Crash(p)
      PROVE  Good
  BY <1>1, <1>2, <1>3 DEF Crash, TypeOK, NoJob
<1>4. CASE WorkerStep(w)
  <2>1. CASE Derive(w)
    <3>1. job'[w].plan = {} /\ job'[w].event = job[w].event
      BY <2>1 DEF Derive, TypeOK, Job
    <3>2. pc'[w] = "completing" => job[w].event \in planned'
      BY <1>1, <2>1 DEF Derive, PlanInvariant, Saves, Go, TypeOK
    <3>3. QED
      BY <3>1, <3>2
  <2>2. CASE \E e \in Event : StartDerived(w, e)
    <3>1. /\ pc'[w] = "resuming"
          /\ (job'[w].plan = progress \/ (held[w] # None /\ job'[w].plan = held[w]))
      BY <2>2 DEF StartDerived, Go, TypeOK, NoJob
    <3>2. QED
      BY <1>1, <3>1 DEF PlanInvariant
  <2>3. CASE LoadPlan(w)
    <3>1. pc'[w] = "deriving" /\ job'[w].plan = progress
      BY <2>3 DEF LoadPlan, TypeOK, Job
    <3>2. QED
      BY <1>1, <3>1
  <2>4. CASE \E e \in Event : BeginProjection(w, e) \/ AppendAmendment(w, e)
    <3>1. pc'[w] \in {"claiming", "correcting"} /\ job'[w].plan = {}
      BY <2>4 DEF BeginProjection, AppendAmendment, Go, TypeOK, NoJob
    <3>2. QED
      BY <3>1
  <2>5. CASE ClaimLearning(w) \/ ClaimProjection(w) \/ ClaimReconciliation(w)
    <3>1. \/ Stop(w)
          \/ /\ \E p \in {"deriving", "preparing", "looking"} : Go(w, p)
             /\ \E op \in Operation : ClaimDerived(w, job[w].event, op)
      BY <2>5 DEF ClaimLearning, ClaimProjection, ClaimReconciliation, Operation
    <3>2. CASE Stop(w)
      BY <3>2 DEF Stop, Go, TypeOK, NoJob
    <3>3. CASE /\ \E p \in {"deriving", "preparing", "looking"} : Go(w, p)
               /\ \E op \in Operation : ClaimDerived(w, job[w].event, op)
      <4>1. PICK t : job' = [job EXCEPT ![w].token = t]
        BY <3>3 DEF ClaimDerived
      <4>2. pc'[w] # "completing" /\ job'[w].plan = job[w].plan
        BY <3>3, <4>1 DEF Go, TypeOK, Job
      <4>3. QED
        BY <1>1, <4>2 DEF PlanInvariant
    <3>4. QED
      BY <3>1, <3>2, <3>3
  <2>6. CASE MarkDerivedApplied(w) \/ MarkDerivedFailed(w) \/ MarkRaises(w)
    BY <2>6 DEF MarkDerivedApplied, MarkDerivedFailed, MarkRaises, Stop, Go, TypeOK, NoJob
  <2>7. CASE OpenTool(w) \/ CloseTool(w)
    BY <1>2, <2>7 DEF OpenTool, CloseTool
  <2>8. CASE \/ Prepare(w) \/ RecordEvent(w) \/ CheckEffective(w)
             \/ ProjectionRaises(w) \/ DeleteReads(w) \/ DeleteReplaces(w)
             \/ DeleteRaises(w) \/ LookForProjection(w)
    <3>1. job'[w].plan = job[w].plan /\ job'[w].op = job[w].op
      BY <2>8 DEF Prepare, RecordEvent, CheckEffective, ProjectionRaises, DeleteReads,
                  DeleteReplaces, DeleteRaises, LookForProjection, TypeOK, Job
    <3>2. job[w].op # "learning" \/ pc'[w] # "completing"
      BY <2>8 DEF Prepare, RecordEvent, CheckEffective, ProjectionRaises, DeleteReads,
                  DeleteReplaces, DeleteRaises, LookForProjection, OperationsAtPoints, Go, TypeOK
    <3>3. QED
      BY <1>1, <3>1, <3>2 DEF PlanInvariant
  <2>9. QED
    BY <1>4, <2>1, <2>2, <2>3, <2>4, <2>5, <2>6, <2>7, <2>8, Zenon DEF WorkerStep
<1>5. ASSUME NEW v \in Worker, v # w, WorkerStep(v)
      PROVE  Good
  BY <1>2, <1>5, Moves
<1>6. CASE \/ \E e \in Event : Append(e)
           \/ \E e \in Event, op \in Operation : LeaseLapses(e, op)
           \/ UNCHANGED vars
  BY <1>2, <1>6 DEF Append, LeaseLapses, vars
<1>7. QED
  BY <1>3, <1>4, <1>5, <1>6 DEF Next

\* A row becomes applied by the mark of the worker whose operation it is.
LEMMA AppliedByMark ==
    ASSUME TypeOK, [Next]_vars, NEW e \in Event, NEW op \in Operation,
           Applied(e, op)', ~Applied(e, op)
    PROVE  \E w \in Worker : /\ MarkDerivedApplied(w) /\ Holds(w)
                             /\ job[w].event = e /\ job[w].op = op
<1>1. row' # row /\ row[e][op].state # "applied" /\ row'[e][op].state = "applied"
  BY DEF Applied
<1>2. ASSUME NEW f \in Event, Append(f)
      PROVE  FALSE
  BY <1>1, <1>2 DEF Append, TypeOK, Operation, Row
<1>3. ASSUME NEW f \in Event, NEW o \in Operation, LeaseLapses(f, o)
      PROVE  FALSE
  BY <1>1, <1>3 DEF LeaseLapses, TypeOK, Operation, Row
<1>4. ASSUME NEW w \in Worker, WorkerStep(w)
      PROVE  /\ MarkDerivedApplied(w) /\ Holds(w)
             /\ job[w].event = e /\ job[w].op = op
  <2>1. CASE MarkDerivedApplied(w)
    <3>1. Holds(w) /\ job[w].event \in Event /\ job[w].op \in Operation
      BY <1>1, <2>1 DEF MarkDerivedApplied, TypeOK, Job
    <3>2. job[w].event = e /\ job[w].op = op
      BY <1>1, <2>1, <3>1 DEF MarkDerivedApplied, TypeOK
    <3>3. QED
      BY <2>1, <3>1, <3>2
  <2>2. CASE MarkDerivedFailed(w)
    BY <1>1, <2>2 DEF MarkDerivedFailed, TypeOK, Job, Row
  <2>3. CASE ClaimLearning(w) \/ ClaimProjection(w) \/ ClaimReconciliation(w)
    <3>1. PICK o \in Operation : ClaimDerived(w, job[w].event, o)
      BY <1>1, <2>3 DEF ClaimLearning, ClaimProjection, ClaimReconciliation, Operation
    <3>2. job[w].event \in Event
      BY <2>3 DEF ClaimLearning, ClaimProjection, ClaimReconciliation, TypeOK
    <3>3. /\ Worked(row[job[w].event][o], row'[job[w].event][o])
          /\ SameElsewhere(job[w].event, o)
      BY <3>1, <3>2, ClaimWorks
    <3>4. row'[job[w].event][o].state # "applied"
      BY <3>1, <3>2 DEF ClaimDerived, Claimable, TypeOK, Row
    <3>5. QED
      BY <1>1, <3>3, <3>4 DEF SameElsewhere, SameRow
  <2>4. CASE \E f \in Event : AppendAmendment(w, f)
    BY <1>1, <2>4 DEF AppendAmendment, TypeOK, Operation, Row
  <2>5. QED
    BY <1>1, <1>4, <2>1, <2>2, <2>3, <2>4 DEF WorkerStep, OpenTool, CloseTool, StartDerived,
       BeginProjection, LoadPlan, Derive, Prepare, RecordEvent, CheckEffective,
       ProjectionRaises, DeleteReads, DeleteReplaces, DeleteRaises, LookForProjection, MarkRaises
<1>5. ASSUME NEW p \in Process, Crash(p)
      PROVE  FALSE
  BY <1>1, <1>5 DEF Crash
<1>6. QED
  BY <1>1, <1>2, <1>3, <1>4, <1>5 DEF Next, vars

\* Every step keeps what is known of the plans.
LEMMA PlanStep ==
    ASSUME TypeOK, OperationsAtPoints, PlanInvariant, [Next]_vars
    PROVE  PlanInvariant'
<1>1. ASSUME NEW e \in Event, Applied(e, "learning")'
      PROVE  e \in planned'
  <2>1. CASE Applied(e, "learning")
    BY <2>1, PlansKept DEF PlanInvariant, AppliedWasPlanned
  <2>2. CASE ~Applied(e, "learning")
    <3>1. "learning" \in Operation
      BY DEF Operation
    <3>2. PICK w \in Worker : /\ MarkDerivedApplied(w)
                              /\ job[w].event = e /\ job[w].op = "learning"
      BY <1>1, <2>2, <3>1, AppliedByMark
    <3>3. QED
      BY <3>2, PlansKept DEF MarkDerivedApplied, PlanInvariant
  <2>3. QED
    BY <2>1, <2>2
<1>2. QED
  BY <1>1, PlansKept, CopiesKept DEF PlanInvariant, AppliedWasPlanned

LEMMA PlanInvariance == Spec => [](OperationsAtPoints /\ PlanInvariant)
<1>1. Init => OperationsAtPoints /\ PlanInvariant
  BY DEF Init, OperationsAtPoints, PlanInvariant, AppliedWasPlanned, Applied, NoJob, Operation
<1>2. /\ TypeOK /\ OperationsAtPoints /\ PlanInvariant /\ [Next]_vars
      => (OperationsAtPoints /\ PlanInvariant)'
  BY OperationsStep, PlanStep
<1>3. QED
  BY <1>1, <1>2, TypeCorrect, PTL DEF Spec

\* An answer that is marked as derived has been in a plan that was saved, for any
\* answers, workers, processes and tools, and however many claims are drawn.
THEOREM DerivedWasPlanned == Spec => []AppliedWasPlanned
<1>1. PlanInvariant => AppliedWasPlanned
  BY DEF PlanInvariant
<1>2. QED
  BY <1>1, PlanInvariance, PTL

-----------------------------------------------------------------------------
(* Evidence, for workers of one process. *)

Deleting(w) == pc[w] \in {"replacing", "restoring"}

\* Only one worker is between reading the signals and replacing them, and nobody
\* changes them meanwhile.
LockHolds ==
    /\ \A v, w \in Worker : Deleting(v) /\ Deleting(w) => v = w
    /\ \A w \in Worker : Deleting(w) => job[w].kept = signals \ Of(job[w].event)

\* An answer that is worked on is known; it is voided if a correction works on it,
\* or a projection that retracts its evidence.
WorkIsJustified ==
    \A w \in Worker :
        /\ pc[w] # "idle" => Known(job[w].event)
        /\ \/ pc[w] # "idle" /\ job[w].op = "reconcile"
           \/ pc[w] \in {"retracting", "replacing"}
           => job[w].event \in voided

Projecting(w, e) == pc[w] \notin Unclaimed /\ job[w].event = e /\ job[w].op = "bkt"

\* Whoever projects an answer that was never claimed away holds its claim.
ProjectionsAreHeld ==
    \A w \in Worker, e \in Event \ overtaken :
        Projecting(w, e) => Holds(w) /\ job[w].token.by = w

\* What is written of the evidence of such an answer while it is in effect.
EvidenceSoFar(w) ==
    LET e == job[w].event IN
    /\ pc[w] \in {"claiming", "preparing"} => job[w].next = 1
    /\ pc[w] = "projecting" => \A k \in 1..Components : k < job[w].next => <<e, k>> \in signals
    /\ pc[w] \in {"checking", "completing"} => Of(e) \subseteq signals

EvidenceIsWritten ==
    \A w \in Worker, e \in Event \ (voided \cup overtaken) :
        pc[w] # "idle" /\ job[w].event = e /\ job[w].op = "bkt" => EvidenceSoFar(w)

EvidenceInvariant ==
    /\ LockHolds
    /\ WorkIsJustified
    /\ ProjectionsAreHeld
    /\ EvidenceIsWritten
    /\ EvidenceIsKept

\* What is known or voided stays so, and so does a claim that was taken away.
LEMMA Lasting ==
    ASSUME QueueInvariant, [Next]_vars
    PROVE  /\ \A e \in Event : Known(e) => Known(e)'
           /\ voided \subseteq voided'
           /\ overtaken \subseteq overtaken'
<1>1. \A e \in Event : Known(e) => Known(e)'
  <2>1. ASSUME NEW e \in Event, Append(e)
        PROVE  \A f \in Event : Known(f) => Known(f)'
    BY <2>1, AppendRows DEF Known, Append, SameRow, Operation
  <2>2. ASSUME NEW w \in Worker, NEW e \in Event, AppendAmendment(w, e)
        PROVE  \A f \in Event : Known(f) => Known(f)'
    BY <2>2, AmendmentRows DEF Known, SameElsewhere, SameRow, Operation
  <2>3. CASE NothingQueued
    BY <2>3 DEF NothingQueued, SameElsewhere, SameRow, Worked, Claimed, Settled, Known, Operation
  <2>4. QED
    BY <2>1, <2>2, <2>3, QueueSteps DEF QueueInvariant
<1>2. voided \subseteq voided'
  BY QueueSteps DEF QueueInvariant, Append, AppendAmendment, NothingQueued
<1>3. overtaken \subseteq overtaken'
  <2>1. ASSUME NEW w \in Worker, WorkerStep(w)
        PROVE  overtaken \subseteq overtaken'
    BY <2>1 DEF WorkerStep, StartDerived, BeginProjection, AppendAmendment, ClaimLearning,
       LoadPlan, ClaimProjection, Prepare, RecordEvent, CheckEffective, ProjectionRaises,
       DeleteReads, DeleteReplaces, DeleteRaises, ClaimReconciliation, LookForProjection,
       MarkDerivedApplied, MarkDerivedFailed, MarkRaises, OpenTool, CloseTool, Derive,
       ClaimDerived
  <2>2. QED
    BY <2>1 DEF Next, vars, Append, LeaseLapses, Crash
<1>4. QED
  BY <1>1, <1>2, <1>3

\* The signals are written by record_event and by the end of a deletion.
LEMMA SignalsStep ==
    ASSUME [Next]_vars
    PROVE  \/ UNCHANGED signals
           \/ \E w \in Worker : RecordEvent(w) \/ DeleteReplaces(w)
<1>1. ASSUME NEW w \in Worker, WorkerStep(w), ~RecordEvent(w), ~DeleteReplaces(w)
      PROVE  UNCHANGED signals
  BY <1>1 DEF WorkerStep, StartDerived, BeginProjection, AppendAmendment, ClaimLearning,
     LoadPlan, ClaimProjection, Prepare, CheckEffective, ProjectionRaises,
     DeleteReads, DeleteRaises, ClaimReconciliation, LookForProjection,
     MarkDerivedApplied, MarkDerivedFailed, MarkRaises, OpenTool, CloseTool, Derive
<1>2. QED
  BY <1>1 DEF Next, vars, Append, LeaseLapses, Crash

\* In one process, whoever has the lock is alone in a deletion.
LEMMA Alone ==
    ASSUME OneHome, NEW w \in Worker, LockFree(w)
    PROVE  \A v \in Worker \ {w} : ~Deleting(v)
BY DEF OneHome, LockFree, Deleting

\* The mutation lock does its work.
LEMMA LockStep ==
    ASSUME OneHome, TypeOK, LockHolds, [Next]_vars
    PROVE  LockHolds'
<1>1. CASE UNCHANGED <<pc, job, signals>>
  BY <1>1 DEF LockHolds, Deleting
<1>2. ASSUME NEW p \in Process, Crash(p)
      PROVE  LockHolds'
  BY <1>2 DEF Crash, LockHolds, Deleting, TypeOK
<1>3. ASSUME NEW w \in Worker, WorkerStep(w)
      PROVE  LockHolds'
  <2>1. \A v \in Worker \ {w} : pc'[v] = pc[v] /\ job'[v] = job[v]
    BY <1>3, Moves
  <2>2. CASE RecordEvent(w)
    <3>1. ~Deleting(w)' /\ \A v \in Worker \ {w} : ~Deleting(v)
      BY <2>2, Alone DEF RecordEvent, Deleting, Go, TypeOK
    <3>2. QED
      BY <2>1, <3>1 DEF LockHolds, Deleting
  <2>3. CASE DeleteReplaces(w)
    <3>1. ~Deleting(w)' /\ \A v \in Worker \ {w} : ~Deleting(v)
      BY <2>3 DEF DeleteReplaces, LockHolds, Deleting, AfterDeletion, Go, TypeOK
    <3>2. QED
      BY <2>1, <3>1 DEF LockHolds, Deleting
  <2>4. CASE DeleteReads(w)
    <3>1. \A v \in Worker \ {w} : ~Deleting(v)
      BY <2>4, Alone DEF DeleteReads
    <3>2. Deleting(w)' => job'[w].kept = signals' \ Of(job'[w].event)
      BY <2>4 DEF DeleteReads, Deleting, AfterDeletion, Go, TypeOK, Job
    <3>3. QED
      BY <2>1, <3>1, <3>2 DEF LockHolds, Deleting
  <2>5. CASE ~RecordEvent(w) /\ ~DeleteReplaces(w) /\ ~DeleteReads(w)
    <3>1. UNCHANGED signals /\ (~Deleting(w)' \/ UNCHANGED <<pc, job>>)
      BY <1>3, <2>5 DEF WorkerStep, StartDerived, BeginProjection, AppendAmendment,
         ClaimLearning, LoadPlan, ClaimProjection, Prepare, CheckEffective, ProjectionRaises,
         DeleteRaises, ClaimReconciliation, LookForProjection, MarkDerivedApplied,
         MarkDerivedFailed, MarkRaises, OpenTool, CloseTool, Derive, Deleting, Go, Stop, TypeOK
    <3>2. QED
      BY <1>1, <2>1, <3>1 DEF LockHolds, Deleting
  <2>6. QED
    BY <2>2, <2>3, <2>4, <2>5
<1>4. CASE \/ \E e \in Event : Append(e)
           \/ \E e \in Event, op \in Operation : LeaseLapses(e, op)
  BY <1>1, <1>4 DEF Append, LeaseLapses
<1>5. QED
  BY <1>1, <1>2, <1>3, <1>4 DEF Next, vars

\* Retractions stay justified.
LEMMA WorkStep ==
    ASSUME QueueInvariant, OperationsAtPoints, WorkIsJustified, [Next]_vars
    PROVE  WorkIsJustified'
<1> DEFINE Right(w) ==
        /\ pc'[w] # "idle" => Known(job[w].event)'
        /\ \/ pc'[w] # "idle" /\ job'[w].op = "reconcile"
           \/ pc'[w] \in {"retracting", "replacing"}
           => job'[w].event \in voided'
<1>0. TypeOK
  BY DEF QueueInvariant
<1>1. ASSUME NEW w \in Worker, UNCHANGED <<pc[w], job[w]>>
      PROVE  Right(w)
  BY <1>0, <1>1, Lasting DEF WorkIsJustified, TypeOK
<1>2. ASSUME NEW p \in Process, Crash(p), NEW w \in Worker
      PROVE  Right(w)
  BY <1>0, <1>1, <1>2 DEF Crash, TypeOK
<1>3. ASSUME NEW w \in Worker, WorkerStep(w)
      PROVE  Right(w)
  <2>1. CASE pc'[w] = "idle" \/ UNCHANGED <<pc, job>>
    BY <1>1, <2>1
  <2>2. CASE Begins(w) /\ pc'[w] # "idle"
    <3>1. job'[w].event \in Event
      BY <1>0, <1>3, <2>2, TypeStep DEF TypeOK, Next
    <3>2. QED
      BY <2>2, <3>1, Lasting DEF Begins
  <2>3. CASE Continues(w) /\ pc'[w] # "idle" /\ ~UNCHANGED <<pc, job>>
    <3>1. job[w].event \in Event
      BY <1>0, <2>3 DEF TypeOK, Continues
    <3>2. pc'[w] \in {"retracting", "replacing"} => job[w].event \in voided
      <4>1. CASE CheckEffective(w)
        BY <1>0, <4>1 DEF CheckEffective, Effective, WorkIsJustified, Go, TypeOK
      <4>2. CASE LookForProjection(w)
        BY <2>3, <4>2 DEF LookForProjection, OperationsAtPoints, WorkIsJustified
      <4>3. CASE DeleteReads(w)
        BY <1>0, <4>3 DEF DeleteReads, AfterDeletion, WorkIsJustified, Go, TypeOK
      <4>4. CASE ~CheckEffective(w) /\ ~LookForProjection(w) /\ ~DeleteReads(w)
        BY <1>0, <1>3, <2>3, <4>4 DEF WorkerStep, StartDerived, BeginProjection,
           AppendAmendment, ClaimLearning, LoadPlan, ClaimProjection, Prepare, RecordEvent,
           ProjectionRaises, DeleteReplaces, DeleteRaises, ClaimReconciliation,
           MarkDerivedApplied, MarkDerivedFailed, MarkRaises, OpenTool, CloseTool, Derive,
           AfterDeletion, Go, Stop, TypeOK
      <4>5. QED
        BY <4>1, <4>2, <4>3, <4>4
    <3>3. QED
      BY <2>3, <3>1, <3>2, Lasting DEF WorkIsJustified, Continues
  <2>4. QED
    BY <1>0, <1>3, <2>1, <2>2, <2>3, Moves
<1>4. ASSUME NEW v \in Worker, WorkerStep(v), NEW w \in Worker
      PROVE  Right(w)
  BY <1>0, <1>1, <1>3, <1>4, Moves
<1>5. CASE \/ \E e \in Event : Append(e)
           \/ \E e \in Event, op \in Operation : LeaseLapses(e, op)
           \/ UNCHANGED vars
  BY <1>1, <1>5 DEF Append, LeaseLapses, vars, WorkIsJustified
<1>6. QED
  BY <1>2, <1>4, <1>5 DEF Next, WorkIsJustified

\* Two workers that hold the claim on one projection are one.
LEMMA OneHolder ==
    ASSUME ProjectionsAreHeld, NEW e \in Event \ overtaken, NEW v \in Worker, NEW w \in Worker,
           Projecting(v, e), Projecting(w, e)
    PROVE  v = w
BY DEF ProjectionsAreHeld, Projecting, Holds

\* A claim that is held is lost only by being taken away, or by the worker's own mark.
LEMMA ClaimKept ==
    ASSUME TypeOK, ProjectionsAreHeld, [Next]_vars, NEW e \in Event, e \notin overtaken',
           overtaken \subseteq overtaken',
           NEW w \in Worker, Projecting(w, e), UNCHANGED <<pc[w], job[w]>>
    PROVE  Holds(w)'
<1> DEFINE r == row[e]["bkt"]
           s == row'[e]["bkt"]
<1>1. /\ r.state = "queued" /\ r.token = job[w].token /\ r.token # NoToken
      /\ job[w].token.by = w /\ job[w].event = e /\ job[w].op = "bkt"
  BY DEF ProjectionsAreHeld, Projecting, Holds
<1>2. SUFFICES s.state = r.state /\ s.token = r.token
  BY <1>1 DEF Holds
<1>3. CASE UNCHANGED row
  BY <1>3
<1>4. ASSUME NEW f \in Event, Append(f)
      PROVE  s = r
  BY <1>1, <1>4 DEF Append, Known, TypeOK
<1>5. ASSUME NEW f \in Event, NEW o \in Operation, LeaseLapses(f, o)
      PROVE  s.state = r.state /\ s.token = r.token
  BY <1>5 DEF LeaseLapses, TypeOK, Row, Operation
<1>6. ASSUME NEW v \in Worker, WorkerStep(v)
      PROVE  s.state = r.state /\ s.token = r.token
  <2>1. CASE \E f \in Event : AppendAmendment(v, f)
    BY <2>1 DEF AppendAmendment, TypeOK, Operation
  <2>2. CASE ClaimLearning(v) \/ ClaimProjection(v) \/ ClaimReconciliation(v)
    <3>1. CASE UNCHANGED row
      BY <3>1
    <3>2. CASE row' # row
      <4>1. /\ job[v].event \in Event /\ pc[v] \in Unclaimed
            /\ \E o \in Operation : ClaimDerived(v, job[v].event, o)
        BY <2>2, <3>2 DEF ClaimLearning, ClaimProjection, ClaimReconciliation, TypeOK,
                          Operation, Unclaimed
      <4>2. PICK o \in Operation : ClaimDerived(v, job[v].event, o)
        BY <4>1
      <4>3. SameElsewhere(job[v].event, o)
        BY <4>1, <4>2, ClaimWorks
      <4>4. ~(job[v].event = e /\ o = "bkt")
        <5>1. v # w /\ pc[w] # "idle"
          BY <4>1 DEF Projecting, Unclaimed
        <5>2. Works(w, e, "bkt") /\ Holds(w)
          BY <1>1, <5>1 DEF Works, Holds
        <5>3. QED
          BY <4>2, <5>1, <5>2 DEF ClaimDerived
      <4>5. QED
        BY <4>3, <4>4 DEF SameElsewhere, SameRow, Operation
    <3>3. QED
      BY <3>1, <3>2
  <2>3. CASE MarkDerivedApplied(v) \/ MarkDerivedFailed(v)
    <3>1. CASE ~Holds(v)
      BY <2>3, <3>1 DEF MarkDerivedApplied, MarkDerivedFailed
    <3>2. CASE Holds(v)
      <4>1. v # w
        BY <2>3, <1>1 DEF MarkDerivedApplied, MarkDerivedFailed, Stop, Go, Projecting,
                          Unclaimed, TypeOK
      <4>2. ~(job[v].event = e /\ job[v].op = "bkt")
        BY <2>3, <4>1, OneHolder DEF Projecting, Unclaimed, MarkDerivedApplied,
                                           MarkDerivedFailed
      <4>3. job[v].event \in Event /\ job[v].op \in Operation
        BY <2>3 DEF MarkDerivedApplied, MarkDerivedFailed, TypeOK, Job
      <4>4. QED
        BY <2>3, <4>2, <4>3 DEF MarkDerivedApplied, MarkDerivedFailed, TypeOK, Operation
    <3>3. QED
      BY <3>1, <3>2
  <2>4. QED
    BY <1>3, <1>6, <2>1, <2>2, <2>3 DEF WorkerStep, OpenTool, CloseTool, StartDerived,
       BeginProjection, LoadPlan, Derive, Prepare, RecordEvent, CheckEffective,
       ProjectionRaises, DeleteReads, DeleteReplaces, DeleteRaises, LookForProjection, MarkRaises
<1>7. QED
  BY <1>3, <1>4, <1>5, <1>6 DEF Next, vars, Crash

\* Projections go on being held.
LEMMA ProjectionsStep ==
    ASSUME QueueInvariant, OperationsAtPoints, ProjectionsAreHeld, [Next]_vars
    PROVE  ProjectionsAreHeld'
<1>0. TypeOK /\ overtaken \subseteq overtaken'
  BY Lasting DEF QueueInvariant
<1>1. ASSUME NEW w \in Worker, NEW e \in Event, e \notin overtaken',
             Projecting(w, e)', UNCHANGED <<pc[w], job[w]>>
      PROVE  Holds(w)' /\ job'[w].token.by = w
  <2>1. Projecting(w, e)
    BY <1>1 DEF Projecting
  <2>2. Holds(w)'
    BY <1>0, <1>1, <2>1, ClaimKept
  <2>3. QED
    BY <1>0, <1>1, <2>1, <2>2 DEF ProjectionsAreHeld
<1>2. ASSUME NEW w \in Worker, WorkerStep(w), NEW e \in Event, e \notin overtaken',
             Projecting(w, e)'
      PROVE  Holds(w)' /\ job'[w].token.by = w
  <2>1. CASE UNCHANGED <<pc, job>>
    BY <1>1, <1>2, <2>1
  <2>2. CASE pc'[w] = "idle" \/ Begins(w)
    BY <1>2, <2>2 DEF Begins, Projecting, Unclaimed
  <2>3. CASE Continues(w) /\ pc'[w] # "idle" /\ ~UNCHANGED <<pc, job>>
    <3>0. job[w].event = e /\ job[w].op = "bkt"
      BY <1>2, <2>3 DEF Projecting, Continues
    <3>1. CASE ClaimProjection(w)
      <4>1. ClaimDerived(w, e, "bkt")
        BY <1>0, <2>3, <3>0, <3>1 DEF ClaimProjection, Stop, Go, TypeOK
      <4> DEFINE n == row[e]["bkt"].drawn + 1
                 t == [by |-> w, n |-> n]
                 s == [row[e]["bkt"] EXCEPT !.token = t, !.live = TRUE, !.drawn = n]
      <4>2. /\ row[e]["bkt"] \in Row /\ row[e]["bkt"].state = "queued" /\ n \in Nat
        BY <1>0, <4>1 DEF TypeOK, ClaimDerived, Claimable, Row, Operation
      <4>3. s.token = t /\ s.state = "queued" /\ t # NoToken /\ t.by = w
        BY <4>2, Shapes DEF Row
      <4>4. job'[w].token = t
        BY <1>0, <4>1 DEF ClaimDerived, TypeOK, Job
      <4>5. row' = [row EXCEPT ![e]["bkt"] = s]
        BY <1>0, <4>1 DEF ClaimDerived, TypeOK, Operation
      <4> HIDE DEF n, t, s
      <4>6. row'[e]["bkt"] = s
        BY <1>0, <4>5 DEF TypeOK, Operation
      <4>7. job'[w].event = e /\ job'[w].op = "bkt"
        BY <2>3, <3>0 DEF Continues
      <4>8. QED
        BY <4>3, <4>4, <4>6, <4>7 DEF Holds
    <3>2. CASE ~ClaimProjection(w)
      <4>1. \/ Prepare(w) \/ RecordEvent(w) \/ CheckEffective(w) \/ ProjectionRaises(w)
            \/ DeleteReads(w) \/ DeleteReplaces(w) \/ DeleteRaises(w)
        <5>1. \A f \in Event : ~StartDerived(w, f) /\ ~BeginProjection(w, f)
                               /\ ~AppendAmendment(w, f)
          BY <2>3 DEF Continues, StartDerived, BeginProjection, AppendAmendment
        <5>2. ~OpenTool(w) /\ ~CloseTool(w)
          BY <2>3 DEF Continues, OpenTool, CloseTool
        <5>3. ~MarkDerivedApplied(w) /\ ~MarkDerivedFailed(w) /\ ~MarkRaises(w)
          BY <1>0, <2>3 DEF MarkDerivedApplied, MarkDerivedFailed, MarkRaises, Stop, Go, TypeOK
        <5>4. /\ ~ClaimLearning(w) /\ ~LoadPlan(w) /\ ~Derive(w)
              /\ ~ClaimReconciliation(w) /\ ~LookForProjection(w)
          BY <3>0 DEF OperationsAtPoints, ClaimLearning, LoadPlan, Derive,
                      ClaimReconciliation, LookForProjection
        <5>5. QED
          BY <1>2, <3>2, <5>1, <5>2, <5>3, <5>4 DEF WorkerStep
      <4>2. UNCHANGED row /\ pc[w] \notin Unclaimed /\ job'[w].token = job[w].token
        BY <1>0, <4>1 DEF Prepare, RecordEvent, CheckEffective, ProjectionRaises,
           DeleteReads, DeleteReplaces, DeleteRaises, Unclaimed, TypeOK, Job
      <4>3. Holds(w) /\ job[w].token.by = w
        BY <1>0, <1>2, <3>0, <4>2 DEF ProjectionsAreHeld, Projecting
      <4>4. QED
        BY <2>3, <4>2, <4>3 DEF Holds, Continues
    <3>3. QED
      BY <3>1, <3>2
  <2>4. QED
    BY <1>0, <1>2, <2>1, <2>2, <2>3, Moves
<1>3. ASSUME NEW v \in Worker, WorkerStep(v), NEW w \in Worker, NEW e \in Event,
             e \notin overtaken', Projecting(w, e)'
      PROVE  Holds(w)' /\ job'[w].token.by = w
  BY <1>0, <1>1, <1>2, <1>3, Moves
<1>4. ASSUME NEW p \in Process, Crash(p), NEW w \in Worker, NEW e \in Event,
             e \notin overtaken', Projecting(w, e)'
      PROVE  Holds(w)' /\ job'[w].token.by = w
  <2>1. UNCHANGED <<pc[w], job[w]>>
    BY <1>0, <1>4 DEF Crash, Projecting, Unclaimed, TypeOK
  <2>2. QED
    BY <1>1, <1>4, <2>1
<1>5. CASE \/ \E e \in Event : Append(e)
           \/ \E e \in Event, op \in Operation : LeaseLapses(e, op)
           \/ UNCHANGED vars
  <2>1. UNCHANGED <<pc, job>>
    BY <1>5 DEF Append, LeaseLapses, vars
  <2>2. QED
    BY <1>1, <2>1 DEF ProjectionsAreHeld
<1>6. QED
  BY <1>3, <1>4, <1>5 DEF Next, ProjectionsAreHeld

\* Of the evidence of an answer in effect, only a compensation by the holder of its
\* projection takes anything back.
LEMMA EvidenceStays ==
    ASSUME TypeOK, OperationsAtPoints, LockHolds, WorkIsJustified, [Next]_vars,
           NEW e \in Event \ voided
    PROVE  \/ Of(e) \cap signals \subseteq signals'
           \/ \E v \in Worker : /\ DeleteReplaces(v) /\ pc[v] = "restoring"
                                /\ Projecting(v, e)
<1>1. CASE UNCHANGED signals
  BY <1>1
<1>2. ASSUME NEW v \in Worker, RecordEvent(v)
      PROVE  signals \subseteq signals'
  BY <1>2 DEF RecordEvent
<1>3. ASSUME NEW v \in Worker, DeleteReplaces(v)
      PROVE  \/ Of(e) \cap signals \subseteq signals'
             \/ pc[v] = "restoring" /\ Projecting(v, e)
  <2>1. signals' = signals \ Of(job[v].event) /\ pc[v] \in {"replacing", "restoring"}
    BY <1>3 DEF DeleteReplaces, LockHolds, Deleting
  <2>2. CASE job[v].event = e
    <3>1. pc[v] = "restoring" /\ job[v].op \in Operation
      BY <2>1, <2>2 DEF WorkIsJustified, TypeOK, Job
    <3>2. job[v].op = "bkt"
      BY <2>2, <3>1 DEF WorkIsJustified, OperationsAtPoints, Operation
    <3>3. QED
      BY <2>2, <3>1, <3>2 DEF Projecting, Unclaimed
  <2>3. CASE job[v].event # e
    BY <2>1, <2>3 DEF Of
  <2>4. QED
    BY <2>2, <2>3
<1>4. QED
  BY <1>1, <1>2, <1>3, SignalsStep

\* A worker that has not moved keeps what it has written.
LEMMA WrittenStays ==
    ASSUME QueueInvariant, OperationsAtPoints, EvidenceInvariant, [Next]_vars,
           NEW w \in Worker, NEW e \in Event \ (voided' \cup overtaken'),
           UNCHANGED <<pc[w], job[w]>>,
           pc[w] # "idle", job[w].event = e, job[w].op = "bkt"
    PROVE  EvidenceSoFar(w)'
<1>1. TypeOK /\ e \notin voided /\ e \notin overtaken
  BY Lasting DEF QueueInvariant
<1>2. EvidenceSoFar(w)
  BY <1>1 DEF EvidenceInvariant, EvidenceIsWritten
<1>3. CASE Of(e) \cap signals \subseteq signals'
  <2>1. \A k \in 1..Components : <<e, k>> \in signals => <<e, k>> \in signals'
    BY <1>3 DEF Of
  <2>2. Of(e) \subseteq signals => Of(e) \subseteq signals'
    BY <1>3
  <2>3. QED
    BY <1>2, <2>1, <2>2 DEF EvidenceSoFar
<1>4. ASSUME NEW v \in Worker, DeleteReplaces(v), pc[v] = "restoring", Projecting(v, e)
      PROVE  EvidenceSoFar(w)'
  <2>1. v # w
    BY <1>1, <1>4 DEF DeleteReplaces, AfterDeletion, Go, TypeOK
  <2>2. pc[w] \in Unclaimed
    BY <1>1, <1>4, <2>1, OneHolder DEF EvidenceInvariant, Projecting
  <2>3. QED
    BY <1>2, <2>2 DEF EvidenceSoFar, Unclaimed
<1>5. QED
  BY <1>1, <1>3, <1>4, EvidenceStays DEF EvidenceInvariant

\* A projection writes its evidence component by component, and is not completed
\* before all is written.
LEMMA WritingStep ==
    ASSUME QueueInvariant, OperationsAtPoints, EvidenceInvariant,
           NEW w \in Worker, WorkerStep(w), [Next]_vars,
           NEW e \in Event \ (voided' \cup overtaken'),
           Continues(w), pc'[w] # "idle", job[w].event = e, job[w].op = "bkt"
    PROVE  EvidenceSoFar(w)'
<1>1. TypeOK /\ e \notin voided /\ e \notin overtaken
  BY Lasting DEF QueueInvariant
<1>2. EvidenceSoFar(w) /\ job'[w].event = e
  BY <1>1 DEF EvidenceInvariant, EvidenceIsWritten, Continues
<1>3. CASE UNCHANGED <<pc, job>>
  BY <1>3, WrittenStays DEF Continues
<1>4. CASE ClaimProjection(w)
  <2>1. pc'[w] = "preparing" /\ job'[w].next = job[w].next /\ pc[w] = "claiming"
    BY <1>1, <1>4 DEF ClaimProjection, ClaimDerived, Stop, Go, TypeOK, Job, Continues
  <2>2. QED
    BY <1>2, <2>1 DEF EvidenceSoFar
<1>5. CASE Prepare(w)
  <2>1. /\ pc'[w] \in {"projecting", "failing"} /\ job'[w].next = job[w].next
        /\ pc[w] = "preparing"
    BY <1>1, <1>5 DEF Prepare, Go, TypeOK
  <2>2. \A k \in 1..Components : ~(k < 1)
    BY ConstantsAssumption
  <2>3. QED
    BY <1>2, <2>1, <2>2 DEF EvidenceSoFar
<1>6. CASE RecordEvent(w)
  <2> DEFINE n == job[w].next
  <2>1. /\ signals' = signals \cup {<<e, n>>} /\ n \in 1..Components
        /\ \A k \in 1..Components : k < n => <<e, k>> \in signals
    BY <1>1, <1>2, <1>6 DEF RecordEvent, EvidenceSoFar, TypeOK, Job
  <2>2. \A k \in 1..Components : k < n + 1 => <<e, k>> \in signals'
    BY <2>1, ConstantsAssumption
  <2>3. CASE n = Components
    <3>1. Of(e) \subseteq signals'
      BY <2>2, <2>3, ConstantsAssumption DEF Of
    <3>2. pc'[w] = "checking"
      BY <1>1, <1>6, <2>3 DEF RecordEvent, Go, TypeOK
    <3>3. QED
      BY <1>2, <3>1, <3>2 DEF EvidenceSoFar
  <2>4. CASE n # Components
    <3>1. pc'[w] = "projecting" /\ job'[w].next = n + 1
      BY <1>1, <1>6, <2>4 DEF RecordEvent, TypeOK, Job
    <3>2. QED
      BY <1>2, <2>2, <3>1 DEF EvidenceSoFar
  <2>5. QED
    BY <2>3, <2>4
<1>7. CASE CheckEffective(w)
  <2>1. pc'[w] \in {"completing", "retracting"} /\ pc[w] = "checking" /\ signals' = signals
    BY <1>1, <1>7 DEF CheckEffective, Go, TypeOK
  <2>2. QED
    BY <1>2, <2>1 DEF EvidenceSoFar
<1>8. CASE DeleteReads(w) \/ DeleteReplaces(w)
  <2>1. pc[w] \notin {"retracting", "replacing"}
    BY <1>1 DEF EvidenceInvariant, WorkIsJustified
  <2>2. pc'[w] \in {"restoring", "failing"}
    BY <1>1, <1>8, <2>1 DEF DeleteReads, DeleteReplaces, AfterDeletion, Go, TypeOK
  <2>3. QED
    BY <2>2 DEF EvidenceSoFar
<1>9. CASE ProjectionRaises(w) \/ DeleteRaises(w)
  <2>1. pc'[w] \in {"compensating", "failing"}
    BY <1>1, <1>9 DEF ProjectionRaises, DeleteRaises, Go, TypeOK
  <2>2. QED
    BY <2>1 DEF EvidenceSoFar
<1>10. QED
  <2>1. \A f \in Event : ~StartDerived(w, f) /\ ~BeginProjection(w, f) /\ ~AppendAmendment(w, f)
    BY DEF Continues, StartDerived, BeginProjection, AppendAmendment
  <2>2. ~OpenTool(w) /\ ~CloseTool(w)
    BY DEF Continues, OpenTool, CloseTool
  <2>3. ~MarkDerivedApplied(w) /\ ~MarkDerivedFailed(w) /\ ~MarkRaises(w)
    BY <1>1 DEF MarkDerivedApplied, MarkDerivedFailed, MarkRaises, Stop, Go, TypeOK
  <2>4. /\ ~ClaimLearning(w) /\ ~LoadPlan(w) /\ ~Derive(w)
        /\ ~ClaimReconciliation(w) /\ ~LookForProjection(w)
    BY DEF OperationsAtPoints, ClaimLearning, LoadPlan, Derive, ClaimReconciliation,
           LookForProjection
  <2>5. QED
    BY <1>4, <1>5, <1>6, <1>7, <1>8, <1>9, <2>1, <2>2, <2>3, <2>4 DEF WorkerStep

\* Every step keeps what is written of the evidence of answers in effect.
LEMMA EvidenceStep ==
    ASSUME QueueInvariant, OperationsAtPoints, EvidenceInvariant, [Next]_vars
    PROVE  EvidenceIsWritten'
<1>1. TypeOK
  BY DEF QueueInvariant
<1> DEFINE Writes(w, e) == pc'[w] # "idle" /\ job'[w].event = e /\ job'[w].op = "bkt"
<1>2. ASSUME NEW w \in Worker, NEW e \in Event \ (voided' \cup overtaken'), Writes(w, e),
             UNCHANGED <<pc[w], job[w]>>
      PROVE  EvidenceSoFar(w)'
  BY <1>2, WrittenStays
<1>3. ASSUME NEW w \in Worker, WorkerStep(w), NEW e \in Event \ (voided' \cup overtaken'),
             Writes(w, e)
      PROVE  EvidenceSoFar(w)'
  <2>1. CASE UNCHANGED <<pc, job>>
    BY <1>2, <1>3, <2>1
  <2>2. CASE Begins(w)
    BY <1>3, <2>2 DEF Begins, EvidenceSoFar
  <2>3. CASE Continues(w)
    BY <1>3, <2>3, WritingStep DEF Continues
  <2>4. QED
    BY <1>1, <1>3, <2>1, <2>2, <2>3, Moves
<1>4. ASSUME NEW v \in Worker, WorkerStep(v), NEW w \in Worker,
             NEW e \in Event \ (voided' \cup overtaken'), Writes(w, e)
      PROVE  EvidenceSoFar(w)'
  BY <1>1, <1>2, <1>3, <1>4, Moves
<1>5. ASSUME NEW p \in Process, Crash(p), NEW w \in Worker,
             NEW e \in Event \ (voided' \cup overtaken'), Writes(w, e)
      PROVE  EvidenceSoFar(w)'
  <2>1. UNCHANGED <<pc[w], job[w]>>
    BY <1>1, <1>5 DEF Crash, TypeOK
  <2>2. QED
    BY <1>2, <1>5, <2>1
<1>6. CASE \/ \E e \in Event : Append(e)
           \/ \E e \in Event, op \in Operation : LeaseLapses(e, op)
           \/ UNCHANGED vars
  <2>1. UNCHANGED <<pc, job>>
    BY <1>6 DEF Append, LeaseLapses, vars
  <2>2. QED
    BY <1>2, <2>1 DEF EvidenceIsWritten
<1>7. QED
  BY <1>4, <1>5, <1>6 DEF Next, EvidenceIsWritten

\* Completed evidence stays.
LEMMA KeptStep ==
    ASSUME QueueInvariant, OperationsAtPoints, EvidenceInvariant, [Next]_vars
    PROVE  EvidenceIsKept'
<1>1. TypeOK /\ voided \subseteq voided' /\ overtaken \subseteq overtaken'
  BY Lasting DEF QueueInvariant
<1>2. ASSUME NEW e \in Event \ (voided' \cup overtaken'), Applied(e, "bkt")'
      PROVE  Of(e) \subseteq signals'
  <2>1. CASE Applied(e, "bkt")
    <3>1. Of(e) \subseteq signals
      BY <1>1, <2>1 DEF EvidenceInvariant, EvidenceIsKept
    <3>2. \A v \in Worker : ~Projecting(v, e)
      BY <1>1, <2>1 DEF EvidenceInvariant, ProjectionsAreHeld, Projecting, Holds, Applied
    <3>3. QED
      BY <1>1, <3>1, <3>2, EvidenceStays DEF EvidenceInvariant
  <2>2. CASE ~Applied(e, "bkt")
    <3>1. "bkt" \in Operation
      BY DEF Operation
    <3>2. PICK w \in Worker : /\ MarkDerivedApplied(w) /\ Holds(w)
                              /\ job[w].event = e /\ job[w].op = "bkt"
      BY <1>1, <1>2, <2>2, <3>1, AppliedByMark
    <3>3. pc[w] = "completing" /\ signals' = signals
      BY <3>2 DEF MarkDerivedApplied
    <3>4. QED
      BY <1>1, <3>2, <3>3 DEF EvidenceInvariant, EvidenceIsWritten, EvidenceSoFar
  <2>3. QED
    BY <2>1, <2>2
<1>3. QED
  BY <1>2 DEF EvidenceIsKept

LEMMA EvidenceInvariance ==
    ASSUME OneHome
    PROVE  Spec => [](OperationsAtPoints /\ EvidenceInvariant)
<1>1. Init => OperationsAtPoints /\ EvidenceInvariant
  BY DEF Init, OperationsAtPoints, EvidenceInvariant, LockHolds, Deleting, WorkIsJustified,
         ProjectionsAreHeld, Projecting, Unclaimed, EvidenceIsWritten, EvidenceIsKept,
         Applied, Operation
<1>2. /\ QueueInvariant /\ OperationsAtPoints /\ EvidenceInvariant /\ [Next]_vars
      => (OperationsAtPoints /\ EvidenceInvariant)'
  BY OperationsStep, LockStep, WorkStep, ProjectionsStep, EvidenceStep, KeptStep
     DEF EvidenceInvariant, QueueInvariant
<1>3. QED
  BY <1>1, <1>2, QueueInvariance, PTL DEF Spec

\* Completed evidence is whole, for any answers, components and workers of one
\* process, whatever fails and dies, unless its answer was voided or its projection
\* claimed away from a living worker.
THEOREM EvidenceKept ==
    ASSUME OneHome
    PROVE  Spec => []EvidenceIsKept
<1>1. EvidenceInvariant => EvidenceIsKept
  BY DEF EvidenceInvariant
<1>2. QED
  BY <1>1, EvidenceInvariance, PTL

\* Evidence of a voided answer that is gone, with nobody projecting it, never comes
\* back, for any workers of one process.
THEOREM VoidedIsGone ==
    ASSUME OneHome
    PROVE  Spec => VoidedStaysOut
<1>1. ASSUME QueueInvariant, OperationsAtPoints, EvidenceInvariant, [Next]_vars,
             NEW e \in Event, GoneForGood(e)
      PROVE  GoneForGood(e)'
  <2>1. TypeOK /\ e \in voided'
    BY <1>1, Lasting DEF QueueInvariant, GoneForGood
  <2>2. Of(e) \cap signals' = {}
    <3>1. ASSUME NEW w \in Worker, RecordEvent(w)
          PROVE  Of(e) \cap signals' = {}
      <4>1. job[w].event # e
        BY <1>1, <3>1 DEF RecordEvent, OperationsAtPoints, GoneForGood, Works
      <4>2. QED
        BY <1>1, <3>1, <4>1 DEF RecordEvent, GoneForGood, Of
    <3>2. ASSUME NEW w \in Worker, DeleteReplaces(w)
          PROVE  signals' \subseteq signals
      BY <1>1, <3>2 DEF DeleteReplaces, EvidenceInvariant, LockHolds, Deleting
    <3>3. QED
      BY <1>1, <3>1, <3>2, SignalsStep DEF GoneForGood
  <2>3. ASSUME NEW w \in Worker
        PROVE  ~Works(w, e, "bkt")'
    <3>1. CASE UNCHANGED <<pc[w], job[w]>>
      BY <1>1, <3>1 DEF GoneForGood, Works
    <3>2. CASE WorkerStep(w)
      BY <1>1, <2>1, <3>2, Moves DEF GoneForGood, Works, Begins, Continues
    <3>3. ASSUME NEW v \in Worker, v # w, WorkerStep(v)
          PROVE  UNCHANGED <<pc[w], job[w]>>
      BY <2>1, <3>3, Moves
    <3>4. ASSUME NEW p \in Process, Crash(p)
          PROVE  pc'[w] = "idle" \/ UNCHANGED <<pc[w], job[w]>>
      BY <2>1, <3>4 DEF Crash, TypeOK
    <3>5. CASE \/ \E f \in Event : Append(f)
               \/ \E f \in Event, op \in Operation : LeaseLapses(f, op)
               \/ UNCHANGED vars
      BY <3>1, <3>5 DEF Append, LeaseLapses, vars
    <3>6. QED
      BY <1>1, <3>1, <3>2, <3>3, <3>4, <3>5 DEF Next, Works
  <2>4. QED
    BY <2>1, <2>2, <2>3 DEF GoneForGood
<1>2. /\ QueueInvariant /\ OperationsAtPoints /\ EvidenceInvariant /\ [Next]_vars
      => [\A e \in Event : GoneForGood(e) => GoneForGood(e)']_vars
  BY <1>1
<1>3. QED
  BY <1>2, QueueInvariance, EvidenceInvariance, PTL DEF Spec, VoidedStaysOut
==============================================================================
