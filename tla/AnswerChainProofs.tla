-------------------------- MODULE AnswerChainProofs --------------------------
(***************************************************************************)
(* Type correctness of AnswerChain, and the proof that the queue of        *)
(* derived operations implements FencedTask for every operation.           *)
(***************************************************************************)
EXTENDS AnswerChainRefinement, TLAPS

USE DEF planning

\* Points at which a worker has no claim yet, or none any more.
Unclaimed == {"idle", "resuming", "claiming", "correcting"}

ClaimsHaveTokens == \A w \in Worker : pc[w] \notin Unclaimed => job[w].token.by \in Worker

AbsentRowsAreFresh ==
    \A e \in Event, op \in Operation : row[e][op].state = "absent" => row[e][op].drawn = 0

DerivedTogether ==
    \A e \in Event : row[e]["bkt"].state = "absent" => row[e]["learning"].state = "absent"

ReconciledWhenVoided ==
    \A e \in Event : e \notin voided => row[e]["reconcile"].state = "absent"

QueueInvariant ==
    /\ TypeOK
    /\ ClaimsHaveTokens
    /\ AbsentRowsAreFresh
    /\ DerivedTogether
    /\ ReconciledWhenVoided

-----------------------------------------------------------------------------
(* Type correctness. *)

\* A row whose lease and claim agree with its state.
SoundRow == {r \in Row : /\ r.live => r.token # NoToken
                         /\ r.token # NoToken => r.state = "queued"}

\* TypeOK keeps the rows sound.
LEMMA SoundRows == TypeOK <=>
    /\ row \in [Event -> [Operation -> SoundRow]]
    /\ voided \subseteq Event
    /\ signals \subseteq Signal
    /\ progress \subseteq Event
    /\ held \in [Worker -> (SUBSET Event) \cup {None}]
    /\ planned \subseteq Event
    /\ pc \in [Worker -> Points]
    /\ job \in [Worker -> Job]
    /\ overtaken \subseteq Event
    /\ \A w \in Worker : pc[w] # "idle" => job[w].event \in Event
BY DEF TypeOK, SoundRow

\* No token and no job are of the right shape, and NoToken is nobody's.
LEMMA Shapes ==
    /\ NoToken \in Token
    /\ NoJob \in Job
    /\ \A w \in Worker, n \in Nat : [by |-> w, n |-> n] \in Token
    /\ \A w \in Worker, n \in Nat : [by |-> w, n |-> n] # NoToken
<1>1. NoToken \in Token
  BY DEF NoToken, Token
<1>2. NoJob \in Job
  BY <1>1, ConstantsAssumption DEF NoJob, Job, Operation
<1>3. \A w \in Worker, n \in Nat : [by |-> w, n |-> n] \in Token
  BY DEF Token
<1>4. \A w \in Worker, n \in Nat : [by |-> w, n |-> n] # NoToken
  BY ConstantsAssumption DEF NoToken
<1>5. QED
  BY <1>1, <1>2, <1>3, <1>4

\* Nothing is recorded at first.
LEMMA TypeInit == Init => TypeOK
BY Shapes DEF Init, TypeOK, Row, Points, Operation

\* A sound row written for one operation of one event keeps all rows sound.
LEMMA RowWritten ==
    ASSUME TypeOK, NEW e \in Event, NEW op \in Operation, NEW r \in SoundRow,
           row' = [row EXCEPT ![e][op] = r]
    PROVE  row' \in [Event -> [Operation -> SoundRow]]
BY SoundRows

\* claim_derived keeps the shape of the ledger and of the job.
LEMMA TypeClaim ==
    ASSUME TypeOK, NEW w \in Worker, NEW e \in Event, NEW op \in Operation,
           ClaimDerived(w, e, op), pc[w] # "idle", pc' \in [Worker -> Points],
           \A v \in Worker \ {w} : pc'[v] = pc[v],
           UNCHANGED <<voided, signals, planning>>
    PROVE  TypeOK'
<1> DEFINE n == row[e][op].drawn + 1
           t == [by |-> w, n |-> n]
           r == [row[e][op] EXCEPT !.token = t, !.live = TRUE, !.drawn = n]
<1>1. row[e][op] \in Row /\ row[e][op].state = "queued" /\ n \in Nat
  BY DEF TypeOK, ClaimDerived, Claimable, Row
<1>2. t \in Token /\ t # NoToken
  BY <1>1, Shapes
<1>3. r \in SoundRow
  BY <1>1, <1>2 DEF SoundRow, Row
<1>4. row' = [row EXCEPT ![e][op] = r]
  BY DEF ClaimDerived, TypeOK
<1>5. job' = [job EXCEPT ![w] = [job[w] EXCEPT !.token = t]]
  BY DEF ClaimDerived, TypeOK
<1>6. overtaken' \subseteq Event
  BY DEF ClaimDerived, TypeOK
<1> HIDE DEF n, t, r
<1>7. row' \in [Event -> [Operation -> SoundRow]]
  BY <1>3, <1>4, RowWritten
<1>8. /\ job[w] \in Job /\ [job[w] EXCEPT !.token = t] \in Job
      /\ [job[w] EXCEPT !.token = t].event = job[w].event
  BY <1>2 DEF TypeOK, Job
<1>9. /\ job' \in [Worker -> Job]
      /\ \A v \in Worker : pc'[v] # "idle" => job'[v].event \in Event
  BY <1>5, <1>8 DEF TypeOK
<1>10. QED
  BY <1>6, <1>7, <1>9, SoundRows DEF TypeOK, SoundRow

\* The marks keep the shape of the state.
LEMMA TypeMarks ==
    ASSUME TypeOK, NEW w \in Worker,
           MarkDerivedApplied(w) \/ MarkDerivedFailed(w) \/ MarkRaises(w)
    PROVE  TypeOK'
<1> DEFINE e == job[w].event
           op == job[w].op
           a == [row[e][op] EXCEPT !.state = "applied", !.token = NoToken, !.live = FALSE]
           f == [row[e][op] EXCEPT !.token = NoToken, !.live = FALSE]
<1>1. pc[w] # "idle" /\ e \in Event /\ op \in Operation
  BY DEF MarkDerivedApplied, MarkDerivedFailed, MarkRaises, TypeOK, Job
<1>2. row[e][op] \in Row
  BY <1>1 DEF TypeOK
<1>3. a \in SoundRow /\ f \in SoundRow
  BY <1>2, Shapes DEF SoundRow, Row
<1>4. \/ row' = [row EXCEPT ![e][op] = a]
      \/ row' = [row EXCEPT ![e][op] = f]
      \/ row' = row
  BY <1>1 DEF MarkDerivedApplied, MarkDerivedFailed, MarkRaises, TypeOK
<1>5. /\ Stop(w)
      /\ UNCHANGED <<voided, signals, planning, overtaken>>
  BY DEF MarkDerivedApplied, MarkDerivedFailed, MarkRaises
<1> HIDE DEF e, op, a, f
<1>6. row' \in [Event -> [Operation -> SoundRow]]
  BY <1>1, <1>3, <1>4, RowWritten, SoundRows
<1>7. /\ pc' \in [Worker -> Points] /\ job' \in [Worker -> Job]
      /\ \A v \in Worker : pc'[v] # "idle" => job'[v].event \in Event
  BY <1>5, Shapes DEF TypeOK, Stop, Go, Points
<1>8. QED
  BY <1>5, <1>6, <1>7, SoundRows DEF TypeOK, SoundRow

\* So do the steps of a worker that begin or go on with a job of its own and
\* leave the ledger alone.
LEMMA TypeWork ==
    ASSUME TypeOK, NEW w \in Worker,
           \/ Prepare(w) \/ RecordEvent(w) \/ CheckEffective(w)
           \/ ProjectionRaises(w) \/ DeleteReads(w) \/ DeleteReplaces(w)
           \/ DeleteRaises(w) \/ LookForProjection(w)
           \/ \E e \in Event : BeginProjection(w, e)
    PROVE  TypeOK'
<1> USE DEF Points
<1> USE Shapes
<1>1. CASE Prepare(w)
  BY <1>1 DEF TypeOK, Prepare, Go
<1>2. CASE RecordEvent(w)
  <2>1. job[w].event \in Event /\ job[w] \in Job /\ job[w].next \in 1..Components
    BY <1>2 DEF TypeOK, RecordEvent, Job
  <2>2. signals' \subseteq Signal
    BY <1>2, <2>1 DEF RecordEvent, Signal, TypeOK
  <2>3. job[w].next # Components => job[w].next + 1 \in 1..Components
    BY <2>1, ConstantsAssumption
  <2> DEFINE j == [job[w] EXCEPT !.next = job[w].next + 1]
  <2>4. j.event = job[w].event /\ (j \in Job \/ job[w].next = Components)
    BY <2>1, <2>3 DEF Job
  <2>5. \/ job' = job
        \/ job[w].next # Components /\ job' = [job EXCEPT ![w] = j]
    BY <1>2 DEF RecordEvent, TypeOK
  <2> HIDE DEF j
  <2>6. job' \in [Worker -> Job] /\ \A v \in Worker : job'[v].event = job[v].event
    BY <2>1, <2>4, <2>5 DEF TypeOK
  <2>7. QED
    BY <1>2, <2>2, <2>6 DEF RecordEvent, TypeOK, Go
<1>3. CASE CheckEffective(w)
  BY <1>3 DEF TypeOK, CheckEffective, Go
<1>4. CASE ProjectionRaises(w)
  BY <1>4 DEF TypeOK, ProjectionRaises, Go, Job
<1>5. CASE DeleteReads(w)
  <2> DEFINE kept == signals \ Of(job[w].event)
             j == [job[w] EXCEPT !.kept = kept]
  <2>1. pc[w] \in {"retracting", "compensating"} /\ job[w] \in Job /\ kept \subseteq Signal
    BY <1>5 DEF TypeOK, DeleteReads
  <2>2. j \in Job /\ j.event = job[w].event
    BY <2>1 DEF Job
  <2>3. \/ job' = job
        \/ job' = [job EXCEPT ![w] = j]
    BY <1>5 DEF TypeOK, DeleteReads
  <2>4. \E p \in Points : Go(w, p)
    BY <1>5 DEF DeleteReads, AfterDeletion
  <2>5. UNCHANGED <<row, voided, signals, planning, overtaken>>
    BY <1>5 DEF DeleteReads
  <2> HIDE DEF kept, j
  <2>6. /\ job' \in [Worker -> Job]
        /\ \A v \in Worker : job'[v].event = job[v].event
    BY <2>1, <2>2, <2>3 DEF TypeOK
  <2>7. QED
    <3>1. PICK p \in Points : Go(w, p)
      BY <2>4
    <3>2. pc' \in [Worker -> Points]
      BY <3>1 DEF TypeOK, Go
    <3>3. \A v \in Worker : pc'[v] # "idle" => job'[v].event \in Event
      BY <2>1, <2>6, <3>1 DEF TypeOK, Go
    <3>4. QED
      BY <2>5, <2>6, <3>2, <3>3 DEF TypeOK
<1>6. CASE DeleteReplaces(w)
  <2>1. job[w].kept \subseteq Signal
    BY <1>6 DEF TypeOK, DeleteReplaces, Job
  <2>2. [job[w] EXCEPT !.kept = {}] \in Job
    BY <1>6 DEF TypeOK, Job
  <2>3. /\ job' \in [Worker -> Job]
        /\ \A v \in Worker : job'[v].event = job[v].event
    BY <1>6, <2>2 DEF TypeOK, DeleteReplaces
  <2>4. QED
    BY <1>6, <2>1, <2>3 DEF TypeOK, DeleteReplaces, AfterDeletion, Go
<1>7. CASE DeleteRaises(w)
  BY <1>7 DEF TypeOK, DeleteRaises, Go, Job
<1>8. CASE LookForProjection(w)
  BY <1>8 DEF TypeOK, LookForProjection, Go
<1>9. ASSUME NEW e \in Event, BeginProjection(w, e)
      PROVE  TypeOK'
  <2> DEFINE j == [NoJob EXCEPT !.event = e]
  <2>1. j \in Job /\ j.event = e
    BY DEF NoJob, Job
  <2>2. job' = [job EXCEPT ![w] = j] /\ pc' = [pc EXCEPT ![w] = "claiming"]
    BY <1>9 DEF BeginProjection, Go
  <2> HIDE DEF j
  <2>3. /\ job' \in [Worker -> Job] /\ pc' \in [Worker -> Points]
        /\ \A v \in Worker : pc'[v] # "idle" => job'[v].event \in Event
    BY <2>1, <2>2 DEF TypeOK
  <2>4. UNCHANGED <<row, voided, signals, planning, overtaken>>
    BY <1>9 DEF BeginProjection
  <2>5. QED
    BY <2>3, <2>4 DEF TypeOK
<1>10. QED
  BY <1>1, <1>2, <1>3, <1>4, <1>5, <1>6, <1>7, <1>8, <1>9

\* So do the steps that open, close, load and save the plan.
LEMMA TypePlanning ==
    ASSUME TypeOK, NEW w \in Worker,
           \/ OpenTool(w) \/ CloseTool(w) \/ LoadPlan(w) \/ Derive(w)
           \/ \E e \in Event : StartDerived(w, e)
    PROVE  TypeOK'
<1> USE DEF Points
<1> USE Shapes
<1>1. CASE OpenTool(w)
  BY <1>1 DEF TypeOK, OpenTool
<1>2. CASE CloseTool(w)
  <2>1. held[w] \subseteq Event
    BY <1>2 DEF TypeOK, CloseTool
  <2>2. progress' \subseteq Event /\ planned' \subseteq Event
    BY <1>2, <2>1 DEF TypeOK, CloseTool, Saves
  <2>3. QED
    BY <1>2, <2>2 DEF TypeOK, CloseTool
<1>3. CASE LoadPlan(w)
  <2> DEFINE j == [job[w] EXCEPT !.plan = progress]
  <2>1. job' = [job EXCEPT ![w] = j] /\ j \in Job /\ j.event = job[w].event
    BY <1>3 DEF LoadPlan, TypeOK, Job
  <2> HIDE DEF j
  <2>2. QED
    BY <1>3, <2>1 DEF TypeOK, LoadPlan
<1>4. CASE Derive(w)
  <2> DEFINE j == [job[w] EXCEPT !.plan = {}, !.graded = FALSE]
             plan == job[w].plan \cup {job[w].event}
  <2>1. job' = [job EXCEPT ![w] = j] /\ j \in Job /\ j.event = job[w].event
    BY <1>4 DEF Derive, TypeOK, Job
  <2>2. plan \subseteq Event /\ job[w].event \in Event
    BY <1>4 DEF Derive, TypeOK, Job
  <2>3. /\ UNCHANGED <<row, voided, signals, overtaken>>
        /\ \E p \in Points : Go(w, p)
        /\ \/ UNCHANGED planning
           \/ /\ progress' = plan /\ planned' = planned \cup plan
              /\ held' = held \/ held' = [held EXCEPT ![w] = plan]
    BY <1>4 DEF Derive, Saves
  <2> HIDE DEF j, plan
  <2>4. job' \in [Worker -> Job] /\ pc' \in [Worker -> Points]
    BY <2>1, <2>3 DEF TypeOK, Go
  <2>5. \A v \in Worker : pc'[v] # "idle" => job'[v].event \in Event
    BY <2>1, <2>2, <2>3 DEF TypeOK, Go
  <2>6. /\ progress' \subseteq Event /\ planned' \subseteq Event
        /\ held' \in [Worker -> (SUBSET Event) \cup {None}]
    BY <2>2, <2>3 DEF TypeOK
  <2>7. QED
    BY <2>3, <2>4, <2>5, <2>6 DEF TypeOK
<1>5. ASSUME NEW e \in Event, StartDerived(w, e)
      PROVE  TypeOK'
  <2>1. ASSUME NEW plan \in SUBSET Event, NEW g \in BOOLEAN
        PROVE  /\ [NoJob EXCEPT !.event = e, !.op = "learning", !.plan = plan] \in Job
               /\ [NoJob EXCEPT !.event = e, !.op = "learning", !.plan = plan,
                                !.graded = g] \in Job
               /\ [NoJob EXCEPT !.event = e, !.op = "learning", !.plan = plan].event = e
               /\ [NoJob EXCEPT !.event = e, !.op = "learning", !.plan = plan,
                                !.graded = g].event = e
    BY DEF NoJob, Job, Operation
  <2>2. progress \in SUBSET Event /\ (held[w] # None => held[w] \in SUBSET Event)
    BY DEF TypeOK
  <2>3. PICK j \in Job : j.event = e /\ job' = [job EXCEPT ![w] = j]
    BY <1>5, <2>1, <2>2 DEF StartDerived
  <2>4. /\ job' \in [Worker -> Job] /\ pc' \in [Worker -> Points]
        /\ \A v \in Worker : pc'[v] # "idle" => job'[v].event \in Event
    BY <1>5, <2>3 DEF TypeOK, StartDerived, Go
  <2>5. QED
    BY <1>5, <2>4 DEF TypeOK, StartDerived
<1>6. QED
  BY <1>1, <1>2, <1>3, <1>4, <1>5

\* And the steps in which a worker turns to the ledger.
LEMMA TypeTurns ==
    ASSUME TypeOK, NEW w \in Worker,
           \/ ClaimLearning(w) \/ ClaimProjection(w) \/ ClaimReconciliation(w)
           \/ \E e \in Event : AppendAmendment(w, e)
    PROVE  TypeOK'
<1> USE DEF Points
<1>1. ASSUME NEW op \in Operation,
             \/ op = "learning" /\ ClaimLearning(w)
             \/ op = "bkt" /\ ClaimProjection(w)
             \/ op = "reconcile" /\ ClaimReconciliation(w)
      PROVE  TypeOK'
  <2>1. job[w].event \in Event /\ pc[w] # "idle"
    BY <1>1 DEF TypeOK, ClaimLearning, ClaimProjection, ClaimReconciliation
  <2>2. CASE Claimable(job[w].event, op)
    <3>1. ClaimDerived(w, job[w].event, op)
      BY <1>1, <2>2 DEF ClaimLearning, ClaimProjection, ClaimReconciliation
    <3>2. pc' \in [Worker -> Points] /\ \A v \in Worker \ {w} : pc'[v] = pc[v]
      BY <1>1, <2>2 DEF TypeOK, ClaimLearning, ClaimProjection, ClaimReconciliation, Go
    <3>3. UNCHANGED <<voided, signals, planning>>
      BY <1>1 DEF ClaimLearning, ClaimProjection, ClaimReconciliation
    <3>4. QED
      BY <2>1, <3>1, <3>2, <3>3, TypeClaim
  <2>3. CASE ~Claimable(job[w].event, op)
    <3>1. Stop(w) /\ UNCHANGED <<row, voided, signals, planning, overtaken>>
      BY <1>1, <2>3 DEF ClaimLearning, ClaimProjection, ClaimReconciliation
    <3>2. QED
      BY <3>1, Shapes DEF TypeOK, Stop, Go
  <2>4. QED
    BY <2>2, <2>3
<1>2. ASSUME NEW e \in Event, AppendAmendment(w, e)
      PROVE  TypeOK'
  <2> DEFINE r == [row[e]["reconcile"] EXCEPT !.state = "queued"]
             j == [NoJob EXCEPT !.event = e, !.op = "reconcile"]
  <2>1. row[e]["reconcile"] \in SoundRow
    BY SoundRows DEF Operation
  <2>2. r \in SoundRow
    BY <2>1 DEF SoundRow, Row
  <2>3. row' = row \/ row' = [row EXCEPT ![e]["reconcile"] = r]
    BY <1>2 DEF AppendAmendment, TypeOK, Operation
  <2>4. j \in Job /\ j.event = e
    BY Shapes DEF NoJob, Job, Operation
  <2>5. job' = [job EXCEPT ![w] = j] /\ pc' = [pc EXCEPT ![w] = "correcting"]
    BY <1>2 DEF AppendAmendment, Go
  <2> HIDE DEF r, j
  <2>6. row' \in [Event -> [Operation -> SoundRow]]
    BY <2>2, <2>3, RowWritten, SoundRows DEF Operation
  <2>7. /\ job' \in [Worker -> Job] /\ pc' \in [Worker -> Points]
        /\ \A v \in Worker : pc'[v] # "idle" => job'[v].event \in Event
    BY <2>4, <2>5 DEF TypeOK
  <2>8. voided' \subseteq Event /\ UNCHANGED <<signals, planning, overtaken>>
    BY <1>2 DEF AppendAmendment, TypeOK
  <2>9. QED
    BY <2>6, <2>7, <2>8 DEF TypeOK, SoundRow
<1>3. QED
  BY <1>1, <1>2 DEF Operation

\* Everything that is not a worker's step keeps the shape of the state.
LEMMA TypeAround ==
    ASSUME TypeOK,
           \/ \E e \in Event : Append(e)
           \/ \E e \in Event, op \in Operation : LeaseLapses(e, op)
           \/ \E p \in Process : Crash(p)
    PROVE  TypeOK'
<1>1. ASSUME NEW e \in Event, Append(e)
      PROVE  TypeOK'
  <2> DEFINE l == [row[e]["learning"] EXCEPT !.state = "queued"]
             b == [row[e]["bkt"] EXCEPT !.state = "queued"]
  <2>1. row[e]["learning"] \in SoundRow /\ row[e]["bkt"] \in SoundRow
    BY SoundRows DEF Operation
  <2>2. l \in SoundRow /\ b \in SoundRow
    BY <2>1 DEF SoundRow, Row
  <2>3. row' = [row EXCEPT ![e]["learning"] = l, ![e]["bkt"] = b]
    BY <1>1 DEF Append, TypeOK, Operation
  <2> HIDE DEF l, b
  <2>4. row' \in [Event -> [Operation -> SoundRow]]
    <3>1. row \in [Event -> [Operation -> SoundRow]]
      BY SoundRows
    <3>2. [[row[e] EXCEPT !["learning"] = l] EXCEPT !["bkt"] = b] \in [Operation -> SoundRow]
      BY <2>2, <3>1 DEF Operation
    <3>3. row' = [row EXCEPT ![e] = [[row[e] EXCEPT !["learning"] = l] EXCEPT !["bkt"] = b]]
      BY <2>3, <3>1
    <3>4. QED
      BY <3>1, <3>2, <3>3
  <2>5. QED
    <3>1. UNCHANGED <<voided, signals, planning, pc, job, overtaken>>
      BY <1>1 DEF Append
    <3>2. QED
      BY <2>4, <3>1 DEF TypeOK, SoundRow
<1>2. ASSUME NEW e \in Event, NEW op \in Operation, LeaseLapses(e, op)
      PROVE  TypeOK'
  <2> DEFINE r == [row[e][op] EXCEPT !.live = FALSE]
  <2>1. row[e][op] \in SoundRow
    BY SoundRows
  <2>2. r \in SoundRow
    BY <2>1 DEF SoundRow, Row
  <2>3. row' = [row EXCEPT ![e][op] = r]
    BY <1>2 DEF LeaseLapses, TypeOK
  <2> HIDE DEF r
  <2>4. row' \in [Event -> [Operation -> SoundRow]]
    BY <2>2, <2>3, RowWritten
  <2>5. QED
    BY <1>2, <2>4, SoundRows DEF LeaseLapses, TypeOK, SoundRow
<1>3. ASSUME NEW p \in Process, Crash(p)
      PROVE  TypeOK'
  BY <1>3, Shapes DEF Crash, TypeOK, Points
<1>4. QED
  BY <1>1, <1>2, <1>3

\* Every step keeps the shape of the state.
LEMMA TypeStep == TypeOK /\ [Next]_vars => TypeOK'
<1> SUFFICES ASSUME TypeOK, [Next]_vars PROVE TypeOK'
  OBVIOUS
<1>1. ASSUME NEW w \in Worker, WorkerStep(w)
      PROVE  TypeOK'
  BY <1>1, TypeMarks, TypeWork, TypePlanning, TypeTurns DEF WorkerStep
<1>2. CASE UNCHANGED vars
  BY <1>2 DEF vars, TypeOK
<1>3. QED
  BY <1>1, <1>2, TypeAround DEF Next

\* For any events, components, workers and processes the state keeps its shape,
\* and a live lease is always somebody's.
THEOREM TypeCorrect == Spec => []TypeOK
BY TypeInit, TypeStep, PTL DEF Spec

-----------------------------------------------------------------------------
(* What a step may do to the queue. *)

Claimed(r, s, w) == /\ r.state = "queued" /\ s.state = "queued"
                    /\ s.drawn = r.drawn + 1 /\ s.token.by = w

Settled(r, s) == /\ r.state = "queued" /\ r.token.by \in Worker
                 /\ s.state \in {"queued", "applied"}
                 /\ s.token = NoToken /\ s.drawn = r.drawn

\* As far as FencedTask can see.
SameRow(r, s) == s.state = r.state /\ s.token = r.token /\ s.drawn = r.drawn

Worked(r, s) == (\E w \in Worker : Claimed(r, s, w)) \/ Settled(r, s)

SameElsewhere(e, op) ==
    \A f \in Event, o \in Operation : f # e \/ o # op => SameRow(row[f][o], row'[f][o])

NothingQueued ==
    /\ voided' = voided
    /\ \/ \A f \in Event, o \in Operation : SameRow(row[f][o], row'[f][o])
       \/ \E e \in Event, op \in Operation :
             Worked(row[e][op], row'[e][op]) /\ SameElsewhere(e, op)

\* claim_derived changes one row, and hands it to the claimer.
LEMMA ClaimWorks ==
    ASSUME TypeOK, NEW w \in Worker, NEW e \in Event, NEW op \in Operation,
           ClaimDerived(w, e, op)
    PROVE  /\ Worked(row[e][op], row'[e][op])
           /\ SameElsewhere(e, op)
<1> DEFINE n == row[e][op].drawn + 1
           t == [by |-> w, n |-> n]
           r == [row[e][op] EXCEPT !.token = t, !.live = TRUE, !.drawn = n]
<1>1. row[e][op] \in Row /\ row[e][op].state = "queued"
  BY DEF TypeOK, ClaimDerived, Claimable
<1>2. r.state = "queued" /\ r.token.by = w /\ r.drawn = row[e][op].drawn + 1
  BY <1>1 DEF Row
<1>3. row' = [row EXCEPT ![e][op] = r]
  BY DEF ClaimDerived, TypeOK
<1> HIDE DEF n, t, r
<1>4. row'[e][op] = r
  BY <1>3 DEF TypeOK
<1>5. SameElsewhere(e, op)
  BY <1>3 DEF SameElsewhere, SameRow, TypeOK
<1>6. Claimed(row[e][op], row'[e][op], w)
  BY <1>1, <1>2, <1>4 DEF Claimed
<1>7. QED
  BY <1>5, <1>6 DEF Worked

\* A mark changes at most the row whose token its worker holds.
LEMMA MarkWorks ==
    ASSUME TypeOK, ClaimsHaveTokens, NEW w \in Worker,
           MarkDerivedApplied(w) \/ MarkDerivedFailed(w)
    PROVE  NothingQueued
<1> DEFINE e == job[w].event
           op == job[w].op
           a == [row[e][op] EXCEPT !.state = "applied", !.token = NoToken, !.live = FALSE]
           f == [row[e][op] EXCEPT !.token = NoToken, !.live = FALSE]
<1>1. e \in Event /\ op \in Operation /\ job[w].token.by \in Worker
  BY DEF MarkDerivedApplied, MarkDerivedFailed, TypeOK, Job, ClaimsHaveTokens, Unclaimed
<1>2. row[e][op] \in Row
  BY <1>1 DEF TypeOK
<1>3. /\ a.state = "applied" /\ a.token = NoToken /\ a.drawn = row[e][op].drawn
      /\ f.state = row[e][op].state /\ f.token = NoToken /\ f.drawn = row[e][op].drawn
  BY <1>2 DEF Row
<1>4. \/ row' = row
      \/ /\ row[e][op].state = "queued" /\ row[e][op].token = job[w].token
         /\ \/ row' = [row EXCEPT ![e][op] = a]
            \/ row' = [row EXCEPT ![e][op] = f]
  BY <1>1 DEF MarkDerivedApplied, MarkDerivedFailed, Holds, TypeOK
<1>5. voided' = voided
  BY DEF MarkDerivedApplied, MarkDerivedFailed
<1> HIDE DEF e, op, a, f
<1>6. CASE row' = row
  BY <1>5, <1>6 DEF NothingQueued, SameRow
<1>7. CASE row' # row
  <2>1. /\ row'[e][op] \in {a, f}
        /\ SameElsewhere(e, op)
    BY <1>1, <1>4, <1>7 DEF TypeOK, SameElsewhere, SameRow
  <2>2. Settled(row[e][op], row'[e][op])
    BY <1>1, <1>3, <1>4, <1>7, <2>1 DEF Settled
  <2>3. QED
    BY <1>1, <1>5, <2>1, <2>2 DEF NothingQueued, Worked
<1>8. QED
  BY <1>6, <1>7

\* A step queues the operations of an answer or of its amendment, or has one
\* operation claimed or settled, or leaves the queue as it is.
LEMMA QueueSteps ==
    ASSUME TypeOK, ClaimsHaveTokens, [Next]_vars
    PROVE  \/ \E e \in Event : Append(e)
           \/ \E w \in Worker, e \in Event : AppendAmendment(w, e)
           \/ NothingQueued
<1>1. CASE UNCHANGED <<row, voided>>
  BY <1>1 DEF NothingQueued, SameRow
<1>2. ASSUME NEW e \in Event, NEW op \in Operation, LeaseLapses(e, op)
      PROVE  NothingQueued
  <2>1. row[e][op] \in Row
    BY DEF TypeOK
  <2>2. SameRow(row[e][op], row'[e][op])
    BY <1>2, <2>1 DEF LeaseLapses, SameRow, TypeOK, Row
  <2>3. SameElsewhere(e, op)
    BY <1>2 DEF LeaseLapses, SameElsewhere, SameRow, TypeOK
  <2>4. voided' = voided
    BY <1>2 DEF LeaseLapses
  <2>5. QED
    BY <2>2, <2>3, <2>4 DEF NothingQueued, SameElsewhere
<1>3. ASSUME NEW w \in Worker, NEW e \in Event, NEW op \in Operation,
             ClaimDerived(w, e, op), voided' = voided
      PROVE  NothingQueued
  BY <1>3, ClaimWorks DEF NothingQueued
<1>4. ASSUME NEW w \in Worker, WorkerStep(w), row' # row \/ voided' # voided
      PROVE  \/ \E e \in Event : AppendAmendment(w, e)
             \/ NothingQueued
  <2>1. CASE MarkDerivedApplied(w) \/ MarkDerivedFailed(w)
    BY <2>1, MarkWorks
  <2>2. CASE ClaimLearning(w) \/ ClaimProjection(w) \/ ClaimReconciliation(w)
    <3>1. voided' = voided
      BY <2>2 DEF ClaimLearning, ClaimProjection, ClaimReconciliation
    <3>2. job[w].event \in Event
      BY <2>2 DEF ClaimLearning, ClaimProjection, ClaimReconciliation, TypeOK
    <3>3. \E op \in Operation : ClaimDerived(w, job[w].event, op)
      BY <1>4, <2>2, <3>1 DEF ClaimLearning, ClaimProjection, ClaimReconciliation, Operation
    <3>4. QED
      BY <1>3, <3>1, <3>2, <3>3
  <2>3. CASE \E e \in Event : AppendAmendment(w, e)
    BY <2>3
  <2>4. CASE \/ OpenTool(w) \/ CloseTool(w) \/ LoadPlan(w) \/ Derive(w)
             \/ Prepare(w) \/ RecordEvent(w) \/ CheckEffective(w)
             \/ ProjectionRaises(w) \/ DeleteReads(w) \/ DeleteReplaces(w)
             \/ DeleteRaises(w) \/ LookForProjection(w) \/ MarkRaises(w)
             \/ \E e \in Event : StartDerived(w, e) \/ BeginProjection(w, e)
    <3>1. UNCHANGED <<row, voided>>
      BY <2>4 DEF OpenTool, CloseTool, LoadPlan, StartDerived, Derive, Prepare, RecordEvent, CheckEffective, ProjectionRaises,
                  DeleteReads, DeleteReplaces, DeleteRaises, LookForProjection,
                  MarkRaises, BeginProjection
    <3>2. QED
      BY <1>4, <3>1
  <2>5. QED
    BY <1>4, <2>1, <2>2, <2>3, <2>4 DEF WorkerStep
<1>5. ASSUME NEW p \in Process, Crash(p)
      PROVE  UNCHANGED <<row, voided>>
  BY <1>5 DEF Crash
<1>6. QED
  BY <1>1, <1>2, <1>4, <1>5 DEF Next, vars

-----------------------------------------------------------------------------
(* The invariant behind the refinement. *)

\* append touches two rows of one event, and nobody holds those.
LEMMA AppendRows ==
    ASSUME QueueInvariant, NEW e \in Event, Append(e)
    PROVE  /\ voided' = voided
           /\ \A op \in {"learning", "bkt"} :
                 /\ row[e][op].state = "absent" /\ row'[e][op].state = "queued"
                 /\ row[e][op].token = NoToken /\ row'[e][op].token = NoToken
                 /\ row[e][op].drawn = 0 /\ row'[e][op].drawn = 0
           /\ \A f \in Event, o \in Operation :
                 f # e \/ o = "reconcile" => SameRow(row[f][o], row'[f][o])
<1> DEFINE q(op) == [row[e][op] EXCEPT !.state = "queued"]
<1>1. \A op \in {"learning", "bkt"} :
         /\ row[e][op] \in Row /\ row[e][op].state = "absent"
         /\ row[e][op].token = NoToken /\ row[e][op].drawn = 0
  BY DEF QueueInvariant, TypeOK, Append, Known, DerivedTogether, AbsentRowsAreFresh, Operation
<1>2. \A op \in {"learning", "bkt"} :
         /\ q(op).state = "queued" /\ q(op).token = NoToken /\ q(op).drawn = 0
  BY <1>1 DEF Row
<1>3. row' = [row EXCEPT ![e]["learning"] = q("learning"), ![e]["bkt"] = q("bkt")]
  BY DEF Append, QueueInvariant, TypeOK, Operation
<1> HIDE DEF q
<1>4. \A op \in {"learning", "bkt"} : row'[e][op] = q(op)
  BY <1>3 DEF QueueInvariant, TypeOK, Operation
<1>5. \A f \in Event, o \in Operation :
         f # e \/ o = "reconcile" => SameRow(row[f][o], row'[f][o])
  BY <1>3 DEF QueueInvariant, TypeOK, Operation, SameRow
<1>6. QED
  BY <1>1, <1>2, <1>4, <1>5 DEF Append

\* append_amendment queues the reconciliation of an answer voided for the first
\* time, and of no other.
LEMMA AmendmentRows ==
    ASSUME QueueInvariant, NEW w \in Worker, NEW e \in Event, AppendAmendment(w, e)
    PROVE  /\ voided' = voided \cup {e}
           /\ SameElsewhere(e, "reconcile")
           /\ \/ SameRow(row[e]["reconcile"], row'[e]["reconcile"])
              \/ /\ row[e]["reconcile"].state = "absent"
                 /\ row'[e]["reconcile"].state = "queued"
                 /\ row[e]["reconcile"].token = NoToken /\ row'[e]["reconcile"].token = NoToken
                 /\ row[e]["reconcile"].drawn = 0 /\ row'[e]["reconcile"].drawn = 0
<1> DEFINE q == [row[e]["reconcile"] EXCEPT !.state = "queued"]
<1>1. row[e]["reconcile"] \in Row /\ "reconcile" \in Operation
  BY DEF QueueInvariant, TypeOK, Operation
<1>2. /\ q.state = "queued" /\ q.token = row[e]["reconcile"].token
      /\ q.drawn = row[e]["reconcile"].drawn
  BY <1>1 DEF Row
<1>3. \/ row' = row
      \/ e \notin voided /\ row' = [row EXCEPT ![e]["reconcile"] = q]
  BY <1>1 DEF AppendAmendment, QueueInvariant, TypeOK
<1>4. voided' = voided \cup {e}
  BY DEF AppendAmendment
<1> HIDE DEF q
<1>5. CASE row' = row
  BY <1>4, <1>5 DEF SameElsewhere, SameRow
<1>6. CASE e \notin voided /\ row' = [row EXCEPT ![e]["reconcile"] = q]
  <2>1. row'[e]["reconcile"] = q /\ SameElsewhere(e, "reconcile")
    BY <1>1, <1>6 DEF QueueInvariant, TypeOK, SameElsewhere, SameRow
  <2>2. /\ row[e]["reconcile"].state = "absent" /\ row[e]["reconcile"].drawn = 0
        /\ row[e]["reconcile"].token = NoToken
    BY <1>1, <1>6 DEF QueueInvariant, TypeOK, ReconciledWhenVoided, AbsentRowsAreFresh
  <2>3. QED
    BY <1>2, <1>4, <2>1, <2>2
<1>7. QED
  BY <1>3, <1>5, <1>6

\* The rows keep in step with each other and with the amendments.
LEMMA RowsStep ==
    ASSUME QueueInvariant, [Next]_vars
    PROVE  AbsentRowsAreFresh' /\ DerivedTogether' /\ ReconciledWhenVoided'
<1>1. ASSUME NEW e \in Event, Append(e)
      PROVE  AbsentRowsAreFresh' /\ DerivedTogether' /\ ReconciledWhenVoided'
  BY <1>1, AppendRows DEF QueueInvariant, AbsentRowsAreFresh, DerivedTogether,
                          ReconciledWhenVoided, SameRow, Operation
<1>2. ASSUME NEW w \in Worker, NEW e \in Event, AppendAmendment(w, e)
      PROVE  AbsentRowsAreFresh' /\ DerivedTogether' /\ ReconciledWhenVoided'
  BY <1>2, AmendmentRows DEF QueueInvariant, AbsentRowsAreFresh, DerivedTogether,
                             ReconciledWhenVoided, SameRow, SameElsewhere, Operation
<1>3. CASE NothingQueued
  <2>1. \A f \in Event, o \in Operation :
           /\ row'[f][o].state = "absent" <=> row[f][o].state = "absent"
           /\ row'[f][o].state = "absent" => row'[f][o].drawn = row[f][o].drawn
    BY <1>3 DEF NothingQueued, SameElsewhere, SameRow, Worked, Claimed, Settled
  <2>2. QED
    BY <1>3, <2>1 DEF QueueInvariant, AbsentRowsAreFresh, DerivedTogether,
                      ReconciledWhenVoided, NothingQueued, Operation
<1>4. QED
  BY <1>1, <1>2, <1>3, QueueSteps DEF QueueInvariant

\* A worker that has a claim keeps its token until it is done.
LEMMA TokensStep ==
    ASSUME TypeOK, ClaimsHaveTokens, [Next]_vars
    PROVE  ClaimsHaveTokens'
<1> USE DEF Unclaimed
<1>1. CASE UNCHANGED <<pc, job>>
  BY <1>1 DEF ClaimsHaveTokens
<1>2. ASSUME NEW w \in Worker, NEW e \in Event, NEW op \in Operation, ClaimDerived(w, e, op),
             \A v \in Worker \ {w} : pc'[v] = pc[v]
      PROVE  ClaimsHaveTokens'
  <2> DEFINE t == [by |-> w, n |-> row[e][op].drawn + 1]
             j == [job[w] EXCEPT !.token = t]
  <2>1. j.token.by = w
    BY DEF TypeOK, Job
  <2>2. job' = [job EXCEPT ![w] = j]
    BY <1>2 DEF ClaimDerived, TypeOK
  <2> HIDE DEF t, j
  <2>3. QED
    BY <1>2, <2>1, <2>2 DEF ClaimsHaveTokens, TypeOK
<1>3. ASSUME NEW w \in Worker, Stop(w)
      PROVE  ClaimsHaveTokens'
  BY <1>3 DEF Stop, Go, ClaimsHaveTokens, TypeOK
<1>4. ASSUME NEW w \in Worker, pc[w] \notin Unclaimed, job'[w].token = job[w].token,
             \A v \in Worker \ {w} : pc'[v] = pc[v] /\ job'[v] = job[v]
      PROVE  ClaimsHaveTokens'
  BY <1>4 DEF ClaimsHaveTokens
<1>5. ASSUME NEW w \in Worker, pc'[w] \in Unclaimed,
             \A v \in Worker \ {w} : pc'[v] = pc[v] /\ job'[v] = job[v]
      PROVE  ClaimsHaveTokens'
  BY <1>5 DEF ClaimsHaveTokens
<1>6. ASSUME NEW w \in Worker, WorkerStep(w)
      PROVE  ClaimsHaveTokens'
  <2>1. CASE MarkDerivedApplied(w) \/ MarkDerivedFailed(w) \/ MarkRaises(w)
    BY <1>3, <2>1 DEF MarkDerivedApplied, MarkDerivedFailed, MarkRaises
  <2>2. CASE OpenTool(w) \/ CloseTool(w)
    BY <1>1, <2>2 DEF OpenTool, CloseTool
  <2>3. CASE ClaimLearning(w) \/ ClaimProjection(w) \/ ClaimReconciliation(w)
    <3>1. job[w].event \in Event
      BY <2>3 DEF ClaimLearning, ClaimProjection, ClaimReconciliation, TypeOK
    <3>2. \/ Stop(w)
          \/ /\ \E op \in Operation : ClaimDerived(w, job[w].event, op)
             /\ \A v \in Worker \ {w} : pc'[v] = pc[v]
      BY <2>3 DEF ClaimLearning, ClaimProjection, ClaimReconciliation, Go, TypeOK, Operation
    <3>3. QED
      BY <1>2, <1>3, <3>1, <3>2
  <2>4. CASE \E e \in Event :
                StartDerived(w, e) \/ BeginProjection(w, e) \/ AppendAmendment(w, e)
    <3>1. /\ pc'[w] \in Unclaimed
          /\ \A v \in Worker \ {w} : pc'[v] = pc[v] /\ job'[v] = job[v]
      BY <2>4 DEF StartDerived, BeginProjection, AppendAmendment, Go, TypeOK
    <3>2. QED
      BY <1>5, <3>1
  <2>5. CASE \/ LoadPlan(w) \/ Derive(w) \/ Prepare(w) \/ RecordEvent(w) \/ CheckEffective(w)
             \/ ProjectionRaises(w) \/ DeleteReads(w) \/ DeleteReplaces(w)
             \/ DeleteRaises(w) \/ LookForProjection(w)
    <3>1. pc[w] \notin Unclaimed /\ \A v \in Worker \ {w} : pc'[v] = pc[v]
      BY <2>5 DEF LoadPlan, Derive, Prepare, RecordEvent, CheckEffective, ProjectionRaises,
                  DeleteReads, DeleteReplaces, DeleteRaises, LookForProjection, Go, TypeOK
    <3>2. /\ job'[w].token = job[w].token
          /\ \A v \in Worker \ {w} : job'[v] = job[v]
      BY <2>5 DEF LoadPlan, Derive, Prepare, RecordEvent, CheckEffective, ProjectionRaises,
                  DeleteReads, DeleteReplaces, DeleteRaises, LookForProjection, TypeOK, Job
    <3>3. QED
      BY <1>4, <3>1, <3>2
  <2>6. QED
    BY <1>6, <2>1, <2>2, <2>3, <2>4, <2>5, Zenon DEF WorkerStep
<1>7. ASSUME NEW p \in Process, Crash(p)
      PROVE  ClaimsHaveTokens'
  BY <1>7 DEF Crash, ClaimsHaveTokens, TypeOK
<1>8. CASE \/ \E e \in Event : Append(e)
           \/ \E e \in Event, op \in Operation : LeaseLapses(e, op)
  BY <1>1, <1>8 DEF Append, LeaseLapses
<1>9. QED
  BY <1>1, <1>6, <1>7, <1>8 DEF Next, vars

\* The queue, its claims and the amendments fit together in every reachable state.
LEMMA QueueInvariance == Spec => []QueueInvariant
<1>1. Init => QueueInvariant
  BY TypeInit DEF Init, QueueInvariant, ClaimsHaveTokens, Unclaimed, AbsentRowsAreFresh,
                  DerivedTogether, ReconciledWhenVoided, Operation
<1>2. QueueInvariant /\ [Next]_vars => QueueInvariant'
  BY TypeStep, TokensStep, RowsStep DEF QueueInvariant
<1>3. QED
  BY <1>1, <1>2, PTL DEF Spec

-----------------------------------------------------------------------------
(* The refinement, for an operation op. *)

AnswersOf(r) == IF r.state = "applied" THEN {r.drawn} ELSE {}

\* A step of FencedTask that takes e from row r to row s.
FencedMove(r, s) ==
    \/ /\ PhaseOf(r) = "absent" /\ PhaseOf(s) = "waiting"
       /\ s.token.by = None /\ TurnOf(s) = 1 /\ AnswersOf(s) = AnswersOf(r)
    \/ /\ PhaseOf(r) = "waiting" /\ PhaseOf(s) = "held"
       /\ s.token.by \in Worker /\ TurnOf(s) = TurnOf(r) /\ AnswersOf(s) = AnswersOf(r)
    \/ /\ PhaseOf(r) = "held" /\ PhaseOf(s) = "held"
       /\ s.token.by \in Worker /\ TurnOf(s) = TurnOf(r) + 1 /\ AnswersOf(s) = AnswersOf(r)
    \/ /\ PhaseOf(r) = "held" /\ PhaseOf(s) = "waiting"
       /\ s.token.by = None /\ TurnOf(s) = TurnOf(r) + 1 /\ AnswersOf(s) = AnswersOf(r)
    \/ /\ PhaseOf(r) = "held" /\ PhaseOf(s) = "closed"
       /\ s.token.by = None /\ TurnOf(s) = TurnOf(r)
       /\ TurnOf(r) \notin AnswersOf(r) /\ AnswersOf(s) = AnswersOf(r) \cup {TurnOf(r)}

\* FencedTask sees of a row its state, its token and its count.
LEMMA SameMapped ==
    ASSUME NEW r, NEW s, SameRow(r, s)
    PROVE  /\ PhaseOf(s) = PhaseOf(r) /\ TurnOf(s) = TurnOf(r)
           /\ s.token.by = r.token.by /\ AnswersOf(s) = AnswersOf(r)
BY DEF SameRow, PhaseOf, TurnOf, AnswersOf

\* Claiming, releasing and completing are moves of FencedTask.
LEMMA WorkedMoves ==
    ASSUME NEW r \in Row, NEW s \in Row, Worked(r, s)
    PROVE  FencedMove(r, s)
<1>1. r.drawn \in Nat /\ s.drawn \in Nat
  BY DEF Row
<1>2. NoToken.by = None /\ None \notin Worker
  BY ConstantsAssumption DEF NoToken
<1>3. ASSUME NEW w \in Worker, Claimed(r, s, w)
      PROVE  FencedMove(r, s)
  <2>1. s.token # NoToken
    BY <1>2, <1>3 DEF Claimed
  <2>2. PhaseOf(s) = "held" /\ TurnOf(s) = r.drawn + 1 /\ AnswersOf(s) = {}
    BY <1>3, <2>1 DEF Claimed, PhaseOf, TurnOf, AnswersOf
  <2>3. /\ AnswersOf(r) = {}
        /\ \/ PhaseOf(r) = "waiting" /\ TurnOf(r) = r.drawn + 1
           \/ PhaseOf(r) = "held" /\ TurnOf(r) = r.drawn
    BY <1>3 DEF Claimed, PhaseOf, TurnOf, AnswersOf
  <2>4. QED
    BY <1>3, <2>2, <2>3 DEF FencedMove, Claimed
<1>4. CASE Settled(r, s)
  <2>1. r.token # NoToken
    BY <1>2, <1>4 DEF Settled
  <2>2. PhaseOf(r) = "held" /\ TurnOf(r) = r.drawn /\ AnswersOf(r) = {}
    BY <1>4, <2>1 DEF Settled, PhaseOf, TurnOf, AnswersOf
  <2>3. CASE s.state = "queued"
    <3>1. PhaseOf(s) = "waiting" /\ TurnOf(s) = r.drawn + 1 /\ AnswersOf(s) = {}
      BY <1>4, <2>3 DEF Settled, PhaseOf, TurnOf, AnswersOf
    <3>2. QED
      BY <1>2, <1>4, <2>2, <3>1 DEF FencedMove, Settled
  <2>4. CASE s.state = "applied"
    <3>1. PhaseOf(s) = "closed" /\ TurnOf(s) = r.drawn /\ AnswersOf(s) = {r.drawn}
      BY <1>4, <2>4 DEF Settled, PhaseOf, TurnOf, AnswersOf
    <3>2. QED
      BY <1>2, <1>4, <2>2, <3>1 DEF FencedMove, Settled
  <2>5. QED
    BY <1>4, <2>3, <2>4 DEF Settled
<1>5. QED
  BY <1>3, <1>4 DEF Worked

\* So is queueing.
LEMMA QueuedMoves ==
    ASSUME NEW r, NEW s, r.state = "absent", s.state = "queued",
           s.token = NoToken, s.drawn = 0
    PROVE  FencedMove(r, s)
<1>1. PhaseOf(r) = "absent" /\ AnswersOf(r) = {}
  BY DEF PhaseOf, AnswersOf
<1>2. PhaseOf(s) = "waiting" /\ AnswersOf(s) = {} /\ TurnOf(s) = 1
  BY DEF PhaseOf, AnswersOf, TurnOf
<1>3. s.token.by = None
  BY DEF NoToken
<1>4. QED
  BY <1>1, <1>2, <1>3 DEF FencedMove

\* Every step makes at most one event move in the queue of an operation.
LEMMA OneEventMoves ==
    ASSUME QueueInvariant, TypeOK', [Next]_vars, NEW op \in Operation
    PROVE  \/ \A f \in Event : SameRow(row[f][op], row'[f][op])
           \/ \E e \in Event : /\ FencedMove(row[e][op], row'[e][op])
                               /\ \A f \in Event \ {e} : SameRow(row[f][op], row'[f][op])
<1>1. ASSUME NEW e \in Event, Append(e)
      PROVE  \/ \A f \in Event : SameRow(row[f][op], row'[f][op])
             \/ /\ FencedMove(row[e][op], row'[e][op])
                /\ \A f \in Event \ {e} : SameRow(row[f][op], row'[f][op])
  BY <1>1, AppendRows, QueuedMoves DEF Operation
<1>2. ASSUME NEW w \in Worker, NEW e \in Event, AppendAmendment(w, e)
      PROVE  \/ \A f \in Event : SameRow(row[f][op], row'[f][op])
             \/ /\ FencedMove(row[e][op], row'[e][op])
                /\ \A f \in Event \ {e} : SameRow(row[f][op], row'[f][op])
  BY <1>2, AmendmentRows, QueuedMoves DEF SameElsewhere, Operation
<1>3. CASE NothingQueued
  <2>1. CASE \A f \in Event, o \in Operation : SameRow(row[f][o], row'[f][o])
    BY <2>1
  <2>2. ASSUME NEW e \in Event, NEW o \in Operation, Worked(row[e][o], row'[e][o]),
               SameElsewhere(e, o)
        PROVE  \/ \A f \in Event : SameRow(row[f][op], row'[f][op])
               \/ /\ FencedMove(row[e][op], row'[e][op])
                  /\ \A f \in Event \ {e} : SameRow(row[f][op], row'[f][op])
    <3>1. row[e][o] \in Row /\ row'[e][o] \in Row
      BY DEF QueueInvariant, TypeOK
    <3>2. FencedMove(row[e][o], row'[e][o])
      BY <2>2, <3>1, WorkedMoves
    <3>3. QED
      BY <2>2, <3>2 DEF SameElsewhere
  <2>3. QED
    BY <1>3, <2>1, <2>2 DEF NothingQueued
<1>4. QED
  BY <1>1, <1>2, <1>3, QueueSteps DEF QueueInvariant

\* What FencedTask sees of e moves with the row of e.
LEMMA MappedMove ==
    ASSUME NEW op \in Operation, NEW e \in Event,
           \A f \in Event \ {e} : SameRow(row[f][op], row'[f][op])
    PROVE  /\ Phases(op)' = [Phases(op) EXCEPT ![e] = PhaseOf(row'[e][op])]
           /\ Holders(op)' = [Holders(op) EXCEPT ![e] = row'[e][op].token.by]
           /\ Turns(op)' = [Turns(op) EXCEPT ![e] = TurnOf(row'[e][op])]
           /\ Completed(op)' = [Completed(op) EXCEPT ![e] = AnswersOf(row'[e][op])]
           /\ Phases(op)[e] = PhaseOf(row[e][op])
           /\ Turns(op)[e] = TurnOf(row[e][op])
           /\ Completed(op)[e] = AnswersOf(row[e][op])
           /\ AnswersOf(row'[e][op]) = AnswersOf(row[e][op]) => UNCHANGED Completed(op)
<1>1. \A f \in Event \ {e} : /\ PhaseOf(row'[f][op]) = PhaseOf(row[f][op])
                             /\ TurnOf(row'[f][op]) = TurnOf(row[f][op])
                             /\ row'[f][op].token.by = row[f][op].token.by
                             /\ AnswersOf(row'[f][op]) = AnswersOf(row[f][op])
  BY SameMapped
<1>2. Phases(op)' = [Phases(op) EXCEPT ![e] = PhaseOf(row'[e][op])]
  BY <1>1 DEF Phases
<1>3. Holders(op)' = [Holders(op) EXCEPT ![e] = row'[e][op].token.by]
  BY <1>1 DEF Holders
<1>4. Turns(op)' = [Turns(op) EXCEPT ![e] = TurnOf(row'[e][op])]
  BY <1>1 DEF Turns
<1>5. Completed(op)' = [Completed(op) EXCEPT ![e] = AnswersOf(row'[e][op])]
  BY <1>1 DEF Completed, Applied, AnswersOf
<1>6. /\ Phases(op)[e] = PhaseOf(row[e][op]) /\ Turns(op)[e] = TurnOf(row[e][op])
      /\ Completed(op)[e] = AnswersOf(row[e][op])
  BY DEF Phases, Turns, Completed, Applied, AnswersOf
<1>7. AnswersOf(row'[e][op]) = AnswersOf(row[e][op]) => UNCHANGED Completed(op)
  BY <1>1 DEF Completed, Applied, AnswersOf
<1>8. QED
  BY <1>2, <1>3, <1>4, <1>5, <1>6, <1>7

\* If no row changes for FencedTask, nothing does.
LEMMA MappedSame ==
    ASSUME NEW op \in Operation, \A f \in Event : SameRow(row[f][op], row'[f][op])
    PROVE  /\ Phases(op)' = Phases(op) /\ Holders(op)' = Holders(op)
           /\ Turns(op)' = Turns(op) /\ Completed(op)' = Completed(op)
<1>1. \A f \in Event : /\ PhaseOf(row'[f][op]) = PhaseOf(row[f][op])
                       /\ TurnOf(row'[f][op]) = TurnOf(row[f][op])
                       /\ row'[f][op].token.by = row[f][op].token.by
                       /\ AnswersOf(row'[f][op]) = AnswersOf(row[f][op])
  BY SameMapped
<1>2. QED
  BY <1>1 DEF Phases, Holders, Turns, Completed, Applied, AnswersOf

\* No operation is queued at first.
LEMMA MappedInit ==
    ASSUME Init, NEW op \in Operation
    PROVE  /\ Phases(op) = [e \in Event |-> "absent"]
           /\ Holders(op) = [e \in Event |-> None]
           /\ Turns(op) = [e \in Event |-> 0]
           /\ Completed(op) = [e \in Event |-> {}]
<1>1. \A e \in Event : /\ row[e][op].state = "absent"
                       /\ row[e][op].token = NoToken /\ row[e][op].drawn = 0
  BY DEF Init
<1>2. ASSUME NEW r, r.state = "absent", r.token = NoToken, r.drawn = 0
      PROVE  PhaseOf(r) = "absent" /\ TurnOf(r) = 0 /\ r.token.by = None
  BY <1>2 DEF PhaseOf, TurnOf, NoToken
<1>3. QED
  BY <1>1, <1>2 DEF Phases, Holders, Turns, Completed, Applied

\* The learning operation: every step is one of FencedTask or invisible to it.
LEMMA LearningStep ==
    ASSUME QueueInvariant, TypeOK', [Next]_vars
    PROVE  [Learning!Next]_(Learning!vars)
<1> DEFINE op == "learning"
<1>1. op \in Operation
  BY DEF Operation
<1>2. CASE \A f \in Event : SameRow(row[f][op], row'[f][op])
  BY <1>1, <1>2, MappedSame DEF Learning!vars
<1>3. ASSUME NEW e \in Event, FencedMove(row[e][op], row'[e][op]),
             \A f \in Event \ {e} : SameRow(row[f][op], row'[f][op])
      PROVE  Learning!Step(e)
  <2> DEFINE r == row[e][op]
             s == row'[e][op]
  <2>1. /\ Learning!Move(e, PhaseOf(s), s.token.by, TurnOf(s))
        /\ Completed(op)' = [Completed(op) EXCEPT ![e] = AnswersOf(s)]
        /\ AnswersOf(s) = AnswersOf(r) => UNCHANGED Completed(op)
        /\ Phases(op)[e] = PhaseOf(r) /\ Turns(op)[e] = TurnOf(r)
        /\ Completed(op)[e] = AnswersOf(r)
    BY <1>1, <1>3, MappedMove DEF Learning!Move
  <2> HIDE DEF r, s
  <2>2. FencedMove(r, s)
    BY <1>3 DEF r, s
  <2>3. QED
    BY <2>1, <2>2 DEF FencedMove, Learning!Step, Learning!Open, Learning!Hold,
                      Learning!Replace, Learning!Revoke, Learning!Answer
<1>4. QED
  BY <1>1, <1>2, <1>3, OneEventMoves DEF Learning!Next

\* The projection of evidence, likewise.
LEMMA ProjectionStep ==
    ASSUME QueueInvariant, TypeOK', [Next]_vars
    PROVE  [Projection!Next]_(Projection!vars)
<1> DEFINE op == "bkt"
<1>1. op \in Operation
  BY DEF Operation
<1>2. CASE \A f \in Event : SameRow(row[f][op], row'[f][op])
  BY <1>1, <1>2, MappedSame DEF Projection!vars
<1>3. ASSUME NEW e \in Event, FencedMove(row[e][op], row'[e][op]),
             \A f \in Event \ {e} : SameRow(row[f][op], row'[f][op])
      PROVE  Projection!Step(e)
  <2> DEFINE r == row[e][op]
             s == row'[e][op]
  <2>1. /\ Projection!Move(e, PhaseOf(s), s.token.by, TurnOf(s))
        /\ Completed(op)' = [Completed(op) EXCEPT ![e] = AnswersOf(s)]
        /\ AnswersOf(s) = AnswersOf(r) => UNCHANGED Completed(op)
        /\ Phases(op)[e] = PhaseOf(r) /\ Turns(op)[e] = TurnOf(r)
        /\ Completed(op)[e] = AnswersOf(r)
    BY <1>1, <1>3, MappedMove DEF Projection!Move
  <2> HIDE DEF r, s
  <2>2. FencedMove(r, s)
    BY <1>3 DEF r, s
  <2>3. QED
    BY <2>1, <2>2 DEF FencedMove, Projection!Step, Projection!Open, Projection!Hold,
                      Projection!Replace, Projection!Revoke, Projection!Answer
<1>4. QED
  BY <1>1, <1>2, <1>3, OneEventMoves DEF Projection!Next

\* The reconciliation of an amendment, likewise.
LEMMA ReconciliationStep ==
    ASSUME QueueInvariant, TypeOK', [Next]_vars
    PROVE  [Reconciliation!Next]_(Reconciliation!vars)
<1> DEFINE op == "reconcile"
<1>1. op \in Operation
  BY DEF Operation
<1>2. CASE \A f \in Event : SameRow(row[f][op], row'[f][op])
  BY <1>1, <1>2, MappedSame DEF Reconciliation!vars
<1>3. ASSUME NEW e \in Event, FencedMove(row[e][op], row'[e][op]),
             \A f \in Event \ {e} : SameRow(row[f][op], row'[f][op])
      PROVE  Reconciliation!Step(e)
  <2> DEFINE r == row[e][op]
             s == row'[e][op]
  <2>1. /\ Reconciliation!Move(e, PhaseOf(s), s.token.by, TurnOf(s))
        /\ Completed(op)' = [Completed(op) EXCEPT ![e] = AnswersOf(s)]
        /\ AnswersOf(s) = AnswersOf(r) => UNCHANGED Completed(op)
        /\ Phases(op)[e] = PhaseOf(r) /\ Turns(op)[e] = TurnOf(r)
        /\ Completed(op)[e] = AnswersOf(r)
    BY <1>1, <1>3, MappedMove DEF Reconciliation!Move
  <2> HIDE DEF r, s
  <2>2. FencedMove(r, s)
    BY <1>3 DEF r, s
  <2>3. QED
    BY <2>1, <2>2 DEF FencedMove, Reconciliation!Step, Reconciliation!Open, Reconciliation!Hold,
                      Reconciliation!Replace, Reconciliation!Revoke, Reconciliation!Answer
<1>4. QED
  BY <1>1, <1>2, <1>3, OneEventMoves DEF Reconciliation!Next

\* The ledger, with its crashes, lapses, lost claims and late completions, runs
\* every operation as a fenced task, for any events, workers and processes.
THEOREM Refinement == Spec => ImplementsFencedTask
<1>1. Init => Learning!Init /\ Projection!Init /\ Reconciliation!Init
  BY MappedInit DEF Operation, Learning!Init, Projection!Init, Reconciliation!Init
<1>2. QueueInvariant /\ TypeOK' /\ [Next]_vars =>
        /\ [Learning!Next]_(Learning!vars)
        /\ [Projection!Next]_(Projection!vars)
        /\ [Reconciliation!Next]_(Reconciliation!vars)
  BY LearningStep, ProjectionStep, ReconciliationStep
<1>3. QED
  BY <1>1, <1>2, TypeCorrect, QueueInvariance, PTL
     DEF Spec, ImplementsFencedTask, Learning!Spec, Projection!Spec, Reconciliation!Spec
==============================================================================
