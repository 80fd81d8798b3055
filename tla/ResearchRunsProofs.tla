------------------------- MODULE ResearchRunsProofs -------------------------
(***************************************************************************)
(* Theorems about ResearchRuns, for every set of runs and workers, every   *)
(* lease length and clock lag, and every bound: types, the finality of     *)
(* outcomes, the inductive invariant, and what follows from it.            *)
(***************************************************************************)
EXTENDS ResearchRunsInvariant, FiniteSetTheorems, TLAPS

-----------------------------------------------------------------------------
(* The records the store appends are records. *)

LEMMA ControlRecords ==
    ASSUME NEW x \in RunRecord, NEW target \in Status
    PROVE  /\ Transitioned(x, target) \in RunRecord
           /\ Finalized(x) \in RunRecord
           /\ AnsweredWith(x, target) \in RunRecord
<1>1. NoClaim \in Claim
  BY DEF NoClaim, Claim
<1>2. Transitioned(x, target) \in RunRecord
  BY <1>1 DEF Transitioned, RunRecord
<1>3. Finalized(x) \in RunRecord
  BY <1>1 DEF Finalized, RunRecord, Status
<1>4. AnsweredWith(x, target) \in RunRecord
  BY <1>1 DEF AnsweredWith, RunRecord
<1>5. QED
  BY <1>2, <1>3, <1>4

\* What claim_run and renew_run_lease append is a record.
LEMMA ClaimRecords ==
    ASSUME NEW x \in RunRecord, NEW w \in Worker, NEW takeover \in BOOLEAN
    PROVE  /\ ClaimedBy(x, w, takeover) \in RunRecord
           /\ Renewed(x) \in RunRecord
<1>1. [holder |-> w, token |-> x.leaseRevision + 1] \in Claim
  BY DEF Claim, RunRecord
<1>2. ClaimedBy(x, w, takeover) \in RunRecord
  BY <1>1 DEF ClaimedBy, RunRecord, Status
<1>3. Renewed(x) \in RunRecord
  BY DEF Renewed, RunRecord
<1>4. QED
  BY <1>2, <1>3

-----------------------------------------------------------------------------
(* Type correctness. *)

LEMMA TypeInit == Init => TypeOK
BY DEF Init, TypeOK, Absent, RunRecord, Claim, NoClaim, Status, Job, NoJob, Points

\* Appending a record for a run, or not, keeps the records and leases typed.
LEMMA TypeAppend ==
    ASSUME TypeOK, NEW r, NEW x \in RunRecord, NEW t \in Int,
           \/ UNCHANGED <<run, lease>>
           \/ run' = [run EXCEPT ![r] = x] /\ lease' = [lease EXCEPT ![r] = t]
    PROVE  run' \in [Run -> RunRecord] /\ lease' \in [Run -> Int]
<1>1. CASE UNCHANGED <<run, lease>>
  BY <1>1 DEF TypeOK
<1>2. CASE run' = [run EXCEPT ![r] = x] /\ lease' = [lease EXCEPT ![r] = t]
  <2>1. run' \in [Run -> RunRecord]
    BY <1>2 DEF TypeOK
  <2>2. lease' \in [Run -> Int]
    BY <1>2 DEF TypeOK
  <2>3. QED
    BY <2>1, <2>2
<1>3. QED
  BY <1>1, <1>2

\* Users keep the shape of the state.
LEMMA TypeUsers ==
    ASSUME TypeOK,
           \/ \E r \in Run : CreateRun(r)
           \/ \E r \in Run, target \in Status : SendControl(r, target)
           \/ \E q \in requests : TransitionRun(q)
    PROVE  TypeOK'
<1>1. CASE \E r \in Run : CreateRun(r)
  <2>1. Created \in RunRecord
    BY DEF Created, RunRecord, Claim, NoClaim, Status
  <2>2. QED
    BY <1>1, <2>1 DEF TypeOK, CreateRun
<1>2. CASE \E r \in Run, target \in Status : SendControl(r, target)
  BY <1>2 DEF TypeOK, SendControl, Request, RunRecord, Controls, Fencing, Status
<1>3. ASSUME NEW q \in requests, TransitionRun(q)
      PROVE  TypeOK'
  <2>1. q.run \in Run /\ q.target \in Status /\ run[q.run] \in RunRecord
    BY DEF TypeOK, Request, Fencing, Status
  <2>2. Transitioned(run[q.run], q.target) \in RunRecord
    BY <2>1, ControlRecords
  <2>3. QED
    BY <1>3, <2>1, <2>2 DEF TypeOK, TransitionRun
<1>4. QED
  BY <1>1, <1>2, <1>3

\* A commit, current or stale, keeps the shape of records and receipts.
LEMMA TypeAnswer ==
    ASSUME TypeOK, NEW w \in Worker, pc[w] # "idle", NEW d \in 0..Lag,
           NEW outcome \in {"accepted", "failed"}, NEW status \in Status,
           Answer(w, d, outcome, status)
    PROVE  /\ run' \in [Run -> RunRecord]
           /\ lease' \in [Run -> Int]
           /\ receipts' \in [Run -> Seq(Receipt)]
<1> DEFINE r == job[w].run
           current == CurrentClaim(run[r], lease[r], job[w], d)
           receipt == [epoch |-> job[w].epoch,
                       outcome |-> IF current THEN outcome ELSE "discarded_stale"]
<1>1. r \in Run /\ run[r] \in RunRecord /\ receipts[r] \in Seq(Receipt)
  BY DEF TypeOK
<1>2. receipt \in Receipt
  BY DEF TypeOK, Job, Receipt
<1>3. AnsweredWith(run[r], status) \in RunRecord
  BY <1>1, ControlRecords
<1>4. Append(receipts[r], receipt) \in Seq(Receipt)
  BY <1>1, <1>2
<1>5. \/ UNCHANGED <<run, lease, receipts>>
      \/ /\ receipts' = [receipts EXCEPT ![r] = Append(receipts[r], receipt)]
         /\ \/ /\ run' = [run EXCEPT ![r] = AnsweredWith(run[r], status)]
               /\ lease' = [lease EXCEPT ![r] = 0]
            \/ UNCHANGED <<run, lease>>
  BY DEF Answer
<1> HIDE DEF r, current, receipt
<1>6. receipts' \in [Run -> Seq(Receipt)]
  BY <1>4, <1>5 DEF TypeOK
<1>7. run' \in [Run -> RunRecord] /\ lease' \in [Run -> Int]
  <2> DEFINE x == AnsweredWith(run[r], status)
  <2>1. \/ UNCHANGED <<run, lease>>
        \/ run' = [run EXCEPT ![r] = x] /\ lease' = [lease EXCEPT ![r] = 0]
    BY <1>5
  <2>2. x \in RunRecord /\ 0 \in Int
    BY <1>3
  <2> HIDE DEF x
  <2>3. QED
    BY <2>1, <2>2, TypeAppend, Zenon
<1>8. QED
  BY <1>6, <1>7

\* Workers keep the shape of the state.
LEMMA TypeWorker ==
    ASSUME TypeOK, NEW w \in Worker, WorkerStep(w)
    PROVE  TypeOK'
<1> USE DEF Points, HoldingPoints
<1>1. CASE \E r \in Run : ObserveControl(w, r)
  BY <1>1 DEF TypeOK, ObserveControl, Job, NoJob
<1>2. ASSUME NEW r \in Run, NEW d \in 0..Lag, ClaimRun(w, r, d)
      PROVE  TypeOK'
  <2> DEFINE takeover == Expired(run[r], lease[r], d)
             c == ClaimedBy(run[r], w, takeover)
             j == [run |-> r, epoch |-> c.epoch, token |-> c.claim.token]
  <2>1. takeover \in BOOLEAN /\ run[r] \in RunRecord
    BY DEF TypeOK, Expired
  <2>2. c \in RunRecord
    BY <2>1, ClaimRecords
  <2>3. j \in Job /\ j.run = r
    BY <2>2 DEF Job, RunRecord, Claim
  <2>4. /\ run' = [run EXCEPT ![r] = c]
        /\ lease' = [lease EXCEPT ![r] = LeaseTicks - d]
        /\ job' = [job EXCEPT ![w] = j]
        /\ pc' = [pc EXCEPT ![w] = "executing"]
        /\ UNCHANGED <<receipts, requests, applied>>
    BY <1>2 DEF ClaimRun
  <2> HIDE DEF takeover, c, j
  <2>5. QED
    BY <2>2, <2>3, <2>4, ConstantsAssumption DEF TypeOK
<1>3. CASE HeartbeatReads(w)
  BY <1>3 DEF TypeOK, HeartbeatReads
<1>4. ASSUME NEW d \in 0..Lag, RenewRunLease(w, d)
      PROVE  TypeOK'
  <2>1. job[w].run \in Run /\ run[job[w].run] \in RunRecord
    BY <1>4 DEF TypeOK, RenewRunLease
  <2>2. Renewed(run[job[w].run]) \in RunRecord
    BY <2>1, ClaimRecords
  <2>3. \/ /\ run' = [run EXCEPT ![job[w].run] = Renewed(run[job[w].run])]
           /\ lease' = [lease EXCEPT ![job[w].run] = LeaseTicks - d]
        \/ UNCHANGED <<run, lease>>
    BY <1>4 DEF RenewRunLease
  <2>4. run' \in [Run -> RunRecord] /\ lease' \in [Run -> Int]
    BY <2>2, <2>3, ConstantsAssumption, TypeAppend
  <2>5. QED
    BY <1>4, <2>1, <2>4 DEF TypeOK, RenewRunLease
<1>5. CASE FinalizeRequestedLifecycle(w)
  <2>1. job[w].run \in Run /\ run[job[w].run] \in RunRecord
    BY <1>5 DEF TypeOK, FinalizeRequestedLifecycle
  <2>2. Finalized(run[job[w].run]) \in RunRecord
    BY <2>1, ControlRecords DEF Status
  <2>3. \/ /\ run' = [run EXCEPT ![job[w].run] = Finalized(run[job[w].run])]
           /\ lease' = [lease EXCEPT ![job[w].run] = 0]
        \/ UNCHANGED <<run, lease>>
    BY <1>5 DEF FinalizeRequestedLifecycle
  <2>4. run' \in [Run -> RunRecord] /\ lease' \in [Run -> Int]
    BY <2>2, <2>3, TypeAppend
  <2>5. /\ pc' \in [Worker -> Points] /\ job' \in [Worker -> Job]
        /\ \A v \in Worker : pc'[v] # "idle" => job'[v].run \in Run
    <3>1. CASE pc[w] = "observed"
      BY <1>5, <3>1 DEF TypeOK, FinalizeRequestedLifecycle, Job, NoJob
    <3>2. CASE pc[w] = "finalizing" \/ pc[w] = "settling"
      <4>1. job' = job /\ \E p \in Points : p # "idle" /\ pc' = [pc EXCEPT ![w] = p]
        BY <1>5, <3>2 DEF FinalizeRequestedLifecycle
      <4>2. QED
        BY <3>2, <4>1 DEF TypeOK
    <3>3. QED
      BY <1>5, <3>1, <3>2 DEF FinalizeRequestedLifecycle
  <2>6. QED
    BY <1>5, <2>4, <2>5 DEF TypeOK, FinalizeRequestedLifecycle
<1>6. CASE ExecutorReturns(w)
  BY <1>6 DEF TypeOK, ExecutorReturns
<1>7. CASE ExecutorFails(w)
  BY <1>7 DEF TypeOK, ExecutorFails
<1>8. CASE StoreError(w)
  BY <1>8 DEF TypeOK, StoreError, Job, NoJob
<1>9. ASSUME NEW d \in 0..Lag, NEW status \in {"completed", "needs_review"},
             NEW acknowledged \in BOOLEAN, CommitTaskResult(w, d, status, acknowledged)
      PROVE  TypeOK'
  <2>1. /\ run' \in [Run -> RunRecord]
        /\ lease' \in [Run -> Int]
        /\ receipts' \in [Run -> Seq(Receipt)]
    BY <1>9, TypeAnswer DEF CommitTaskResult, Status
  <2>2. QED
    BY <1>9, <2>1 DEF TypeOK, CommitTaskResult, Job, NoJob
<1>10. ASSUME NEW d \in 0..Lag, RecordTaskFailure(w, d)
       PROVE  TypeOK'
  <2>1. /\ run' \in [Run -> RunRecord]
        /\ lease' \in [Run -> Int]
        /\ receipts' \in [Run -> Seq(Receipt)]
    BY <1>10, TypeAnswer DEF RecordTaskFailure, Status
  <2>2. QED
    BY <1>10, <2>1 DEF TypeOK, RecordTaskFailure, Job, NoJob
<1>11. CASE Crash(w)
  BY <1>11 DEF TypeOK, Crash, Job, NoJob
<1>12. QED
  BY <1>1, <1>2, <1>3, <1>4, <1>5, <1>6, <1>7, <1>8, <1>9, <1>10, <1>11
     DEF WorkerStep

\* The passing of time keeps the shape of the state.
LEMMA TypeTick == TypeOK /\ Tick => TypeOK'
BY DEF TypeOK, Tick

\* Every step keeps the shape of the state.
LEMMA TypeStep == TypeOK /\ [Next]_vars => TypeOK'
<1> SUFFICES ASSUME TypeOK, [Next]_vars
             PROVE  TypeOK'
  OBVIOUS
<1>1. CASE UNCHANGED vars
  BY <1>1 DEF TypeOK, vars
<1>2. CASE Next
  BY <1>2, TypeUsers, TypeWorker, TypeTick DEF Next
<1>3. QED
  BY <1>1, <1>2

\* Every variable keeps its shape: in particular a worker that is not idle
\* always has a run to work on.
THEOREM TypeCorrect == Spec => []TypeOK
<1>1. QED
  BY TypeInit, TypeStep, PTL DEF Spec

-----------------------------------------------------------------------------
(* What a step appends. *)

\* y may follow x as the newest record of a run.
Appends(x, y) ==
    \/ x.status = "absent" /\ y = Created
    \/ \E target \in Fencing : /\ <<x.status, target>> \in Transitions
                               /\ y = Transitioned(x, target)
    \/ \E w \in Worker, takeover \in BOOLEAN :
          /\ x.status = IF takeover THEN "running" ELSE "queued"
          /\ y = ClaimedBy(x, w, takeover)
    \/ x.status = "running" /\ y = Renewed(x)
    \/ x.status \in Pending /\ y = Finalized(x)
    \/ \E status \in Answered : x.status = "running" /\ y = AnsweredWith(x, status)

\* An answer appends at most one record, to the run the worker works on.
LEMMA AnswerAppends ==
    ASSUME TypeOK, NEW w \in Worker, NEW d \in 0..Lag,
           NEW outcome, NEW status \in Answered,
           Answer(w, d, outcome, status), NEW r \in Run
    PROVE  run'[r] = run[r] \/ Appends(run[r], run'[r])
<1>1. CASE UNCHANGED run
  BY <1>1
<1>2. CASE /\ run' = [run EXCEPT ![job[w].run] = AnsweredWith(run[job[w].run], status)]
           /\ run[job[w].run].status = "running"
  BY <1>2 DEF TypeOK, Appends
<1>3. QED
  BY <1>1, <1>2 DEF Answer, CurrentClaim

\* What a step does to a run, it does by appending a record.
LEMMA StepAppends ==
    ASSUME TypeOK, [Next]_vars, NEW r \in Run
    PROVE  run'[r] = run[r] \/ Appends(run[r], run'[r])
<1>1. CASE UNCHANGED run
  BY <1>1
<1>2. ASSUME NEW s \in Run, CreateRun(s)
      PROVE  run'[r] = run[r] \/ Appends(run[r], run'[r])
  BY <1>2 DEF TypeOK, CreateRun, Appends
<1>3. ASSUME NEW q \in requests, TransitionRun(q)
      PROVE  run'[r] = run[r] \/ Appends(run[r], run'[r])
  <2>1. q.target \in Fencing
    BY DEF TypeOK, Request
  <2>2. QED
    BY <1>3, <2>1 DEF TypeOK, TransitionRun, Appends
<1>4. ASSUME NEW w \in Worker, NEW s \in Run, NEW d \in 0..Lag, ClaimRun(w, s, d)
      PROVE  run'[r] = run[r] \/ Appends(run[r], run'[r])
  <2> DEFINE takeover == Expired(run[s], lease[s], d)
  <2>1. takeover \in BOOLEAN
    BY DEF Expired
  <2>2. run' = [run EXCEPT ![s] = ClaimedBy(run[s], w, takeover)]
    BY <1>4 DEF ClaimRun
  <2>3. run[s].status = IF takeover THEN "running" ELSE "queued"
    BY <1>4 DEF ClaimRun, Expired
  <2> HIDE DEF takeover
  <2>4. QED
    BY <2>1, <2>2, <2>3 DEF TypeOK, Appends
<1>5. ASSUME NEW w \in Worker, NEW d \in 0..Lag, RenewRunLease(w, d)
      PROVE  run'[r] = run[r] \/ Appends(run[r], run'[r])
  BY <1>5 DEF TypeOK, RenewRunLease, CurrentClaim, Appends
<1>6. ASSUME NEW w \in Worker, FinalizeRequestedLifecycle(w)
      PROVE  run'[r] = run[r] \/ Appends(run[r], run'[r])
  BY <1>6 DEF TypeOK, FinalizeRequestedLifecycle, Appends
<1>7. ASSUME NEW w \in Worker, NEW d \in 0..Lag, NEW status \in {"completed", "needs_review"},
             NEW acknowledged \in BOOLEAN, CommitTaskResult(w, d, status, acknowledged)
      PROVE  run'[r] = run[r] \/ Appends(run[r], run'[r])
  BY <1>7, AnswerAppends DEF CommitTaskResult, Answered
<1>8. ASSUME NEW w \in Worker, NEW d \in 0..Lag, RecordTaskFailure(w, d)
      PROVE  run'[r] = run[r] \/ Appends(run[r], run'[r])
  BY <1>8, AnswerAppends DEF RecordTaskFailure, Answered
<1>9. ASSUME NEW w \in Worker,
             \/ \E s \in Run : ObserveControl(w, s)
             \/ HeartbeatReads(w) \/ ExecutorReturns(w) \/ ExecutorFails(w)
             \/ StoreError(w) \/ Crash(w)
      PROVE  UNCHANGED run
  BY <1>9 DEF ObserveControl, HeartbeatReads, ExecutorReturns, ExecutorFails,
              StoreError, Crash
<1>10. CASE Tick \/ \E s \in Run, target \in Status : SendControl(s, target)
  BY <1>1, <1>10 DEF Tick, SendControl
<1>11. QED
  BY <1>1, <1>2, <1>3, <1>4, <1>5, <1>6, <1>7, <1>8, <1>9, <1>10
     DEF Next, WorkerStep, vars

\* A lease only runs down, unless a record is appended.
LEMMA StepLease ==
    ASSUME TypeOK, [Next]_vars, NEW r \in Run
    PROVE  lease'[r] <= lease[r] \/ Appends(run[r], run'[r])
<1> DEFINE G == lease'[r] <= lease[r] \/ Appends(run[r], run'[r])
<1>1. ASSUME lease'[r] = lease[r] \/ run'[r] # run[r]
      PROVE  G
  BY <1>1, StepAppends DEF TypeOK
<1>2. run[r].revision \in Nat /\ run[r].leaseRevision \in Nat
  BY DEF TypeOK, RunRecord
<1>3. ASSUME NEW s \in Run, CreateRun(s)
      PROVE  G
  BY <1>1, <1>3 DEF CreateRun
<1>4. ASSUME NEW q \in requests, TransitionRun(q)
      PROVE  G
  <2>1. q.run = r => run'[r].revision = run[r].revision + 1
    BY <1>4 DEF TransitionRun, Transitioned, TypeOK
  <2>2. q.run # r => lease'[r] = lease[r]
    BY <1>4 DEF TransitionRun, TypeOK
  <2>3. QED
    BY <1>1, <1>2, <2>1, <2>2
<1>5. ASSUME NEW w \in Worker, NEW s \in Run, NEW d \in 0..Lag, ClaimRun(w, s, d)
      PROVE  G
  <2>1. s = r => run'[r].revision = run[r].revision + 1
    BY <1>5 DEF ClaimRun, ClaimedBy, TypeOK
  <2>2. s # r => lease'[r] = lease[r]
    BY <1>5 DEF ClaimRun, TypeOK
  <2>3. QED
    BY <1>1, <1>2, <2>1, <2>2
<1>6. ASSUME NEW w \in Worker, NEW d \in 0..Lag, RenewRunLease(w, d)
      PROVE  G
  <2>1. CASE UNCHANGED lease
    BY <1>1, <2>1
  <2>2. CASE run' = [run EXCEPT ![job[w].run] = Renewed(run[job[w].run])]
             /\ lease' = [lease EXCEPT ![job[w].run] = LeaseTicks - d]
    <3>1. job[w].run = r => run'[r].leaseRevision = run[r].leaseRevision + 1
      BY <2>2 DEF Renewed, TypeOK, RunRecord
    <3>2. job[w].run # r => lease'[r] = lease[r]
      BY <2>2 DEF TypeOK
    <3>3. QED
      BY <1>1, <1>2, <3>1, <3>2
  <2>3. QED
    BY <1>6, <2>1, <2>2 DEF RenewRunLease
<1>7. ASSUME NEW w \in Worker, FinalizeRequestedLifecycle(w)
      PROVE  G
  <2>1. CASE UNCHANGED lease
    BY <1>1, <2>1
  <2>2. CASE run' = [run EXCEPT ![job[w].run] = Finalized(run[job[w].run])]
             /\ lease' = [lease EXCEPT ![job[w].run] = 0]
    <3>1. job[w].run = r => run'[r].revision = run[r].revision + 1
      BY <2>2 DEF Finalized, TypeOK
    <3>2. job[w].run # r => lease'[r] = lease[r]
      BY <2>2 DEF TypeOK
    <3>3. QED
      BY <1>1, <1>2, <3>1, <3>2
  <2>3. QED
    BY <1>7, <2>1, <2>2 DEF FinalizeRequestedLifecycle
<1>8. ASSUME NEW w \in Worker, NEW d, NEW outcome, NEW status, Answer(w, d, outcome, status)
      PROVE  G
  <2>1. CASE UNCHANGED lease
    BY <1>1, <2>1
  <2>2. CASE run' = [run EXCEPT ![job[w].run] = AnsweredWith(run[job[w].run], status)]
             /\ lease' = [lease EXCEPT ![job[w].run] = 0]
    <3>1. job[w].run = r => run'[r].revision = run[r].revision + 1
      BY <2>2 DEF AnsweredWith, TypeOK
    <3>2. job[w].run # r => lease'[r] = lease[r]
      BY <2>2 DEF TypeOK
    <3>3. QED
      BY <1>1, <1>2, <3>1, <3>2
  <2>3. QED
    BY <1>8, <2>1, <2>2 DEF Answer
<1>9. ASSUME NEW w \in Worker, NEW d \in 0..Lag,
             \/ \E status \in {"completed", "needs_review"}, acknowledged \in BOOLEAN :
                   CommitTaskResult(w, d, status, acknowledged)
             \/ RecordTaskFailure(w, d)
      PROVE  G
  BY <1>8, <1>9 DEF CommitTaskResult, RecordTaskFailure
<1>10. ASSUME NEW w \in Worker,
              \/ \E s \in Run : ObserveControl(w, s)
              \/ HeartbeatReads(w) \/ ExecutorReturns(w) \/ ExecutorFails(w)
              \/ StoreError(w) \/ Crash(w)
       PROVE  G
  BY <1>1, <1>10 DEF ObserveControl, HeartbeatReads, ExecutorReturns, ExecutorFails,
                     StoreError, Crash
<1>11. CASE Tick
  BY <1>11 DEF Tick, TypeOK
<1>12. ASSUME \/ UNCHANGED vars
              \/ \E s \in Run, target \in Status : SendControl(s, target)
       PROVE  G
  BY <1>1, <1>12 DEF vars, SendControl
<1> HIDE DEF G
<1>13. G
  BY <1>3, <1>4, <1>5, <1>6, <1>7, <1>9, <1>10, <1>11, <1>12 DEF Next, WorkerStep, G
<1>14. QED
  BY <1>13 DEF G

\* Appended records outrank the ones they replace, in the order by which the
\* store picks the newest record of a run.
LEMMA AppendsOutrank ==
    ASSUME NEW x \in RunRecord, NEW y, Appends(x, y)
    PROVE  x.status = "absent" \/ Outranks(y, x)
<1>1. x.revision \in Nat /\ x.leaseRevision \in Nat
  BY DEF RunRecord
<1>2. ASSUME NEW target, y = Transitioned(x, target)
      PROVE  y.revision = x.revision + 1
  BY <1>2 DEF Transitioned
<1>3. ASSUME NEW w, NEW takeover, y = ClaimedBy(x, w, takeover)
      PROVE  y.revision = x.revision + 1
  BY <1>3 DEF ClaimedBy
<1>4. ASSUME y = Renewed(x)
      PROVE  y.revision = x.revision /\ y.leaseRevision = x.leaseRevision + 1
  BY <1>4 DEF Renewed, RunRecord
<1>5. ASSUME y = Finalized(x)
      PROVE  y.revision = x.revision + 1
  BY <1>5 DEF Finalized
<1>6. ASSUME NEW status, y = AnsweredWith(x, status)
      PROVE  y.revision = x.revision + 1
  BY <1>6 DEF AnsweredWith
<1>7. \/ x.status = "absent"
      \/ y.revision = x.revision + 1
      \/ y.revision = x.revision /\ y.leaseRevision = x.leaseRevision + 1
  BY <1>2, <1>3, <1>4, <1>5, <1>6 DEF Appends
<1>8. QED
  BY <1>1, <1>7 DEF Outranks

\* Completed and cancelled runs are final.
THEOREM TerminalFinality == Spec => TerminalIsFinal
<1>1. ASSUME NEW x, NEW y, Appends(x, y)
      PROVE  x.status \notin Terminal
  BY <1>1 DEF Appends, Transitions, Terminal, Pending
<1>2. TypeOK /\ [Next]_vars =>
        [\A r \in Run : run[r].status \in Terminal => run'[r] = run[r]]_vars
  BY <1>1, StepAppends
<1>3. QED
  BY <1>2, TypeCorrect, PTL DEF Spec, TerminalIsFinal

-----------------------------------------------------------------------------
(* What follows from the appended records alone. *)

LEMMA AppendedIsNotAbsent ==
    ASSUME NEW x, NEW y, Appends(x, y)
    PROVE  y.status # "absent"
<1>1. Created.status = "queued"
  BY DEF Created
<1>2. \A target \in Fencing : Transitioned(x, target).status # "absent"
  BY DEF Transitioned, Fencing
<1>3. \A w, takeover : ClaimedBy(x, w, takeover).status = "running"
  BY DEF ClaimedBy
<1>4. x.status = "running" => Renewed(x).status # "absent"
  BY DEF Renewed
<1>5. Finalized(x).status # "absent"
  BY DEF Finalized
<1>6. \A status \in Answered : AnsweredWith(x, status).status # "absent"
  BY DEF AnsweredWith, Answered
<1>7. QED
  BY <1>1, <1>2, <1>3, <1>4, <1>5, <1>6 DEF Appends

\* Read as columns: what an append does to status, revision and claim.
Columns(x, y) ==
    /\ x.status # "absent" => y.revision >= x.revision
    /\ x.status # "absent" /\ y.status # x.status => y.revision > x.revision
    /\ y.status # "running" => y.claim = NoClaim
    /\ y.status = "running" =>
          \/ \E w \in Worker : y.claim = [holder |-> w, token |-> x.leaseRevision + 1]
          \/ x.status = "running" /\ y.claim = x.claim
    /\ y.status = "failed" => y.failure = "executor_failed"
    /\ y.status # "failed" =>
          \/ y.failure = "none"
          \/ x.status \in {"queued", "running"} /\ y.failure = x.failure

\* How the columns of an appended record follow from those of the record before.
LEMMA AppendedColumns ==
    ASSUME NEW x \in RunRecord, NEW y, Appends(x, y)
    PROVE  Columns(x, y)
<1> USE DEF Columns
<1>0. x.revision \in Nat /\ x.leaseRevision \in Nat
  BY DEF RunRecord
<1>1. CASE x.status = "absent" /\ y = Created
  BY <1>1 DEF Created
<1>2. ASSUME NEW target \in Fencing, y = Transitioned(x, target)
      PROVE  Columns(x, y)
  BY <1>0, <1>2 DEF Transitioned, Fencing
<1>3. ASSUME NEW w \in Worker, NEW takeover \in BOOLEAN, y = ClaimedBy(x, w, takeover),
             x.status = IF takeover THEN "running" ELSE "queued"
      PROVE  Columns(x, y)
  BY <1>0, <1>3 DEF ClaimedBy
<1>4. CASE x.status = "running" /\ y = Renewed(x)
  <2>1. /\ y.status = x.status /\ y.revision = x.revision
        /\ y.claim = x.claim /\ y.failure = x.failure
    BY <1>4 DEF Renewed, RunRecord
  <2>2. QED
    BY <1>0, <1>4, <2>1
<1>5. CASE y = Finalized(x)
  BY <1>0, <1>5 DEF Finalized
<1>6. ASSUME NEW status \in Answered, y = AnsweredWith(x, status)
      PROVE  Columns(x, y)
  BY <1>0, <1>6 DEF AnsweredWith, Answered
<1>7. QED
  BY <1>1, <1>2, <1>3, <1>4, <1>5, <1>6 DEF Appends

\* No step leaves columns behind in a run that was never created.
LEMMA AbsentStep ==
    ASSUME TypeOK, [Next]_vars, \A r \in Run : AbsentFits(r)
    PROVE  \A r \in Run : AbsentFits(r)'
BY StepAppends, AppendedIsNotAbsent DEF AbsentFits

\* Every step keeps status, claim and failure reason in agreement.
LEMMA CoherentStep ==
    ASSUME TypeOK, [Next]_vars, RecordsCoherent
    PROVE  RecordsCoherent'
<1> SUFFICES ASSUME NEW r \in Run, Appends(run[r], run'[r])
             PROVE  /\ run'[r].status = "running" <=> run'[r].claim # NoClaim
                    /\ run'[r].claim # NoClaim <=> run'[r].claim.holder # None
                    /\ run'[r].claim # NoClaim <=> run'[r].claim.token # 0
                    /\ run'[r].status = "failed" <=> run'[r].failure # "none"
  BY StepAppends DEF RecordsCoherent
<1> DEFINE x == run[r]
           y == run'[r]
<1>1. x \in RunRecord /\ x.leaseRevision \in Nat
  BY DEF TypeOK, RunRecord
<1>2. /\ x.status = "running" <=> x.claim # NoClaim
      /\ x.claim # NoClaim <=> x.claim.holder # None
      /\ x.claim # NoClaim <=> x.claim.token # 0
      /\ x.status = "failed" <=> x.failure # "none"
  BY DEF RecordsCoherent
<1>3. \A w \in Worker, n \in Nat :
        LET c == [holder |-> w, token |-> n + 1]
        IN  c # NoClaim /\ c.holder # None /\ c.token # 0
  BY ConstantsAssumption DEF NoClaim
<1>4. NoClaim.holder = None /\ NoClaim.token = 0
  BY DEF NoClaim
<1> HIDE DEF x, y
<1>5. Appends(x, y)
  BY DEF x, y
<1>6. /\ y.status = "running" <=> y.claim # NoClaim
      /\ y.claim # NoClaim <=> y.claim.holder # None
      /\ y.claim # NoClaim <=> y.claim.token # 0
  <2>1. Columns(x, y)
    BY <1>1, <1>5, AppendedColumns
  <2>2. CASE y.status # "running"
    BY <1>4, <2>1, <2>2 DEF Columns
  <2>3. CASE y.status = "running"
    <3>1. CASE x.status = "running" /\ y.claim = x.claim
      BY <1>2, <2>3, <3>1
    <3>2. ASSUME NEW w \in Worker, y.claim = [holder |-> w, token |-> x.leaseRevision + 1]
          PROVE  y.claim # NoClaim /\ y.claim.holder # None /\ y.claim.token # 0
      BY <1>1, <1>3, <3>2
    <3>3. QED
      BY <2>1, <2>3, <3>1, <3>2 DEF Columns
  <2>4. QED
    BY <2>2, <2>3
<1>7. y.status = "failed" <=> y.failure # "none"
  BY <1>1, <1>2, <1>5, AppendedColumns DEF Columns
<1>8. QED
  BY <1>6, <1>7 DEF y

\* The public revision of a run never falls, and rises when the status changes.
LEMMA RevisionStep ==
    ASSUME TypeOK, [Next]_vars, NEW r \in Run, AbsentFits(r)
    PROVE  /\ run[r].revision \in Nat /\ run'[r].revision \in Nat
           /\ run'[r].revision >= run[r].revision
           /\ run'[r].status # run[r].status => run'[r].revision > run[r].revision
<1>1. run[r] \in RunRecord /\ run'[r] \in RunRecord
  BY TypeStep DEF TypeOK
<1>2. run[r].revision \in Nat /\ run'[r].revision \in Nat
  BY <1>1 DEF RunRecord
<1>3. CASE run'[r] = run[r]
  BY <1>2, <1>3
<1>4. CASE run[r].status = "absent" /\ run'[r] = Created
  BY <1>4 DEF AbsentFits, Absent, Created
<1>5. CASE run[r].status # "absent" /\ Appends(run[r], run'[r])
  BY <1>1, <1>2, <1>5, AppendedColumns DEF Columns
<1>6. run[r].status = "absent" /\ Appends(run[r], run'[r]) => run'[r] = Created
  BY DEF Appends, Transitions, Pending
<1>7. QED
  BY <1>2, <1>3, <1>4, <1>5, <1>6, StepAppends

\* Only a user sends requests.
LEMMA RequestsChange ==
    ASSUME [Next]_vars
    PROVE  \/ UNCHANGED requests
           \/ \E r \in Run, target \in Status : SendControl(r, target)
BY DEF Next, vars, CreateRun, TransitionRun, WorkerStep, ObserveControl, ClaimRun,
       HeartbeatReads, RenewRunLease, FinalizeRequestedLifecycle, ExecutorReturns,
       ExecutorFails, StoreError, CommitTaskResult, RecordTaskFailure, Crash, Tick

\* A request that was made from the truth stays so, or its run has moved on.
LEMMA RequestStep ==
    ASSUME TypeOK, [Next]_vars, \A r \in Run : AbsentFits(r),
           \A q \in requests : RequestFits(q)
    PROVE  \A q \in requests' : RequestFits(q)'
<1>1. ASSUME NEW q \in requests
      PROVE  RequestFits(q)'
  <2>1. q.run \in Run /\ q.expected \in Nat
    BY DEF TypeOK, Request
  <2>2. QED
    BY <2>1, RevisionStep DEF RequestFits
<1>2. ASSUME NEW r \in Run, NEW target \in Status, SendControl(r, target)
      PROVE  \A q \in requests' : RequestFits(q)'
  <2>1. run[r].revision \in Nat
    BY DEF TypeOK, RunRecord
  <2> DEFINE new == [run |-> r, target |-> target, expected |-> run[r].revision,
                     seen |-> run[r].status]
  <2>2. requests' = requests \cup {new} /\ run' = run
    BY <1>2 DEF SendControl
  <2>3. RequestFits(new)'
    BY <2>1, <2>2 DEF RequestFits
  <2>4. QED
    BY <1>1, <2>2, <2>3
<1>3. QED
  BY <1>1, <1>2, RequestsChange

-----------------------------------------------------------------------------
(* Epochs, holders and receipts. *)

Live == Answered \cup {"running"}

\* The numbers the fencing argument compares are naturals.
LEMMA EpochTypes ==
    ASSUME TypeOK
    PROVE  /\ \A r \in Run : /\ run[r].epoch \in Nat
                             /\ receipts[r] \in Seq(Receipt)
                             /\ Len(receipts[r]) \in Nat
                             /\ \A i \in 1..Len(receipts[r]) : receipts[r][i].epoch \in Nat
           /\ \A w \in Worker : /\ job[w].epoch \in Nat
                                /\ Holding(w) => job[w].run \in Run
<1>1. ASSUME NEW r \in Run
      PROVE  /\ run[r].epoch \in Nat
             /\ receipts[r] \in Seq(Receipt)
             /\ Len(receipts[r]) \in Nat
             /\ \A i \in 1..Len(receipts[r]) : receipts[r][i].epoch \in Nat
  <2>1. run[r].epoch \in Nat
    BY DEF TypeOK, RunRecord
  <2>2. receipts[r] \in Seq(Receipt)
    BY DEF TypeOK
  <2>3. \A i \in 1..Len(receipts[r]) : receipts[r][i] \in Receipt
    BY <2>2
  <2>4. QED
    BY <2>1, <2>2, <2>3 DEF Receipt
<1>2. ASSUME NEW w \in Worker
      PROVE  job[w].epoch \in Nat /\ (Holding(w) => job[w].run \in Run)
  BY DEF TypeOK, Job, Holding, HoldingPoints
<1>3. QED
  BY <1>1, <1>2

\* A run that is not answered needs no more than ReceiptsFit says.
LEMMA UnansweredMatches ==
    ASSUME NEW r \in Run, ReceiptsFit(r), run[r].status \notin Answered
    PROVE  ~Answers(r, "accepted") /\ ~Answers(r, "failed")
BY DEF ReceiptsFit, Answers

\* No worker obtains a claim in this step.
NobodyClaims ==
    \A w \in Worker : Holding(w)' => Holding(w) /\ job'[w] = job[w]

\* The record of r moves without being claimed or answered.
MovesUnanswered(r) ==
    \/ /\ run'[r].epoch = run[r].epoch
       /\ run'[r].status = run[r].status
       /\ run'[r].claim = run[r].claim
    \/ /\ run'[r].epoch = run[r].epoch
       /\ run[r].status \notin Live /\ run'[r].status \notin Live
    \/ /\ run'[r].epoch > run[r].epoch
       /\ run'[r].status \notin Live

\* Steps that neither claim a run nor add a receipt keep the fencing.
LEMMA UnansweredStep ==
    ASSUME TypeOK, TypeOK', FencingInvariant, NobodyClaims, UNCHANGED receipts,
           \A r \in Run : MovesUnanswered(r)
    PROVE  FencingInvariant'
<1>1. EpochsAreExclusive'
  BY DEF FencingInvariant, EpochsAreExclusive, NobodyClaims
<1>2. OneReceiptPerAttempt'
  BY DEF FencingInvariant, OneReceiptPerAttempt
<1>3. ASSUME NEW r \in Run
      PROVE  ReceiptsFit(r)'
  <2>1. ReceiptsFit(r) /\ MovesUnanswered(r)
    BY DEF FencingInvariant
  <2>2. run[r].epoch \in Nat /\ run'[r].epoch \in Nat
    BY DEF TypeOK, RunRecord
  <2>3. \A i \in 1..Len(receipts[r]) : receipts[r][i].epoch \in Nat
    BY EpochTypes
  <2>4. QED
    BY <2>1, <2>2, <2>3 DEF ReceiptsFit, MovesUnanswered, Live
<1>4. StatusMatchesReceipts'
  <2> SUFFICES ASSUME NEW r \in Run
               PROVE  /\ run'[r].status \in {"completed", "needs_review"} <=> Answers(r, "accepted")'
                      /\ run'[r].status = "failed" <=> Answers(r, "failed")'
    BY DEF StatusMatchesReceipts
  <2>1. CASE run'[r].status \in Answered
    BY <2>1 DEF MovesUnanswered, Live, FencingInvariant, StatusMatchesReceipts, Answers
  <2>2. CASE run'[r].status \notin Answered
    <3>1. ~Answers(r, "accepted")' /\ ~Answers(r, "failed")'
      BY <1>3, <2>2 DEF ReceiptsFit, Answers
    <3>2. QED
      BY <2>2, <3>1 DEF Answered
  <2>3. QED
    BY <2>1, <2>2
<1>5. ASSUME NEW w \in Worker
      PROVE  HolderFits(w)'
  <2> SUFFICES ASSUME Holding(w)'
               PROVE  /\ job[w].epoch <= run'[job[w].run].epoch
                      /\ job[w].epoch = run'[job[w].run].epoch =>
                            \/ NamesHolder(w)'
                            \/ HasReceipt(job[w].run, job[w].epoch)'
    BY DEF HolderFits, NobodyClaims
  <2> DEFINE r == job[w].run
  <2>1. Holding(w) /\ job'[w] = job[w] /\ HolderFits(w)
    BY DEF NobodyClaims, FencingInvariant
  <2>2. r \in Run /\ job[w].epoch \in Nat /\ run[r].epoch \in Nat
    BY <2>1, EpochTypes
  <2>3. run'[r].epoch \in Nat
    BY <2>2 DEF TypeOK, RunRecord
  <2>4. /\ job[w].epoch <= run[r].epoch
        /\ job[w].epoch = run[r].epoch => NamesHolder(w) \/ HasReceipt(r, job[w].epoch)
    BY <2>1 DEF HolderFits
  <2>5. HasReceipt(r, job[w].epoch)' = HasReceipt(r, job[w].epoch)
    BY <2>1 DEF HasReceipt
  <2>6. MovesUnanswered(r)
    BY <2>2
  <2>7. NamesHolder(w) => run[r].status = "running"
    BY DEF NamesHolder
  <2>8. run'[r].status = run[r].status /\ run'[r].claim = run[r].claim /\ NamesHolder(w)
           => NamesHolder(w)'
    BY <2>1 DEF NamesHolder
  <2>9. QED
    BY <2>1, <2>2, <2>3, <2>4, <2>5, <2>6, <2>7, <2>8 DEF MovesUnanswered, Live
<1>6. QED
  BY <1>1, <1>2, <1>3, <1>4, <1>5 DEF FencingInvariant

\* A claim keeps the fencing: its epoch is new, or nobody has worked under it.
LEMMA ClaimStep ==
    ASSUME TypeOK, TypeOK', FencingInvariant,
           NEW w \in Worker, NEW r \in Run, NEW d \in 0..Lag, ClaimRun(w, r, d)
    PROVE  FencingInvariant'
<1> DEFINE takeover == Expired(run[r], lease[r], d)
           epoch == IF takeover THEN run[r].epoch + 1 ELSE run[r].epoch
           token == run[r].leaseRevision + 1
<1>1. /\ takeover \/ run[r].status = "queued"
      /\ takeover => run[r].status = "running"
      /\ receipts' = receipts
      /\ pc' = [pc EXCEPT ![w] = "executing"]
      /\ job' = [job EXCEPT ![w] = [run |-> r, epoch |-> epoch, token |-> token]]
  BY DEF ClaimRun, Expired, ClaimedBy
<1>2. \A s \in Run : s # r => run'[s] = run[s]
  BY DEF ClaimRun, TypeOK
<1>3. /\ run'[r].status = "running" /\ run'[r].epoch = epoch
      /\ run'[r].claim = [holder |-> w, token |-> token]
  BY DEF ClaimRun, TypeOK, ClaimedBy
<1>4. run[r].epoch \in Nat /\ epoch \in Nat
  BY EpochTypes
<1>5. \A i \in 1..Len(receipts[r]) : receipts[r][i].epoch # epoch
  <2>1. \A i \in 1..Len(receipts[r]) : receipts[r][i].epoch \in Nat
    BY EpochTypes
  <2>2. ReceiptsFit(r)
    BY DEF FencingInvariant
  <2>3. QED
    BY <1>1, <1>4, <2>1, <2>2 DEF ReceiptsFit, Answered
\* The new epoch is nobody else's.
<1>6. ASSUME NEW v \in Worker, v # w, Holding(v), job[v].run = r
      PROVE  job[v].epoch < epoch
  <2>1. HolderFits(v) /\ job[v].epoch \in Nat
    BY EpochTypes DEF FencingInvariant
  <2>2. CASE takeover
    BY <1>4, <1>6, <2>1, <2>2 DEF HolderFits
  <2>3. CASE ~takeover
    <3>1. ~NamesHolder(v)
      BY <1>1, <1>6, <2>3 DEF NamesHolder
    <3>2. ~HasReceipt(r, epoch)
      BY <1>5 DEF HasReceipt
    <3>3. QED
      BY <1>4, <1>6, <2>1, <2>3, <3>1, <3>2 DEF HolderFits
  <2>4. QED
    BY <2>2, <2>3
<1>7. /\ job'[w] = [run |-> r, epoch |-> epoch, token |-> token]
      /\ \A v \in Worker : v # w => job'[v] = job[v] /\ (Holding(v)' <=> Holding(v))
  BY <1>1 DEF TypeOK, Holding
<1> HIDE DEF takeover, epoch, token
<1>8. EpochsAreExclusive'
  <2> SUFFICES ASSUME NEW u \in Worker, NEW v \in Worker, u # v,
                      Holding(u)', Holding(v)',
                      job'[u].run = job'[v].run, job'[u].epoch = job'[v].epoch
               PROVE  FALSE
    BY DEF EpochsAreExclusive
  <2>1. CASE u # w /\ v # w
    BY <1>7, <2>1 DEF FencingInvariant, EpochsAreExclusive
  <2>2. CASE u = w
    <3>1. Holding(v) /\ job[v].run = r /\ job[v].epoch = epoch
      BY <1>7, <2>2
    <3>2. QED
      BY <1>4, <1>6, <2>2, <3>1
  <2>3. CASE v = w
    <3>1. Holding(u) /\ job[u].run = r /\ job[u].epoch = epoch
      BY <1>7, <2>3
    <3>2. QED
      BY <1>4, <1>6, <2>3, <3>1
  <2>4. QED
    BY <2>1, <2>2, <2>3
<1>9. OneReceiptPerAttempt'
  BY <1>1 DEF FencingInvariant, OneReceiptPerAttempt
<1>10. ASSUME NEW s \in Run
       PROVE  ReceiptsFit(s)'
  <2>1. CASE s # r
    BY <1>1, <1>2, <2>1 DEF FencingInvariant, ReceiptsFit
  <2>2. CASE s = r
    <3>1. ReceiptsFit(r) /\ \A i \in 1..Len(receipts[r]) : receipts[r][i].epoch \in Nat
      BY EpochTypes DEF FencingInvariant
    <3>2. epoch >= run[r].epoch
      BY <1>4 DEF epoch
    <3>3. QED
      BY <1>1, <1>3, <1>4, <1>5, <2>2, <3>1, <3>2 DEF ReceiptsFit
  <2>3. QED
    BY <2>1, <2>2
<1>11. StatusMatchesReceipts'
  <2> SUFFICES ASSUME NEW s \in Run
               PROVE  /\ run'[s].status \in {"completed", "needs_review"} <=> Answers(s, "accepted")'
                      /\ run'[s].status = "failed" <=> Answers(s, "failed")'
    BY DEF StatusMatchesReceipts
  <2>1. CASE s # r
    BY <1>1, <1>2, <2>1 DEF FencingInvariant, StatusMatchesReceipts, Answers
  <2>2. CASE s = r
    BY <1>1, <1>3, <1>5, <2>2 DEF Answers
  <2>3. QED
    BY <2>1, <2>2
<1>12. ASSUME NEW v \in Worker
       PROVE  HolderFits(v)'
  <2>1. CASE v = w
    BY <1>3, <1>4, <1>7, <2>1 DEF HolderFits, NamesHolder
  <2>2. CASE v # w /\ Holding(v) /\ job[v].run = r
    <3>1. job[v].epoch < epoch /\ job[v].epoch \in Nat
      BY <1>6, <2>2, EpochTypes
    <3>2. QED
      BY <1>3, <1>4, <1>7, <2>2, <3>1 DEF HolderFits
  <2>3. CASE v # w /\ Holding(v) /\ job[v].run # r
    <3>1. job[v].run \in Run /\ HolderFits(v)
      BY <2>3, EpochTypes DEF FencingInvariant
    <3>2. run'[job[v].run] = run[job[v].run] /\ job'[v] = job[v]
      BY <1>2, <1>7, <2>3, <3>1
    <3>3. (NamesHolder(v) => NamesHolder(v)')
          /\ (HasReceipt(job[v].run, job[v].epoch) => HasReceipt(job[v].run, job[v].epoch)')
      BY <1>1, <3>2 DEF NamesHolder, HasReceipt
    <3>4. QED
      BY <2>3, <3>1, <3>2, <3>3 DEF HolderFits
  <2>4. CASE v # w /\ ~Holding(v)
    BY <1>7, <2>4 DEF HolderFits
  <2>5. QED
    BY <2>1, <2>2, <2>3, <2>4
<1>13. QED
  BY <1>8, <1>9, <1>10, <1>11, <1>12 DEF FencingInvariant

\* The elements of a sequence with one more at its end.
LEMMA AppendElements ==
    ASSUME NEW S, NEW s \in Seq(S), NEW e \in S
    PROVE  /\ Len(s) \in Nat
           /\ Len(Append(s, e)) = Len(s) + 1
           /\ \A i \in 1..Len(s) : Append(s, e)[i] = s[i]
           /\ Append(s, e)[Len(s) + 1] = e
OBVIOUS

\* Answers are given, and recorded as stale, by a worker that then stops or
\* goes on to record a failure under the same claim.
LEMMA AnswerStep ==
    ASSUME TypeOK, TypeOK', FencingInvariant, NobodyClaims,
           NEW w \in Worker, Holding(w), NEW d \in 0..Lag,
           NEW outcome \in {"accepted", "failed"},
           NEW status \in IF outcome = "accepted" THEN {"completed", "needs_review"}
                          ELSE {"failed"},
           Answer(w, d, outcome, status)
    PROVE  FencingInvariant'
<1> DEFINE r == job[w].run
           epoch == job[w].epoch
           current == CurrentClaim(run[r], lease[r], job[w], d)
           receipt == [epoch |-> epoch,
                       outcome |-> IF current THEN outcome ELSE "discarded_stale"]
           n == Len(receipts[r]) + 1
<1>1. /\ r \in Run /\ epoch \in Nat /\ run[r].epoch \in Nat
      /\ receipts[r] \in Seq(Receipt) /\ receipt \in Receipt
      /\ \A i \in 1..Len(receipts[r]) : receipts[r][i].epoch \in Nat
  BY EpochTypes DEF Receipt
<1>2. CASE HasReceipt(r, epoch)
  <2>1. UNCHANGED <<run, receipts>>
    BY <1>2 DEF Answer
  <2>2. \A s \in Run : MovesUnanswered(s)
    BY <2>1 DEF MovesUnanswered
  <2>3. QED
    BY <2>1, <2>2, UnansweredStep
<1>3. CASE ~HasReceipt(r, epoch)
  <2>1. /\ receipts' = [receipts EXCEPT ![r] = Append(receipts[r], receipt)]
        /\ current => run' = [run EXCEPT ![r] = AnsweredWith(run[r], status)]
        /\ ~current => run' = run
    BY <1>3 DEF Answer
  <2>2. current => run[r].status = "running" /\ run[r].epoch = epoch
    BY DEF CurrentClaim
  <2>3. \A s \in Run : s # r => run'[s] = run[s] /\ receipts'[s] = receipts[s]
    BY <2>1 DEF TypeOK
  <2>4. receipts'[r] = Append(receipts[r], receipt)
    BY <1>1, <2>1 DEF TypeOK
  <2>5. /\ n \in Nat /\ n > 0 /\ Len(receipts'[r]) = n
        /\ \A i \in 1..n-1 : receipts'[r][i] = receipts[r][i]
        /\ receipts'[r][n] = receipt
        /\ n - 1 = Len(receipts[r])
    BY <1>1, <2>4, AppendElements
  <2>6. /\ run'[r].epoch = run[r].epoch
        /\ run'[r].status = IF current THEN status ELSE run[r].status
        /\ ~current => run'[r].claim = run[r].claim
    BY <1>1, <2>1 DEF TypeOK, AnsweredWith
  <2>7. \A i \in 1..n-1 : receipts[r][i].epoch # epoch
    BY <1>3, <2>5 DEF HasReceipt
  <2>8. epoch <= run[r].epoch /\ (epoch = run[r].epoch => NamesHolder(w))
    BY <1>3 DEF FencingInvariant, HolderFits
  <2>9. NamesHolder(w) => run[r].status = "running"
    BY DEF NamesHolder
  <2>10. receipt.epoch = epoch
         /\ receipt.outcome = IF current THEN outcome ELSE "discarded_stale"
    OBVIOUS
  <2> HIDE DEF current, receipt, n, r, epoch
  <2>11. EpochsAreExclusive'
    BY DEF FencingInvariant, EpochsAreExclusive, NobodyClaims
  <2>12. OneReceiptPerAttempt'
    <3> SUFFICES ASSUME NEW s \in Run,
                        NEW i \in 1..Len(receipts'[s]), NEW j \in 1..Len(receipts'[s]),
                        receipts'[s][i].epoch = receipts'[s][j].epoch
                 PROVE  i = j
      BY DEF OneReceiptPerAttempt
    <3>1. CASE s # r
      BY <2>3, <3>1 DEF FencingInvariant, OneReceiptPerAttempt
    <3>2. CASE s = r /\ i # n /\ j # n
      <4>1. i \in 1..n-1 /\ j \in 1..n-1
        BY <2>5, <3>2
      <4>2. receipts[r][i].epoch = receipts[r][j].epoch
        BY <2>5, <3>2, <4>1
      <4>3. QED
        BY <1>1, <2>5, <4>1, <4>2 DEF FencingInvariant, OneReceiptPerAttempt
    <3>3. \A k \in 1..n : k # n => receipts'[r][k].epoch # receipts'[r][n].epoch
      <4>1. ASSUME NEW k \in 1..n, k # n
            PROVE  receipts'[r][k].epoch # receipts'[r][n].epoch
        <5>1. k \in 1..n-1
          BY <2>5, <4>1
        <5>2. QED
          BY <2>5, <2>7, <2>10, <5>1
      <4>2. QED
        BY <4>1
    <3>4. CASE s = r /\ (i = n \/ j = n)
      BY <2>5, <3>3, <3>4
    <3>5. QED
      BY <3>1, <3>2, <3>4
  <2>13. ASSUME NEW s \in Run
         PROVE  ReceiptsFit(s)'
    <3>1. ReceiptsFit(s)
      BY DEF FencingInvariant
    <3>2. CASE s # r
      BY <2>3, <3>1, <3>2 DEF ReceiptsFit
    <3>3. CASE s = r
      <4> SUFFICES ASSUME NEW i \in 1..n
                   PROVE  /\ receipts'[r][i].epoch <= run'[r].epoch
                          /\ receipts'[r][i].epoch = run'[r].epoch =>
                                \/ run'[r].status \in Answered
                                \/ /\ run'[r].status = "running"
                                   /\ receipts'[r][i].outcome = "discarded_stale"
        BY <2>5, <3>3 DEF ReceiptsFit
      <4>1. current => run'[r].status \in Answered
        BY <2>6 DEF Answered
      <4>2. CASE i = n
        BY <2>5, <2>6, <2>8, <2>9, <2>10, <4>1, <4>2
      <4>3. CASE i # n
        <5>1. i \in 1..n-1 /\ receipts'[r][i] = receipts[r][i]
          BY <2>5, <4>3
        <5>2. QED
          BY <2>5, <2>6, <3>1, <3>3, <4>1, <5>1 DEF ReceiptsFit
      <4>4. QED
        BY <4>2, <4>3
    <3>4. QED
      BY <3>2, <3>3
  <2>14. StatusMatchesReceipts'
    <3> SUFFICES ASSUME NEW s \in Run
                 PROVE  /\ run'[s].status \in {"completed", "needs_review"} <=> Answers(s, "accepted")'
                        /\ run'[s].status = "failed" <=> Answers(s, "failed")'
      BY DEF StatusMatchesReceipts
    <3>1. /\ run[s].status \in {"completed", "needs_review"} <=> Answers(s, "accepted")
          /\ run[s].status = "failed" <=> Answers(s, "failed")
      BY DEF FencingInvariant, StatusMatchesReceipts
    <3>2. CASE s # r
      BY <2>3, <3>1, <3>2 DEF Answers
    <3>3. CASE s = r /\ current
      \* The new receipt is the only one of the present epoch.
      <4>1. ASSUME NEW o
            PROVE  Answers(s, o)' <=> o = outcome
        BY <2>2, <2>5, <2>6, <2>7, <2>10, <3>3 DEF Answers
      <4>2. QED
        BY <2>6, <3>3, <4>1
    <3>4. CASE s = r /\ ~current
      <4>1. ASSUME NEW o \in {"accepted", "failed"}
            PROVE  Answers(s, o)' <=> Answers(s, o)
        <5>1. receipts'[r][n].outcome \notin {"accepted", "failed"}
          BY <2>5, <2>10, <3>4
        <5>2. Answers(s, o)' <=>
                  \E i \in 1..n : /\ receipts'[r][i].epoch = run[r].epoch
                                 /\ receipts'[r][i].outcome = o
          BY <2>5, <2>6, <3>4 DEF Answers
        <5>3. Answers(s, o) <=>
                  \E i \in 1..n-1 : /\ receipts[r][i].epoch = run[r].epoch
                                   /\ receipts[r][i].outcome = o
          BY <2>5, <3>4 DEF Answers
        <5>4. \A i \in 1..n : i \in 1..n-1 \/ i = n
          BY <2>5
        <5>5. \A i \in 1..n-1 : i \in 1..n
          BY <2>5
        <5>6. \A i \in 1..n-1 : receipts'[r][i] = receipts[r][i]
          BY <2>5
        <5>7. QED
          BY <4>1, <5>1, <5>2, <5>3, <5>4, <5>5, <5>6
      <4>2. QED
        BY <2>6, <3>1, <3>4, <4>1
    <3>5. QED
      BY <3>2, <3>3, <3>4
  <2>15. ASSUME NEW v \in Worker
         PROVE  HolderFits(v)'
    <3> SUFFICES ASSUME Holding(v)'
                 PROVE  /\ job[v].epoch <= run'[job[v].run].epoch
                        /\ job[v].epoch = run'[job[v].run].epoch =>
                              \/ NamesHolder(v)'
                              \/ HasReceipt(job[v].run, job[v].epoch)'
      BY DEF HolderFits, NobodyClaims
    <3>1. PICK s \in Run, e \in Nat : s = job[v].run /\ e = job[v].epoch
      BY EpochTypes DEF NobodyClaims
    <3>2. Holding(v) /\ job'[v] = job[v] /\ HolderFits(v)
      BY DEF NobodyClaims, FencingInvariant
    <3>3. e <= run[s].epoch /\ (e = run[s].epoch => NamesHolder(v) \/ HasReceipt(s, e))
      BY <3>1, <3>2 DEF HolderFits
    <3>4. HasReceipt(s, e) => HasReceipt(s, e)'
      <4>1. CASE s # r
        BY <2>3, <4>1 DEF HasReceipt
      <4>2. CASE s = r
        BY <2>5, <4>2 DEF HasReceipt
      <4>3. QED
        BY <4>1, <4>2
    <3>5. CASE s # r \/ ~current
      <4>1. /\ run'[s].epoch = run[s].epoch /\ run'[s].status = run[s].status
            /\ run'[s].claim = run[s].claim
        BY <2>3, <2>6, <3>5
      <4>2. NamesHolder(v) => NamesHolder(v)'
        BY <3>1, <3>2, <4>1 DEF NamesHolder
      <4>3. QED
        BY <3>1, <3>2, <3>3, <3>4, <4>1, <4>2
    <3>6. CASE s = r /\ current
      <4>1. n \in 1..Len(receipts'[s]) /\ receipts'[s][n].epoch = run'[s].epoch
        BY <2>2, <2>5, <2>6, <2>10, <3>6
      <4>2. e <= run'[s].epoch /\ (e = run'[s].epoch => HasReceipt(s, e)')
        BY <2>6, <3>3, <3>6, <4>1 DEF HasReceipt
      <4>3. QED
        BY <3>1, <3>2, <4>2
    <3>7. QED
      BY <3>5, <3>6
  <2>16. QED
    BY <2>11, <2>12, <2>13, <2>14, <2>15 DEF FencingInvariant
<1>4. QED
  BY <1>2, <1>3

\* The three kinds of step.
Unanswered ==
    /\ NobodyClaims
    /\ UNCHANGED receipts
    /\ \A r \in Run : MovesUnanswered(r)

Receipts(w) ==
    /\ NobodyClaims
    /\ Holding(w) /\ pc'[w] # pc[w]
    /\ \E d \in 0..Lag, outcome \in {"accepted", "failed"} :
       \E status \in IF outcome = "accepted" THEN {"completed", "needs_review"}
                     ELSE {"failed"} :
          Answer(w, d, outcome, status)

\* Every step claims a run, adds a receipt, or does neither.
LEMMA StepKinds ==
    ASSUME TypeOK, \A r \in Run : AbsentFits(r), [Next]_vars
    PROVE  \/ Unanswered
           \/ \E w \in Worker, r \in Run, d \in 0..Lag : ClaimRun(w, r, d)
           \/ \E w \in Worker : Receipts(w)
<1> USE DEF Unanswered
<1>2. ASSUME UNCHANGED <<run, receipts>>, NobodyClaims
      PROVE  Unanswered
  BY <1>2 DEF MovesUnanswered
<1>3. ASSUME NEW r \in Run, CreateRun(r)
      PROVE  Unanswered
  <2>1. run[r].epoch = 0 /\ run[r].status = "absent"
    BY <1>3 DEF CreateRun, AbsentFits, Absent
  <2>2. \A s \in Run : s # r => run'[s] = run[s]
    BY <1>3 DEF CreateRun, TypeOK
  <2>3. run'[r].epoch = 1 /\ run'[r].status = "queued"
    BY <1>3 DEF CreateRun, TypeOK, Created
  <2>4. \A s \in Run : MovesUnanswered(s)
    BY <2>1, <2>2, <2>3 DEF MovesUnanswered, Live, Answered
  <2>5. NobodyClaims /\ UNCHANGED receipts
    BY <1>3 DEF CreateRun, NobodyClaims, Holding
  <2>6. QED
    BY <2>4, <2>5
<1>4. ASSUME NEW q \in requests, TransitionRun(q)
      PROVE  Unanswered
  <2>1. q.run \in Run /\ q.target \in Fencing /\ run[q.run].epoch \in Nat
    BY EpochTypes DEF TypeOK, Request
  <2>2. \A s \in Run : s # q.run => run'[s] = run[s]
    BY <1>4 DEF TransitionRun, TypeOK
  <2>3. run'[q.run].epoch = run[q.run].epoch + 1 /\ run'[q.run].status = q.target
    BY <1>4, <2>1 DEF TransitionRun, TypeOK, Transitioned
  <2>4. \A s \in Run : MovesUnanswered(s)
    BY <2>1, <2>2, <2>3 DEF MovesUnanswered, Live, Answered, Fencing
  <2>5. NobodyClaims /\ UNCHANGED receipts
    BY <1>4 DEF TransitionRun, NobodyClaims, Holding
  <2>6. QED
    BY <2>4, <2>5
<1>5. ASSUME NEW w \in Worker, NEW d \in 0..Lag, RenewRunLease(w, d)
      PROVE  Unanswered
  <2>1. job[w].run \in Run /\ run[job[w].run] \in RunRecord
    BY <1>5 DEF RenewRunLease, TypeOK
  <2>2. \A s \in Run : /\ run'[s].epoch = run[s].epoch /\ run'[s].status = run[s].status
                       /\ run'[s].claim = run[s].claim
    <3>1. ASSUME NEW x \in RunRecord
          PROVE  /\ Renewed(x).epoch = x.epoch /\ Renewed(x).status = x.status
                 /\ Renewed(x).claim = x.claim
      BY DEF Renewed, RunRecord
    <3>2. run' = run \/ run' = [run EXCEPT ![job[w].run] = Renewed(run[job[w].run])]
      BY <1>5 DEF RenewRunLease
    <3>3. QED
      BY <2>1, <3>1, <3>2 DEF TypeOK
  <2>3. NobodyClaims /\ UNCHANGED receipts
    BY <1>5 DEF RenewRunLease, TypeOK, NobodyClaims, Holding, HoldingPoints
  <2>4. QED
    BY <2>2, <2>3 DEF MovesUnanswered
<1>6. ASSUME NEW w \in Worker, FinalizeRequestedLifecycle(w)
      PROVE  Unanswered
  <2>1. job[w].run \in Run
    BY <1>6 DEF FinalizeRequestedLifecycle, TypeOK
  <2>2. \A s \in Run :
          \/ run'[s] = run[s]
          \/ /\ run[s].status \in Pending /\ run'[s].status \in {"paused", "cancelled"}
             /\ run'[s].epoch = run[s].epoch
    BY <1>6, <2>1 DEF FinalizeRequestedLifecycle, TypeOK, Finalized
  <2>3. \A s \in Run : MovesUnanswered(s)
    BY <2>2 DEF MovesUnanswered, Live, Answered, Pending
  <2>4. NobodyClaims /\ UNCHANGED receipts
    <3>1. CASE pc[w] = "observed"
      BY <1>6, <3>1 DEF FinalizeRequestedLifecycle, TypeOK, NobodyClaims, Holding, HoldingPoints
    <3>2. CASE pc[w] \in {"finalizing", "settling"}
      BY <1>6, <3>2 DEF FinalizeRequestedLifecycle, TypeOK, NobodyClaims, Holding, HoldingPoints
    <3>3. QED
      BY <1>6, <3>1, <3>2 DEF FinalizeRequestedLifecycle
  <2>5. QED
    BY <2>3, <2>4
<1>7. ASSUME NEW w \in Worker, NEW d \in 0..Lag, NEW status \in {"completed", "needs_review"},
             NEW acknowledged \in BOOLEAN, CommitTaskResult(w, d, status, acknowledged)
      PROVE  Receipts(w)
  <2>1. Holding(w) /\ Answer(w, d, "accepted", status)
    BY <1>7 DEF CommitTaskResult, Holding, HoldingPoints
  <2>2. NobodyClaims /\ pc'[w] # pc[w]
    <3>1. CASE acknowledged
      BY <1>7, <3>1 DEF CommitTaskResult, TypeOK, NobodyClaims, Holding, HoldingPoints
    <3>2. CASE ~acknowledged
      BY <1>7, <3>2 DEF CommitTaskResult, TypeOK, NobodyClaims, Holding, HoldingPoints
    <3>3. QED
      BY <3>1, <3>2
  <2>3. QED
    BY <2>1, <2>2 DEF Receipts
<1>8. ASSUME NEW w \in Worker, NEW d \in 0..Lag, RecordTaskFailure(w, d)
      PROVE  Receipts(w)
  <2>1. Holding(w) /\ Answer(w, d, "failed", "failed")
    BY <1>8 DEF RecordTaskFailure, Holding, HoldingPoints
  <2>2. NobodyClaims /\ pc'[w] # pc[w]
    BY <1>8 DEF RecordTaskFailure, TypeOK, NobodyClaims, Holding, HoldingPoints
  <2>3. QED
    BY <2>1, <2>2 DEF Receipts
<1>9. ASSUME NEW w \in Worker,
             \/ \E r \in Run : ObserveControl(w, r)
             \/ HeartbeatReads(w) \/ ExecutorReturns(w) \/ ExecutorFails(w)
             \/ StoreError(w) \/ Crash(w)
      PROVE  Unanswered
  <2> USE DEF TypeOK, NobodyClaims, Holding, HoldingPoints
  <2>1. CASE \E r \in Run : ObserveControl(w, r)
    BY <1>2, <2>1 DEF ObserveControl
  <2>2. CASE HeartbeatReads(w)
    BY <1>2, <2>2 DEF HeartbeatReads
  <2>3. CASE ExecutorReturns(w)
    BY <1>2, <2>3 DEF ExecutorReturns
  <2>4. CASE ExecutorFails(w)
    BY <1>2, <2>4 DEF ExecutorFails
  <2>5. CASE StoreError(w)
    BY <1>2, <2>5 DEF StoreError
  <2>6. CASE Crash(w)
    BY <1>2, <2>6 DEF Crash
  <2>7. QED
    BY <1>9, <2>1, <2>2, <2>3, <2>4, <2>5, <2>6
<1>10. ASSUME \/ UNCHANGED vars \/ Tick
              \/ \E r \in Run, target \in Status : SendControl(r, target)
       PROVE  Unanswered
  BY <1>2, <1>10 DEF vars, Tick, SendControl, NobodyClaims, Holding
<1>11. QED
  BY <1>3, <1>4, <1>5, <1>6, <1>7, <1>8, <1>9, <1>10 DEF Next, WorkerStep

\* Every step keeps the fencing.
LEMMA FencingStep ==
    ASSUME TypeOK, FencingInvariant, \A r \in Run : AbsentFits(r), [Next]_vars
    PROVE  FencingInvariant'
<1>1. TypeOK'
  BY TypeStep
<1>2. CASE Unanswered
  BY <1>1, <1>2, UnansweredStep DEF Unanswered
<1>3. ASSUME NEW w \in Worker, Receipts(w)
      PROVE  FencingInvariant'
  BY <1>1, <1>3, AnswerStep DEF Receipts
<1>4. QED
  BY <1>1, <1>2, <1>3, ClaimStep, StepKinds

-----------------------------------------------------------------------------
(* Accepted results. *)

\* A run that has its answer loses it only to a request.
LEMMA AnsweredStays ==
    ASSUME TypeOK, [Next]_vars, applied' = applied,
           NEW r \in Run, run[r].status \in {"completed", "needs_review"}
    PROVE  run'[r] = run[r]
<1> USE DEF TypeOK
<1>1. ASSUME NEW w \in Worker, NEW d \in 0..Lag,
             NEW outcome, NEW status, Answer(w, d, outcome, status)
      PROVE  run'[r] = run[r]
  BY <1>1 DEF Answer, CurrentClaim
<1>2. ASSUME NEW s \in Run, CreateRun(s)
      PROVE  run'[r] = run[r]
  BY <1>2 DEF CreateRun
<1>3. ASSUME NEW q \in requests, TransitionRun(q)
      PROVE  FALSE
  BY <1>3 DEF TransitionRun
<1>4. ASSUME NEW w \in Worker, NEW s \in Run, NEW d \in 0..Lag, ClaimRun(w, s, d)
      PROVE  run'[r] = run[r]
  BY <1>4 DEF ClaimRun, Expired
<1>5. ASSUME NEW w \in Worker, NEW d \in 0..Lag, RenewRunLease(w, d)
      PROVE  run'[r] = run[r]
  BY <1>5 DEF RenewRunLease, CurrentClaim
<1>6. ASSUME NEW w \in Worker, FinalizeRequestedLifecycle(w)
      PROVE  run'[r] = run[r]
  BY <1>6 DEF FinalizeRequestedLifecycle, Pending
<1>7. ASSUME NEW w \in Worker, NEW d \in 0..Lag, NEW status \in {"completed", "needs_review"},
             NEW acknowledged \in BOOLEAN, CommitTaskResult(w, d, status, acknowledged)
      PROVE  run'[r] = run[r]
  BY <1>1, <1>7 DEF CommitTaskResult
<1>8. ASSUME NEW w \in Worker, NEW d \in 0..Lag, RecordTaskFailure(w, d)
      PROVE  run'[r] = run[r]
  BY <1>1, <1>8 DEF RecordTaskFailure
<1>9. ASSUME NEW w \in Worker,
             \/ \E s \in Run : ObserveControl(w, s)
             \/ HeartbeatReads(w) \/ ExecutorReturns(w) \/ ExecutorFails(w)
             \/ StoreError(w) \/ Crash(w)
      PROVE  run'[r] = run[r]
  BY <1>9 DEF ObserveControl, HeartbeatReads, ExecutorReturns, ExecutorFails,
              StoreError, Crash
<1>10. CASE \/ UNCHANGED vars \/ Tick
            \/ \E s \in Run, target \in Status : SendControl(s, target)
  BY <1>10 DEF vars, Tick, SendControl
<1>11. QED
  BY <1>2, <1>3, <1>4, <1>5, <1>6, <1>7, <1>8, <1>9, <1>10 DEF Next, WorkerStep

\* Only the delivery of a request extends the ledger.
LEMMA AppliedChange ==
    ASSUME [Next]_vars
    PROVE  applied' = applied \/ \E q \in requests : TransitionRun(q)
BY DEF Next, vars, CreateRun, SendControl, WorkerStep, ObserveControl, ClaimRun,
       HeartbeatReads, RenewRunLease, FinalizeRequestedLifecycle, ExecutorReturns,
       ExecutorFails, StoreError, CommitTaskResult, RecordTaskFailure, Crash, Tick

\* The receipts of a run and the requests that reopened it can be counted.
LEMMA AcceptanceCounts ==
    ASSUME TypeOK, IsFiniteSet(applied), NEW r \in Run
    PROVE  /\ IsFiniteSet(AcceptedReceipts(r))
           /\ Cardinality(AcceptedReceipts(r)) \in Nat
           /\ IsFiniteSet(Reopened(r))
           /\ Cardinality(Reopened(r)) \in Nat
<1>1. Len(receipts[r]) \in Nat
  BY EpochTypes
<1>2. IsFiniteSet(1..Len(receipts[r]))
  BY <1>1, FS_Interval
<1>3. IsFiniteSet(AcceptedReceipts(r)) /\ IsFiniteSet(Reopened(r))
  BY <1>2, FS_Subset DEF AcceptedReceipts, Reopened
<1>4. QED
  BY <1>3, FS_CardinalityType

\* A run gives up an accepted receipt only to a request that saw it under review.
LEMMA RequestAcceptance ==
    ASSUME TypeOK, IsFiniteSet(applied), \A q \in requests : RequestFits(q),
           NEW q \in requests, TransitionRun(q), NEW r \in Run, AcceptanceFits(r)
    PROVE  AcceptanceFits(r)'
<1>1. /\ q \notin applied /\ applied' = applied \cup {q}
      /\ receipts' = receipts /\ q.run \in Run /\ q.target \in Fencing
      /\ <<run[q.run].status, q.target>> \in Transitions
      /\ run' = [run EXCEPT ![q.run] = Transitioned(run[q.run], q.target)]
  BY DEF TransitionRun, TypeOK, Request
<1>2. q.seen = run[q.run].status
  BY DEF TransitionRun, RequestFits
<1>3. AcceptedReceipts(r)' = AcceptedReceipts(r)
  BY <1>1 DEF AcceptedReceipts
<1>4. /\ IsFiniteSet(Reopened(r)) /\ Cardinality(Reopened(r)) \in Nat
      /\ Cardinality(AcceptedReceipts(r)) \in Nat
  BY AcceptanceCounts
<1>5. CASE q.run = r /\ q.seen = "needs_review"
  <2>1. Reopened(r)' = Reopened(r) \cup {q} /\ q \notin Reopened(r)
    BY <1>1, <1>5 DEF Reopened
  <2>2. Cardinality(Reopened(r)') = Cardinality(Reopened(r)) + 1
    BY <1>4, <2>1, FS_AddElement
  <2>3. QED
    BY <1>3, <1>4, <2>2 DEF AcceptanceFits
<1>6. CASE ~(q.run = r /\ q.seen = "needs_review")
  <2>1. Reopened(r)' = Reopened(r)
    BY <1>1, <1>6 DEF Reopened
  <2>2. run[r].status \in {"completed", "needs_review"}
            => run'[r].status \in {"completed", "needs_review"}
    <3>1. CASE q.run # r
      BY <1>1, <3>1 DEF TypeOK
    <3>2. CASE q.run = r
      BY <1>1, <1>2, <1>6, <3>2 DEF Transitions
    <3>3. QED
      BY <3>1, <3>2
  <2>3. QED
    BY <1>3, <1>4, <2>1, <2>2 DEF AcceptanceFits
<1>7. QED
  BY <1>5, <1>6

\* A receipt that is accepted is accepted by a run that was running.
LEMMA AnswerAcceptance ==
    ASSUME TypeOK, IsFiniteSet(applied), [Next]_vars, applied' = applied,
           NEW w \in Worker, Receipts(w), NEW r \in Run, AcceptanceFits(r)
    PROVE  AcceptanceFits(r)'
<1>1. Reopened(r)' = Reopened(r)
  BY DEF Reopened
<1>2. /\ Cardinality(Reopened(r)) \in Nat /\ IsFiniteSet(AcceptedReceipts(r))
      /\ Cardinality(AcceptedReceipts(r)) \in Nat
  BY AcceptanceCounts
<1>3. CASE AcceptedReceipts(r)' = AcceptedReceipts(r)
  <2>1. run[r].status \in {"completed", "needs_review"} => run'[r] = run[r]
    BY AnsweredStays
  <2>2. QED
    BY <1>1, <1>2, <1>3, <2>1 DEF AcceptanceFits
<1>4. CASE AcceptedReceipts(r)' # AcceptedReceipts(r)
  <2>1. PICK d \in 0..Lag, outcome \in {"accepted", "failed"} :
          \E status \in IF outcome = "accepted" THEN {"completed", "needs_review"}
                        ELSE {"failed"} :
             Answer(w, d, outcome, status)
    BY DEF Receipts
  <2>2. PICK status \in IF outcome = "accepted" THEN {"completed", "needs_review"}
                        ELSE {"failed"} :
             Answer(w, d, outcome, status)
    BY <2>1
  <2> DEFINE s == job[w].run
             current == CurrentClaim(run[s], lease[s], job[w], d)
             receipt == [epoch |-> job[w].epoch,
                         outcome |-> IF current THEN outcome ELSE "discarded_stale"]
             n == Len(receipts[s]) + 1
  <2>3. s \in Run /\ receipts[s] \in Seq(Receipt) /\ receipt \in Receipt
    BY EpochTypes DEF Receipts, Receipt
  <2>4. /\ receipts' = [receipts EXCEPT ![s] = Append(receipts[s], receipt)]
        /\ current => run' = [run EXCEPT ![s] = AnsweredWith(run[s], status)]
    BY <1>4, <2>2 DEF Answer, AcceptedReceipts
  <2>5. s = r
    BY <1>4, <2>3, <2>4 DEF TypeOK, AcceptedReceipts
  <2>6. receipts'[r] = Append(receipts[r], receipt)
    BY <2>3, <2>4, <2>5 DEF TypeOK
  <2>7. /\ n \in Nat /\ n > 0 /\ Len(receipts'[r]) = n
        /\ \A i \in 1..n-1 : receipts'[r][i] = receipts[r][i]
        /\ receipts'[r][n] = receipt
        /\ n - 1 = Len(receipts[r])
    BY <2>3, <2>5, <2>6, AppendElements
  <2>8. receipt.outcome = IF current THEN outcome ELSE "discarded_stale"
    OBVIOUS
  <2>9. current => run[r].status = "running"
    BY <2>5 DEF CurrentClaim
  <2>10. current => run'[r].status = status
    BY <2>3, <2>4, <2>5 DEF TypeOK, AnsweredWith
  <2> HIDE DEF current, receipt, n, s
  <2>11. AcceptedReceipts(r)' =
            {i \in 1..n : receipts'[r][i].outcome = "accepted"}
    BY <2>7 DEF AcceptedReceipts
  <2>12. AcceptedReceipts(r) =
            {i \in 1..n-1 : receipts[r][i].outcome = "accepted"}
    BY <2>7 DEF AcceptedReceipts
  <2>13. \A i : i \in 1..n <=> i \in 1..n-1 \/ i = n
    BY <2>7
  <2>14. n \notin 1..n-1
    BY <2>7
  <2>15. receipt.outcome = "accepted"
    BY <1>4, <2>7, <2>11, <2>12, <2>13
  <2>16. AcceptedReceipts(r)' = AcceptedReceipts(r) \cup {n} /\ n \notin AcceptedReceipts(r)
    BY <2>7, <2>11, <2>12, <2>13, <2>14, <2>15
  <2>17. Cardinality(AcceptedReceipts(r)') = Cardinality(AcceptedReceipts(r)) + 1
    BY <1>2, <2>16, FS_AddElement
  <2>18. current /\ outcome = "accepted"
    BY <2>8, <2>15
  <2>19. run[r].status = "running" /\ run'[r].status \in {"completed", "needs_review"}
    BY <2>2, <2>9, <2>10, <2>18
  <2>20. QED
    BY <1>1, <1>2, <2>17, <2>19 DEF AcceptanceFits
<1>5. QED
  BY <1>3, <1>4

\* Every step keeps the accepted receipts covered.
LEMMA AcceptanceStep ==
    ASSUME TypeOK, \A r \in Run : AbsentFits(r), \A q \in requests : RequestFits(q),
           IsFiniteSet(applied), \A r \in Run : AcceptanceFits(r), [Next]_vars
    PROVE  IsFiniteSet(applied)' /\ \A r \in Run : AcceptanceFits(r)'
<1>1. CASE \E q \in requests : TransitionRun(q)
  <2>1. PICK q \in requests : TransitionRun(q)
    BY <1>1
  <2>2. applied' = applied \cup {q}
    BY <2>1 DEF TransitionRun
  <2>3. IsFiniteSet(applied')
    BY <2>2, FS_AddElement
  <2>4. QED
    BY <2>1, <2>3, RequestAcceptance
<1>2. CASE applied' = applied
  <2>1. ASSUME NEW w \in Worker, Receipts(w), NEW r \in Run
        PROVE  AcceptanceFits(r)'
    BY <1>2, <2>1, AnswerAcceptance
  <2>2. ASSUME UNCHANGED receipts, NEW r \in Run
        PROVE  AcceptanceFits(r)'
    <3>1. AcceptedReceipts(r)' = AcceptedReceipts(r) /\ Reopened(r)' = Reopened(r)
      BY <1>2, <2>2 DEF AcceptedReceipts, Reopened
    <3>2. Cardinality(AcceptedReceipts(r)) \in Nat /\ Cardinality(Reopened(r)) \in Nat
      BY AcceptanceCounts
    <3>3. run[r].status \in {"completed", "needs_review"} => run'[r] = run[r]
      BY <1>2, AnsweredStays
    <3>4. QED
      BY <3>1, <3>2, <3>3 DEF AcceptanceFits
  <2>3. ASSUME NEW w \in Worker, NEW s \in Run, NEW d \in 0..Lag, ClaimRun(w, s, d)
        PROVE  UNCHANGED receipts
    BY <2>3 DEF ClaimRun
  <2>4. QED
    BY <1>2, <2>1, <2>2, <2>3, StepKinds DEF Unanswered
<1>3. QED
  BY <1>1, <1>2, AppliedChange

-----------------------------------------------------------------------------
(* The inductive invariant. *)

\* The inductive invariant holds before any run exists.
LEMMA InvariantInit == Init => InductiveInvariant
<1> SUFFICES ASSUME Init
             PROVE  InductiveInvariant
  OBVIOUS
<1>1. TypeOK
  BY TypeInit
<1>2. RecordsCoherent
  BY DEF Init, RecordsCoherent, Absent, NoClaim
<1>3. \A w \in Worker : ~Holding(w)
  BY DEF Init, Holding, HoldingPoints
<1>4. \A r \in Run : run[r] = Absent /\ Len(receipts[r]) = 0
  BY DEF Init
<1>5. FencingInvariant
  BY <1>3, <1>4 DEF FencingInvariant, EpochsAreExclusive, OneReceiptPerAttempt,
     StatusMatchesReceipts, Answers, HolderFits, ReceiptsFit, Absent
<1>6. /\ \A r \in Run : AbsentFits(r)
      /\ \A q \in requests : RequestFits(q)
  BY DEF Init, AbsentFits
<1>7. IsFiniteSet(applied)
  BY FS_EmptySet DEF Init
<1>8. ASSUME NEW r \in Run
      PROVE  AcceptanceFits(r)
  <2>1. AcceptedReceipts(r) = {} /\ Reopened(r) = {}
    BY <1>4 DEF Init, AcceptedReceipts, Reopened
  <2>2. QED
    BY <1>4, <2>1, FS_EmptySet DEF AcceptanceFits, Absent
<1>9. QED
  BY <1>1, <1>2, <1>5, <1>6, <1>7, <1>8 DEF InductiveInvariant

\* Every step preserves the inductive invariant.
LEMMA InvariantStep == InductiveInvariant /\ [Next]_vars => InductiveInvariant'
BY TypeStep, CoherentStep, FencingStep, AbsentStep, RequestStep, AcceptanceStep
   DEF InductiveInvariant

\* The inductive invariant holds in every reachable state.
THEOREM Invariance == Spec => []InductiveInvariant
<1>1. QED
  BY InvariantInit, InvariantStep, PTL DEF Spec

-----------------------------------------------------------------------------
(* The properties. *)

\* No two workers work under the same epoch of a run.
THEOREM EpochExclusivity == Spec => []EpochsAreExclusive
BY Invariance, PTL DEF InductiveInvariant, FencingInvariant

\* No attempt has two receipts.
THEOREM ReceiptUniqueness == Spec => []OneReceiptPerAttempt
BY Invariance, PTL DEF InductiveInvariant, FencingInvariant

\* The status of a run agrees with the receipts of its present epoch.
THEOREM ReceiptAgreement == Spec => []StatusMatchesReceipts
BY Invariance, PTL DEF InductiveInvariant, FencingInvariant

\* No result of a run is accepted beyond the first, except one for each time a user
\* took the run out of review.
THEOREM AcceptanceOnRequest == Spec => []AcceptedOnRequest
<1>1. InductiveInvariant => AcceptedOnRequest
  <2> SUFFICES ASSUME InductiveInvariant, NEW r \in Run
               PROVE  Cardinality(AcceptedReceipts(r)) <= 1 + Cardinality(Reopened(r))
    BY DEF AcceptedOnRequest, Reopened
  <2>1. Cardinality(AcceptedReceipts(r)) \in Nat /\ Cardinality(Reopened(r)) \in Nat
    BY AcceptanceCounts DEF InductiveInvariant
  <2>2. QED
    BY <2>1 DEF InductiveInvariant, AcceptanceFits
<1>2. QED
  BY <1>1, Invariance, PTL

\* The columns of a run's newest record agree.
THEOREM Coherence == Spec => []RecordsCoherent
BY Invariance, PTL DEF InductiveInvariant

\* Every append outranks the record it replaces.
THEOREM AppendOrder == Spec => AppendsSupersede
<1>1. InductiveInvariant /\ [Next]_vars =>
        [\A r \in Run : run'[r] # run[r] \/ lease'[r] > lease[r]
                           => Outranks(run'[r], run[r])]_vars
  <2> SUFFICES ASSUME InductiveInvariant, [Next]_vars, NEW r \in Run,
                      run'[r] # run[r] \/ lease'[r] > lease[r]
               PROVE  Outranks(run'[r], run[r])
    OBVIOUS
  <2>0. lease[r] \in Int /\ lease'[r] \in Int
    BY TypeStep DEF InductiveInvariant, TypeOK
  <2>1. run[r] \in RunRecord /\ Appends(run[r], run'[r]) /\ AbsentFits(r) /\ TypeOK
    BY <2>0, StepAppends, StepLease DEF InductiveInvariant, TypeOK
  <2>2. CASE run[r].status = "absent"
    <3>1. run'[r] = Created /\ run[r] = Absent
      BY <2>1, <2>2 DEF Appends, Transitions, Pending, AbsentFits
    <3>2. QED
      BY <3>1 DEF Created, Absent, Outranks
  <2>3. CASE run[r].status # "absent"
    BY <2>1, <2>3, AppendsOutrank
  <2>4. QED
    BY <2>2, <2>3
<1>2. QED
  BY <1>1, Invariance, PTL DEF Spec, AppendsSupersede

\* A request that takes effect acts on the status its sender saw.
THEOREM RequestFidelity == Spec => RequestsActOnWhatWasSeen
<1>1. InductiveInvariant /\ [Next]_vars =>
        [\A q \in applied' \ applied : run[q.run].status = q.seen]_vars
  <2> SUFFICES ASSUME InductiveInvariant, [Next]_vars, NEW q \in applied' \ applied
               PROVE  run[q.run].status = q.seen
    OBVIOUS
  <2>1. applied' # applied
    OBVIOUS
  <2>2. \E p \in requests : TransitionRun(p)
    BY <2>1 DEF Next, vars, CreateRun, SendControl, WorkerStep, ObserveControl, ClaimRun,
       HeartbeatReads, RenewRunLease, FinalizeRequestedLifecycle, ExecutorReturns,
       ExecutorFails, StoreError, CommitTaskResult, RecordTaskFailure, Crash, Tick
  <2>3. TransitionRun(q) /\ q \in requests
    BY <2>2 DEF TransitionRun
  <2>4. RequestFits(q) /\ run[q.run].revision = q.expected
    BY <2>3 DEF InductiveInvariant, TransitionRun
  <2>5. QED
    BY <2>4 DEF RequestFits
<1>2. QED
  BY <1>1, Invariance, PTL DEF Spec, RequestsActOnWhatWasSeen

\* Only the worker the store names as holder decides a run.
THEOREM HolderDecides == Spec => OnlyTheHolderAnswers
<1> DEFINE Decides(r) == \E w \in Worker : /\ run[r].claim.holder = w
                                          /\ job[w].run = r
                                          /\ Holding(w)
                                          /\ pc'[w] # pc[w]
<1>1. ASSUME InductiveInvariant, [Next]_vars, NEW r \in Run,
             run'[r].status \in Answered, run[r].status # run'[r].status
      PROVE  Decides(r)
  <2>1. TypeOK /\ FencingInvariant /\ \A s \in Run : AbsentFits(s)
    BY <1>1 DEF InductiveInvariant
  <2>2. ~Unanswered
    BY <1>1 DEF Unanswered, MovesUnanswered, Live
  <2>3. ASSUME NEW w \in Worker, NEW s \in Run, NEW d \in 0..Lag, ClaimRun(w, s, d)
        PROVE  FALSE
    BY <1>1, <2>1, <2>3 DEF ClaimRun, TypeOK, ClaimedBy, Answered
  <2>4. PICK w \in Worker : Receipts(w)
    BY <1>1, <2>1, <2>2, <2>3, StepKinds
  <2>5. PICK d \in 0..Lag, outcome \in {"accepted", "failed"}, status \in Answered : Answer(w, d, outcome, status)
    BY <2>4 DEF Receipts, Answered
  <2>6. Holding(w) /\ pc'[w] # pc[w] /\ job[w].run \in Run
    BY <2>1, <2>4, EpochTypes DEF Receipts
  <2>7. /\ ~HasReceipt(job[w].run, job[w].epoch)
        /\ CurrentClaim(run[job[w].run], lease[job[w].run], job[w], d)
        /\ run' = [run EXCEPT ![job[w].run] = AnsweredWith(run[job[w].run], status)]
    BY <1>1, <2>5 DEF Answer
  <2>8. job[w].run = r
    BY <1>1, <2>1, <2>6, <2>7 DEF TypeOK
  <2>9. NamesHolder(w)
    BY <2>1, <2>6, <2>7 DEF FencingInvariant, HolderFits, CurrentClaim
  <2>10. run[r].claim.holder = w
    BY <2>8, <2>9 DEF NamesHolder
  <2>11. QED
    BY <2>6, <2>8, <2>10
<1>2. InductiveInvariant /\ [Next]_vars =>
        [\A r \in Run :
            run'[r].status \in Answered /\ run[r].status # run'[r].status
                => \E w \in Worker : /\ run[r].claim.holder = w
                                     /\ job[w].run = r
                                     /\ Holding(w)
                                     /\ pc'[w] # pc[w]]_vars
  BY <1>1
<1>3. QED
  BY <1>2, Invariance, PTL DEF Spec, OnlyTheHolderAnswers
=============================================================================
