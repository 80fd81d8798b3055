---------------------------- MODULE ResearchRuns ----------------------------
(***************************************************************************)
(* The durable lifecycle of research runs: traittutor/research_workspace.  *)
(*                                                                         *)
(* Every operation of ResearchWorkspaceStore runs inside one BEGIN         *)
(* IMMEDIATE transaction, so each is one action here.  What is not atomic  *)
(* is everything around it: a worker observes, claims, executes, renews,   *)
(* settles and commits in separate transactions, may crash between any two *)
(* of them, and reads its clock before it takes the lock; a user decides   *)
(* on a snapshot and the decision arrives later, or twice, or never.       *)
(*                                                                         *)
(* Leases are wall-clock instants in the code and are only ever compared   *)
(* with a clock reading.  The model keeps the time a lease has left        *)
(* (lease_expires_at minus the present), and a reading taken d ticks ago   *)
(* sees d more ticks than are left.                                        *)
(***************************************************************************)
EXTENDS Integers, Sequences, FiniteSets

CONSTANTS
    Run,                \* run identities
    Worker,             \* executing threads: API background tasks, daemons
    None,               \* no worker: claimed_by is NULL
    Faulty,             \* the workers whose process may die
    LeaseTicks,         \* lease_seconds
    Lag,                \* how old a clock reading may be inside the lock
    HeartbeatsOnTime,   \* time does not outrun a living worker's heartbeat
    MaxEpoch,           \* bound: no lease takeover past this epoch
    MaxLeaseRevision,   \* bound: no renewal past this lease_revision
    MaxRequests         \* bound: user control requests sent

ASSUME ConstantsAssumption ==
    /\ None \notin Worker
    /\ Faulty \subseteq Worker
    /\ LeaseTicks \in Nat /\ Lag \in Nat /\ Lag < LeaseTicks
    /\ HeartbeatsOnTime \in BOOLEAN
    /\ MaxEpoch \in Nat /\ MaxLeaseRevision \in Nat /\ MaxRequests \in Nat

VARIABLES
    run,        \* run[r]: the record of r that the store reads back
    lease,      \* lease[r]: the time left until its lease_expires_at
    receipts,   \* receipts[r]: the task receipts of r, in append order
    requests,   \* control requests users have sent, delivered any number of times
    applied,    \* the idempotency ledger: requests whose transition is recorded
    pc,         \* pc[w]: where worker w is in run_once
    job         \* job[w]: the claim w works under

vars == <<run, lease, receipts, requests, applied, pc, job>>

-----------------------------------------------------------------------------
(* The closed transition table and the two sets derived from it. *)

Status == {"absent", "draft", "queued", "running", "pausing", "paused",
           "cancelling", "cancelled", "completed", "failed", "needs_review"}

Transitions ==
    ({"draft"} \X {"queued", "cancelled"})
    \cup ({"queued"} \X {"running", "paused", "cancelling", "cancelled", "failed"})
    \cup ({"running"} \X {"pausing", "cancelling", "completed", "failed", "needs_review"})
    \cup ({"pausing"} \X {"paused", "cancelling", "failed"})
    \cup ({"paused"} \X {"queued", "cancelling", "cancelled"})
    \cup ({"cancelling"} \X {"cancelled", "failed"})
    \cup ({"failed", "needs_review"} \X {"queued", "cancelled"})

Terminal == {"cancelled", "completed"}

\* Transitions into these advance the fence and drop the claim.
Fencing == {"pausing", "paused", "cancelling", "cancelled", "queued"}

\* What the pause, resume, retry and cancel endpoints ask for, per shown status.
Controls ==
    {<<"queued", "paused">>, <<"running", "pausing">>,
     <<"paused", "queued">>,
     <<"failed", "queued">>, <<"needs_review", "queued">>,
     <<"draft", "cancelled">>, <<"queued", "cancelled">>,
     <<"running", "cancelling">>, <<"pausing", "cancelling">>,
     <<"paused", "cancelled">>, <<"cancelling", "cancelled">>}

\* Requests a worker has to settle.
Pending == {"pausing", "cancelling"}

Answered == {"completed", "failed", "needs_review"}

-----------------------------------------------------------------------------
Claim == [holder : Worker \cup {None}, token : Nat]

NoClaim == [holder |-> None, token |-> 0]

RunRecord == [status : Status, revision : Nat, leaseRevision : Nat,
              epoch : Nat, claim : Claim, failure : {"none", "executor_failed"}]

Absent == [status |-> "absent", revision |-> 0, leaseRevision |-> 0,
           epoch |-> 0, claim |-> NoClaim, failure |-> "none"]

Receipt == [epoch : Nat, outcome : {"accepted", "failed", "discarded_stale"}]

Request == [run : Run, target : Fencing, expected : Nat, seen : Status]

Job == [run : Run \cup {None}, epoch : Nat, token : Nat]

NoJob == [run |-> None, epoch |-> 0, token |-> 0]

\* Program points of a worker that holds a claim it obtained.
HoldingPoints == {"executing", "renewing", "finalizing", "settling",
                  "committing", "failing"}

Points == HoldingPoints \cup {"idle", "observed"}

Holding(w) == pc[w] \in HoldingPoints

-----------------------------------------------------------------------------
(* What the store tells apart inside a transaction.  t is the time left of  *)
(* the lease, d the age of the caller's clock reading.                      *)

NeverExpired(x, t, d) == FALSE  \* variant: leases are not taken over

Expired(x, t, d) == x.status = "running" /\ x.claim # NoClaim /\ t + d <= 0

\* Variant: whatever claim is alive counts as the caller's.
CurrentClaimOfAnyone(x, t, j, d) == x.status = "running" /\ t + d > 0

\* _is_current_claim
CurrentClaim(x, t, j, d) ==
    /\ x.status = "running"
    /\ x.epoch = j.epoch
    /\ x.claim # NoClaim
    /\ x.claim.token = j.token
    /\ t + d > 0

\* Variant: only accepted receipts are looked up.
HasAcceptedReceipt(r, epoch) ==
    \E i \in 1..Len(receipts[r]) : /\ receipts[r][i].epoch = epoch
                                   /\ receipts[r][i].outcome = "accepted"

\* _accepted_receipt_for_task and _receipt_for_attempt
HasReceipt(r, epoch) == \E i \in 1..Len(receipts[r]) : receipts[r][i].epoch = epoch

\* The record create_run appends.
Created == [status |-> "queued", revision |-> 1, leaseRevision |-> 1,
            epoch |-> 1, claim |-> NoClaim, failure |-> "none"]

\* Variants: the fence is not advanced; the failure reason is kept.
TransitionedUnfenced(x, target) ==
    [x EXCEPT !.status = target, !.revision = x.revision + 1,
              !.claim = NoClaim, !.failure = "none"]

TransitionedKeepingFailure(x, target) ==
    [x EXCEPT !.status = target, !.revision = x.revision + 1,
              !.leaseRevision = x.leaseRevision + 1,
              !.epoch = x.epoch + 1, !.claim = NoClaim]

\* The record transition_run appends.
Transitioned(x, target) ==
    LET fence == IF target \in Fencing THEN 1 ELSE 0 IN
    [status |-> target, revision |-> x.revision + 1,
     leaseRevision |-> x.leaseRevision + fence, epoch |-> x.epoch + fence,
     claim |-> IF target \in Fencing THEN NoClaim ELSE x.claim,
     failure |-> "none"]

\* Variant: a takeover stays in the epoch it takes over.
ClaimedInSameEpoch(x, w, takeover) ==
    [x EXCEPT !.status = "running", !.revision = x.revision + 1,
              !.leaseRevision = x.leaseRevision + 1,
              !.claim = [holder |-> w, token |-> x.leaseRevision + 1]]

\* The record claim_run appends.  The claim token is a uuid4: the claim's own
\* lease_revision, never used by another claim of the run, stands for it.
ClaimedBy(x, w, takeover) ==
    [status |-> "running", revision |-> x.revision + 1,
     leaseRevision |-> x.leaseRevision + 1,
     epoch |-> IF takeover THEN x.epoch + 1 ELSE x.epoch,
     claim |-> [holder |-> w, token |-> x.leaseRevision + 1],
     failure |-> x.failure]

\* Variant: a renewal that leaves no trace in the order of records.
RenewedInPlace(x) == x

\* The record renew_run_lease appends: the public revision does not move.
Renewed(x) == [x EXCEPT !.leaseRevision = x.leaseRevision + 1]

\* The record finalize_requested_lifecycle appends.
Finalized(x) ==
    [status |-> IF x.status = "pausing" THEN "paused" ELSE "cancelled",
     revision |-> x.revision + 1, leaseRevision |-> x.leaseRevision,
     epoch |-> x.epoch, claim |-> NoClaim, failure |-> "none"]

\* Variant: a run under review is not released by its worker.
AnsweredHolding(x, status) ==
    [x EXCEPT !.status = IF status = "needs_review" THEN "running" ELSE status,
              !.revision = x.revision + 1,
              !.claim = IF status = "needs_review" THEN x.claim ELSE NoClaim,
              !.failure = IF status = "failed" THEN "executor_failed" ELSE "none"]

\* The record commit_task_result and record_task_failure append.
AnsweredWith(x, status) ==
    [status |-> status, revision |-> x.revision + 1,
     leaseRevision |-> x.leaseRevision, epoch |-> x.epoch, claim |-> NoClaim,
     failure |-> IF status = "failed" THEN "executor_failed" ELSE "none"]

-----------------------------------------------------------------------------
Init ==
    /\ run = [r \in Run |-> Absent]
    /\ lease = [r \in Run |-> 0]
    /\ receipts = [r \in Run |-> <<>>]
    /\ requests = {}
    /\ applied = {}
    /\ pc = [w \in Worker |-> "idle"]
    /\ job = [w \in Worker |-> NoJob]

(* Users.  create_run: a run is named by the idempotency key it was created *)
(* under, so a replayed call finds it and appends nothing.                  *)
CreateRun(r) ==
    /\ run[r].status = "absent"
    /\ run' = [run EXCEPT ![r] = Created]
    /\ UNCHANGED <<lease, receipts, requests, applied, pc, job>>

\* A user looks at a run and presses pause, resume, retry or cancel: the
\* request carries the revision and the status that were on the screen.
SendControl(r, target) ==
    /\ <<run[r].status, target>> \in Controls
    /\ Cardinality(requests) < MaxRequests
    /\ requests' = requests \cup {[run |-> r, target |-> target,
                                   expected |-> run[r].revision,
                                   seen |-> run[r].status]}
    /\ UNCHANGED <<run, lease, receipts, applied, pc, job>>

\* Variant: the expected revision is not compared.
TransitionRunUnconditionally(q) ==
    /\ q \in requests
    /\ q \notin applied
    /\ <<run[q.run].status, q.target>> \in Transitions
    /\ run' = [run EXCEPT ![q.run] = Transitioned(run[q.run], q.target)]
    /\ lease' = IF q.target \in Fencing THEN [lease EXCEPT ![q.run] = 0] ELSE lease
    /\ applied' = applied \cup {q}
    /\ UNCHANGED <<receipts, requests, pc, job>>

\* A delivery of a request reaches transition_run.  A replayed request returns
\* its recorded result, a stale one is refused; neither appends anything.
TransitionRun(q) ==
    /\ q \in requests
    /\ q \notin applied
    /\ run[q.run].revision = q.expected
    /\ <<run[q.run].status, q.target>> \in Transitions
    /\ run' = [run EXCEPT ![q.run] = Transitioned(run[q.run], q.target)]
    /\ lease' = IF q.target \in Fencing THEN [lease EXCEPT ![q.run] = 0] ELSE lease
    /\ applied' = applied \cup {q}
    /\ UNCHANGED <<receipts, requests, pc, job>>

-----------------------------------------------------------------------------
(* Workers: run_once, recover_claimable, _execute_with_lifecycle. *)

\* Variant: cancellations are not among the pending controls.
ObservePause(w, r) ==
    /\ pc[w] = "idle"
    /\ run[r].status = "pausing"
    /\ pc' = [pc EXCEPT ![w] = "observed"]
    /\ job' = [job EXCEPT ![w] = [NoJob EXCEPT !.run = r]]
    /\ UNCHANGED <<run, lease, receipts, requests, applied>>

\* run_once and recover_claimable read a run whose pause or cancel is pending.
ObserveControl(w, r) ==
    /\ pc[w] = "idle"
    /\ run[r].status \in Pending
    /\ pc' = [pc EXCEPT ![w] = "observed"]
    /\ job' = [job EXCEPT ![w] = [NoJob EXCEPT !.run = r]]
    /\ UNCHANGED <<run, lease, receipts, requests, applied>>

\* claim_run: a queued run, or a running one whose lease has lapsed.
ClaimRun(w, r, d) ==
    LET takeover == Expired(run[r], lease[r], d)
        claimed == ClaimedBy(run[r], w, takeover)
    IN  /\ pc[w] = "idle"
        /\ run[r].status = "queued" \/ takeover
        /\ takeover => run[r].epoch < MaxEpoch
        /\ run' = [run EXCEPT ![r] = claimed]
        /\ lease' = [lease EXCEPT ![r] = LeaseTicks - d]
        /\ job' = [job EXCEPT ![w] = [run |-> r, epoch |-> claimed.epoch,
                                      token |-> claimed.claim.token]]
        /\ pc' = [pc EXCEPT ![w] = "executing"]
        /\ UNCHANGED <<receipts, requests, applied>>

\* The heartbeat fires while the executor works and reads the run.  A run that
\* is neither pending nor running is left alone and the wait goes on.
HeartbeatReads(w) ==
    /\ pc[w] = "executing"
    /\ \/ /\ run[job[w].run].status \in Pending
          /\ pc' = [pc EXCEPT ![w] = "finalizing"]
       \/ /\ run[job[w].run].status = "running"
          /\ run[job[w].run].leaseRevision < MaxLeaseRevision
          /\ pc' = [pc EXCEPT ![w] = "renewing"]
    /\ UNCHANGED <<run, lease, receipts, requests, applied, job>>

\* renew_run_lease, refused unless the claim is current.
RenewRunLease(w, d) ==
    LET r == job[w].run IN
    /\ pc[w] = "renewing"
    /\ IF run[r].claim.holder = w /\ CurrentClaim(run[r], lease[r], job[w], d)
       THEN /\ run' = [run EXCEPT ![r] = Renewed(run[r])]
            /\ lease' = [lease EXCEPT ![r] = LeaseTicks - d]
       ELSE UNCHANGED <<run, lease>>
    /\ pc' = [pc EXCEPT ![w] = "executing"]
    /\ UNCHANGED <<receipts, requests, applied, job>>

\* Variant: the status observed earlier is not read again under the lock.
FinalizeAsObserved(w) ==
    LET r == job[w].run IN
    /\ pc[w] \in {"observed", "finalizing", "settling"}
    /\ run' = [run EXCEPT ![r] = Finalized(run[r])]
    /\ lease' = [lease EXCEPT ![r] = 0]
    /\ pc' = [pc EXCEPT ![w] = CASE pc[w] = "observed"   -> "idle"
                                 [] pc[w] = "finalizing" -> "executing"
                                 [] pc[w] = "settling"   -> "committing"]
    /\ job' = IF pc[w] = "observed" THEN [job EXCEPT ![w] = NoJob] ELSE job
    /\ UNCHANGED <<receipts, requests, applied>>

\* finalize_requested_lifecycle, from any of the three places that call it; a
\* run with no pending request is returned as it is.
FinalizeRequestedLifecycle(w) ==
    LET r == job[w].run IN
    /\ pc[w] \in {"observed", "finalizing", "settling"}
    /\ IF run[r].status \in Pending
       THEN /\ run' = [run EXCEPT ![r] = Finalized(run[r])]
            /\ lease' = [lease EXCEPT ![r] = 0]
       ELSE UNCHANGED <<run, lease>>
    /\ pc' = [pc EXCEPT ![w] = CASE pc[w] = "observed"   -> "idle"
                                 [] pc[w] = "finalizing" -> "executing"
                                 [] pc[w] = "settling"   -> "committing"]
    /\ job' = IF pc[w] = "observed" THEN [job EXCEPT ![w] = NoJob] ELSE job
    /\ UNCHANGED <<receipts, requests, applied>>

\* Variant: the result of a paused or cancelled run is dropped.
ExecutorReturnsToNobody(w) ==
    LET dropped == run[job[w].run].status \in Pending IN
    /\ pc[w] = "executing"
    /\ pc' = [pc EXCEPT ![w] = IF dropped THEN "idle" ELSE "committing"]
    /\ job' = IF dropped THEN [job EXCEPT ![w] = NoJob] ELSE job
    /\ UNCHANGED <<run, lease, receipts, requests, applied>>

\* The executor delivers a result; run_once re-reads the run before committing.
ExecutorReturns(w) ==
    /\ pc[w] = "executing"
    /\ pc' = [pc EXCEPT ![w] = IF run[job[w].run].status \in Pending
                               THEN "settling" ELSE "committing"]
    /\ UNCHANGED <<run, lease, receipts, requests, applied, job>>

\* The executor, or the preparation of its task, raises.
ExecutorFails(w) ==
    /\ pc[w] = "executing"
    /\ pc' = [pc EXCEPT ![w] = "failing"]
    /\ UNCHANGED <<run, lease, receipts, requests, applied, job>>

\* Variant: the handler that records failures also covers the observation.
StoreErrorUnclaimed(w) ==
    /\ pc[w] \in {"observed", "finalizing", "renewing", "settling", "committing"}
    /\ pc' = [pc EXCEPT ![w] = "failing"]
    /\ job' = IF pc[w] = "observed" THEN [job EXCEPT ![w] = NoJob] ELSE job
    /\ UNCHANGED <<run, lease, receipts, requests, applied>>

\* A store call raises and its transaction is rolled back: the evidence of a
\* result does not validate, or the database stays busy.
StoreError(w) ==
    /\ pc[w] \in {"observed", "finalizing", "renewing", "settling", "committing"}
    /\ pc' = [pc EXCEPT ![w] = IF pc[w] = "observed" THEN "idle" ELSE "failing"]
    /\ job' = IF pc[w] = "observed" THEN [job EXCEPT ![w] = NoJob] ELSE job
    /\ UNCHANGED <<run, lease, receipts, requests, applied>>

\* The receipt and the run record of one answer: nothing if the attempt already
\* has a receipt, the answer if the claim is current, a stale receipt otherwise.
Answer(w, d, outcome, status) ==
    LET r == job[w].run
        current == CurrentClaim(run[r], lease[r], job[w], d)
        receipt == [epoch |-> job[w].epoch,
                    outcome |-> IF current THEN outcome ELSE "discarded_stale"]
    IN  IF HasReceipt(r, job[w].epoch)
        THEN UNCHANGED <<run, lease, receipts>>
        ELSE /\ receipts' = [receipts EXCEPT ![r] = Append(receipts[r], receipt)]
             /\ IF current
                THEN /\ run' = [run EXCEPT ![r] = AnsweredWith(run[r], status)]
                     /\ lease' = [lease EXCEPT ![r] = 0]
                ELSE UNCHANGED <<run, lease>>

\* commit_task_result.  When the acknowledgement is lost the transaction has
\* committed but the call raises, and run_once goes on to record a failure.
CommitTaskResult(w, d, status, acknowledged) ==
    /\ pc[w] = "committing"
    /\ Answer(w, d, "accepted", status)
    /\ pc' = [pc EXCEPT ![w] = IF acknowledged THEN "idle" ELSE "failing"]
    /\ job' = IF acknowledged THEN [job EXCEPT ![w] = NoJob] ELSE job
    /\ UNCHANGED <<requests, applied>>

\* record_task_failure.
RecordTaskFailure(w, d) ==
    /\ pc[w] = "failing"
    /\ Answer(w, d, "failed", "failed")
    /\ pc' = [pc EXCEPT ![w] = "idle"]
    /\ job' = [job EXCEPT ![w] = NoJob]
    /\ UNCHANGED <<requests, applied>>

\* The worker's process dies, or a claim is committed and its call raises, or
\* recording a failure raises: the result and the claim's token are gone, and
\* the worker starts over with nothing.
Crash(w) ==
    /\ w \in Faulty
    /\ pc[w] # "idle"
    /\ pc' = [pc EXCEPT ![w] = "idle"]
    /\ job' = [job EXCEPT ![w] = NoJob]
    /\ UNCHANGED <<run, lease, receipts, requests, applied>>

-----------------------------------------------------------------------------
\* A holder that is alive and whose lease the next tick would exhaust.
HeartbeatDue ==
    \E w \in Worker : LET r == job[w].run IN
        /\ Holding(w)
        /\ run[r].claim = [holder |-> w, token |-> job[w].token]
        /\ lease[r] <= 1

\* Below -Lag every reading of the clock sees the lease expired.
LeaseRuns(r) == run[r].claim # NoClaim /\ lease[r] > -Lag

Tick ==
    /\ \E r \in Run : LeaseRuns(r)
    /\ HeartbeatsOnTime => ~HeartbeatDue
    /\ lease' = [r \in Run |-> IF LeaseRuns(r) THEN lease[r] - 1 ELSE lease[r]]
    /\ UNCHANGED <<run, receipts, requests, applied, pc, job>>

WorkerStep(w) ==
    \/ \E r \in Run : ObserveControl(w, r)
    \/ \E r \in Run, d \in 0..Lag : ClaimRun(w, r, d)
    \/ HeartbeatReads(w)
    \/ \E d \in 0..Lag : RenewRunLease(w, d)
    \/ FinalizeRequestedLifecycle(w)
    \/ ExecutorReturns(w)
    \/ ExecutorFails(w)
    \/ StoreError(w)
    \/ \E d \in 0..Lag, status \in {"completed", "needs_review"},
          acknowledged \in BOOLEAN : CommitTaskResult(w, d, status, acknowledged)
    \/ \E d \in 0..Lag : RecordTaskFailure(w, d)
    \/ Crash(w)

Next ==
    \/ \E r \in Run : CreateRun(r)
    \/ \E r \in Run, target \in Status : SendControl(r, target)
    \/ \E q \in requests : TransitionRun(q)
    \/ \E w \in Worker : WorkerStep(w)
    \/ Tick

Spec == Init /\ [][Next]_vars


\* What the code's scheduling justifies.  The daemon polls for ever and a
\* worker's thread runs on; an executor is bounded by the gateway's deadlines,
\* and works in a thread of its own, so heartbeats cannot starve it; time
\* passes; a busy database does not stay busy at every retry of the same call.
\* Users, crashes and store errors are never forced.
Fairness ==
    /\ WF_vars(Tick)
    /\ \A w \in Worker :
        /\ WF_vars(\E r \in Run : ObserveControl(w, r))
        /\ WF_vars(\E r \in Run, d \in 0..Lag : ClaimRun(w, r, d))
        /\ WF_vars(\E d \in 0..Lag : RenewRunLease(w, d))
        /\ SF_vars(FinalizeRequestedLifecycle(w))
        /\ SF_vars(ExecutorReturns(w) \/ ExecutorFails(w))
        /\ WF_vars(\E d \in 0..Lag, status \in {"completed", "needs_review"},
                      acknowledged \in BOOLEAN :
                        CommitTaskResult(w, d, status, acknowledged))
        /\ WF_vars(\E d \in 0..Lag : RecordTaskFailure(w, d))

FairSpec == Spec /\ Fairness

-----------------------------------------------------------------------------
(* Invariants. *)

\* The shape of every variable.
TypeOK ==
    /\ run \in [Run -> RunRecord]
    /\ lease \in [Run -> Int]
    /\ receipts \in [Run -> Seq(Receipt)]
    /\ requests \subseteq Request
    /\ applied \subseteq requests
    /\ pc \in [Worker -> Points]
    /\ job \in [Worker -> Job]
    /\ \A w \in Worker : pc[w] # "idle" => job[w].run \in Run

\* Two workers never work under the same fencing epoch of a run, however
\* their clock readings, crashes and lease takeovers interleave: claim_run
\* hands out each epoch once.
EpochsAreExclusive ==
    \A v, w \in Worker :
        /\ Holding(v) /\ Holding(w)
        /\ job[v].run = job[w].run
        /\ job[v].epoch = job[w].epoch
        => v = w

\* The columns of the newest record agree: a run is running exactly when some
\* worker holds it under a token, and only a failed run carries a failure reason.
RecordsCoherent ==
    \A r \in Run :
        /\ run[r].status = "running" <=> run[r].claim # NoClaim
        /\ run[r].claim # NoClaim <=> run[r].claim.holder # None
        /\ run[r].claim # NoClaim <=> run[r].claim.token # 0
        /\ run[r].status = "failed" <=> run[r].failure # "none"

\* One attempt has one receipt: neither a failure recorded after a commit whose
\* acknowledgement was lost, nor a late result, adds a second one for its epoch.
OneReceiptPerAttempt ==
    \A r \in Run : \A i, j \in 1..Len(receipts[r]) :
        receipts[r][i].epoch = receipts[r][j].epoch => i = j

Answers(r, outcome) ==
    \E i \in 1..Len(receipts[r]) : /\ receipts[r][i].epoch = run[r].epoch
                                   /\ receipts[r][i].outcome = outcome

\* The status of a run and its receipts tell the same story: the run is
\* completed or under review exactly when its present epoch has an accepted
\* receipt, failed exactly when it has a failed one; a late result of an older
\* epoch cannot put a run into any of these states, nor take it out of one.
StatusMatchesReceipts ==
    \A r \in Run :
        /\ run[r].status \in {"completed", "needs_review"} <=> Answers(r, "accepted")
        /\ run[r].status = "failed" <=> Answers(r, "failed")

AcceptedReceipts(r) == {i \in 1..Len(receipts[r]) : receipts[r][i].outcome = "accepted"}

\* The result of a run is accepted once, and once more for every retry by which its
\* user took the run out of review: no takeover, late result or replayed request
\* makes the store accept another.  ADR-0007 calls tasks idempotent without that
\* exception; the fencing epoch in the key of a receipt makes it.
AcceptedOnRequest ==
    \A r \in Run :
        Cardinality(AcceptedReceipts(r))
            <= 1 + Cardinality({q \in applied : q.run = r /\ q.seen = "needs_review"})

(* Action properties. *)

\* A completed or cancelled run is never written again, by anyone.
TerminalIsFinal ==
    [][\A r \in Run : run[r].status \in Terminal => run'[r] = run[r]]_vars

\* A control request that takes effect, takes effect on the status its sender
\* was looking at.  The store compares revisions only: this holds because no
\* two lifecycle states of a run ever share a revision.
RequestsActOnWhatWasSeen ==
    [][\A q \in applied' \ applied : run[q.run].status = q.seen]_vars

Outranks(x, y) ==
    \/ x.revision > y.revision
    \/ x.revision = y.revision /\ x.leaseRevision > y.leaseRevision

\* Every record appended for a run outranks the one before it in the order
\* (revision, lease_revision) by which the store picks the newest record, so no
\* append is shadowed by an older record or collapses into it; renewals, which
\* change nothing but the lease, included.
AppendsSupersede ==
    [][\A r \in Run : run'[r] # run[r] \/ lease'[r] > lease[r]
                        => Outranks(run'[r], run[r])]_vars

\* A run leaves "running" for an answer only in a step of the worker that the
\* store names as its holder; a worker whose claim was taken over, paused or
\* cancelled cannot decide the run.
OnlyTheHolderAnswers ==
    [][\A r \in Run :
        run'[r].status \in Answered /\ run[r].status # run'[r].status
            => \E w \in Worker : /\ run[r].claim.holder = w
                                 /\ job[w].run = r
                                 /\ Holding(w)
                                 /\ pc'[w] # pc[w]]_vars

(* Liveness, under FairSpec. *)

\* A pause or cancel that interrupts a run is settled, whoever dies.
ControlsSettle ==
    \A r \in Run : run[r].status \in Pending ~> run[r].status \notin Pending

\* A queued or running run is answered or taken out of work by its user, even
\* if the workers that claim it keep dying; short of the bound on epochs.
RunsAreAnswered ==
    \A r \in Run :
        run[r].status \in {"queued", "running"}
            ~> run[r].status \notin {"queued", "running"} \/ run[r].epoch >= MaxEpoch

\* Every claim of a worker that does not die ends in a durable receipt.
AttemptsAreReceipted ==
    \A w \in Worker \ Faulty, r \in Run : \A e \in 1..MaxEpoch + MaxRequests :
        Holding(w) /\ job[w].run = r /\ job[w].epoch = e ~> HasReceipt(r, e)
=============================================================================
