--------------------- MODULE ResearchRunsRefinementProofs ---------------------
(***************************************************************************)
(* ResearchRuns implements FencedTask: every step of the run store maps to *)
(* a step of the abstract task store, or is invisible there.               *)
(***************************************************************************)
EXTENDS ResearchRunsRefinement, ResearchRunsProofs

\* A step moves at most one run.
LEMMA OneRunMoves ==
    ASSUME TypeOK, [Next]_vars
    PROVE  run' = run \/ \E r \in Run : \A s \in Run : s # r => run'[s] = run[s]
<1> DEFINE One == run' = run \/ \E r \in Run : \A s \in Run : s # r => run'[s] = run[s]
<1>1. ASSUME NEW r \in Run, NEW x, run' = [run EXCEPT ![r] = x]
      PROVE  One
  BY <1>1 DEF TypeOK
<1>2. ASSUME NEW r \in Run, CreateRun(r)
      PROVE  One
  BY <1>1, <1>2 DEF CreateRun
<1>3. ASSUME NEW q \in requests, TransitionRun(q)
      PROVE  One
  BY <1>1, <1>3 DEF TransitionRun, TypeOK, Request
<1>4. ASSUME NEW w \in Worker, NEW r \in Run, NEW d \in 0..Lag, ClaimRun(w, r, d)
      PROVE  One
  BY <1>1, <1>4 DEF ClaimRun
<1>5. ASSUME NEW w \in Worker, NEW d \in 0..Lag, RenewRunLease(w, d)
      PROVE  One
  BY <1>1, <1>5 DEF RenewRunLease, TypeOK
<1>6. ASSUME NEW w \in Worker, FinalizeRequestedLifecycle(w)
      PROVE  One
  BY <1>1, <1>6 DEF FinalizeRequestedLifecycle, TypeOK
<1>7. ASSUME NEW w \in Worker, pc[w] # "idle", NEW d, NEW outcome, NEW status,
             Answer(w, d, outcome, status)
      PROVE  One
  BY <1>1, <1>7 DEF Answer, TypeOK
<1>8. ASSUME NEW w \in Worker, NEW d \in 0..Lag,
             \/ \E status \in {"completed", "needs_review"}, acknowledged \in BOOLEAN :
                   CommitTaskResult(w, d, status, acknowledged)
             \/ RecordTaskFailure(w, d)
      PROVE  One
  BY <1>7, <1>8 DEF CommitTaskResult, RecordTaskFailure
<1>9. ASSUME NEW w \in Worker,
             \/ \E s \in Run : ObserveControl(w, s)
             \/ HeartbeatReads(w) \/ ExecutorReturns(w) \/ ExecutorFails(w)
             \/ StoreError(w) \/ Crash(w)
      PROVE  One
  BY <1>9 DEF ObserveControl, HeartbeatReads, ExecutorReturns, ExecutorFails,
              StoreError, Crash
<1>10. ASSUME \/ UNCHANGED vars \/ Tick
              \/ \E s \in Run, target \in Status : SendControl(s, target)
       PROVE  One
  BY <1>10 DEF vars, Tick, SendControl
<1> HIDE DEF One
<1>11. One
  BY <1>2, <1>3, <1>4, <1>5, <1>6, <1>8, <1>9, <1>10 DEF Next, WorkerStep
<1>12. QED
  BY <1>11 DEF One

\* Only the receipts that are not stale are visible to FencedTask.
LEMMA AnsweredAppend ==
    ASSUME NEW s \in Seq(Receipt), NEW e \in Receipt
    PROVE  AnsweredEpochs(Append(s, e)) =
             IF e.outcome = "discarded_stale" THEN AnsweredEpochs(s)
             ELSE AnsweredEpochs(s) \cup {e.epoch}
<1> DEFINE t == Append(s, e)
<1>1. /\ Len(s) \in Nat /\ Len(t) = Len(s) + 1
      /\ \A i \in 1..Len(s) : t[i] = s[i]
      /\ t[Len(s) + 1] = e
  BY AppendElements
<1> HIDE DEF t
<1>2. \A x : x \in AnsweredEpochs(t) <=>
        \E i \in 1..Len(t) : t[i].outcome # "discarded_stale" /\ x = t[i].epoch
  BY DEF AnsweredEpochs
<1>3. \A x : x \in AnsweredEpochs(s) <=>
        \E i \in 1..Len(s) : s[i].outcome # "discarded_stale" /\ x = s[i].epoch
  BY DEF AnsweredEpochs
<1>4. ASSUME NEW x
      PROVE  x \in AnsweredEpochs(t) <=>
               \/ x \in AnsweredEpochs(s)
               \/ e.outcome # "discarded_stale" /\ x = e.epoch
  <2>1. \A i : i \in 1..Len(t) <=> i \in 1..Len(s) \/ i = Len(s) + 1
    BY <1>1
  <2>2. QED
    BY <1>1, <1>2, <1>3, <2>1
<1>5. CASE e.outcome = "discarded_stale"
  <2>1. AnsweredEpochs(t) = AnsweredEpochs(s)
    BY <1>4, <1>5 DEF AnsweredEpochs
  <2>2. QED
    BY <1>5, <2>1 DEF t
<1>6. CASE e.outcome # "discarded_stale"
  <2>1. \A x : x \in AnsweredEpochs(t) <=> x \in AnsweredEpochs(s) \cup {e.epoch}
    BY <1>4, <1>6
  <2>2. AnsweredEpochs(t) = AnsweredEpochs(s) \cup {e.epoch}
    BY <2>1 DEF AnsweredEpochs
  <2>3. QED
    BY <1>6, <2>2 DEF t
<1>7. QED
  BY <1>5, <1>6

\* The abstract move of the one run that moves.
LEMMA FenceMove ==
    ASSUME NEW r \in Run, \A s \in Run : s # r => run'[s] = run[s],
           NEW p, NEW w, NEW n,
           PhaseOf(run'[r].status) = p, run'[r].claim.holder = w, run'[r].epoch = n
    PROVE  Fence!Move(r, p, w, n)
BY DEF Fence!Move

\* Initially every task of the abstract store is absent.
LEMMA FenceInit == Init => Fence!Init
BY DEF Init, Fence!Init, Absent, NoClaim, PhaseOf, AnsweredEpochs

\* Each action of the abstract store is a step of it.
LEMMA FenceActions ==
    ASSUME NEW r \in Run
    PROVE  /\ Fence!Open(r) \/ Fence!Revoke(r) \/ Fence!Reopen(r) => Fence!Step(r)
           /\ \A w \in Worker : Fence!Hold(r, w) \/ Fence!Replace(r, w) => Fence!Step(r)
           /\ \A p \in {"answered", "closed"} : Fence!Answer(r, p) => Fence!Step(r)
           /\ \A n : /\ n \in {[s \in Run |-> run[s].epoch][r], [s \in Run |-> run[s].epoch][r] + 1}
                     /\ Fence!Postpone(r, n) \/ Fence!Close(r, n)
                     => Fence!Step(r)
<1>1. Fence!Open(r) \/ Fence!Revoke(r) \/ Fence!Reopen(r) => Fence!Step(r)
  BY DEF Fence!Step, Fence!Revoke
<1>2. \A w \in Worker : Fence!Hold(r, w) \/ Fence!Replace(r, w) => Fence!Step(r)
  BY DEF Fence!Step, Fence!Hold, Fence!Replace
<1>3. \A p \in {"answered", "closed"} : Fence!Answer(r, p) => Fence!Step(r)
  BY DEF Fence!Step, Fence!Answer
<1>4. \A n : /\ n \in {[s \in Run |-> run[s].epoch][r], [s \in Run |-> run[s].epoch][r] + 1}
             /\ Fence!Postpone(r, n) \/ Fence!Close(r, n)
             => Fence!Step(r)
  BY DEF Fence!Step, Fence!Postpone, Fence!Close
<1>5. QED
  BY <1>1, <1>2, <1>3, <1>4

\* The record a run moves to, without an answer.
LEMMA RecordStep ==
    ASSUME TypeOK, NEW r \in Run, AbsentFits(r), AnsweredEpochs(receipts'[r]) = AnsweredEpochs(receipts[r]),
           \A s \in Run : s # r => run'[s] = run[s] /\ receipts'[s] = receipts[s],
           Appends(run[r], run'[r]),
           run'[r].status \in Answered => run'[r].status = run[r].status
    PROVE  Fence!Step(r) \/ UNCHANGED Fence!vars
<1> DEFINE x == run[r]
           y == run'[r]
<1>1. ASSUME NEW p, NEW w, NEW n, PhaseOf(y.status) = p, y.claim.holder = w, y.epoch = n
      PROVE  Fence!Move(r, p, w, n)
  BY <1>1, FenceMove
<1>2. UNCHANGED [s \in Run |-> AnsweredEpochs(receipts[s])]
  OBVIOUS
<1>3. x \in RunRecord /\ x.epoch \in Nat
  BY DEF TypeOK, RunRecord
<1>0. PICK n \in Nat : /\ n = x.epoch
                       /\ [s \in Run |-> run[s].epoch][r] = n
                       /\ [s \in Run |-> PhaseOf(run[s].status)][r] = PhaseOf(x.status)
  BY <1>3
<1> HIDE DEF x, y
<1>4. CASE x.status = "absent" /\ y = Created
  <2>1. PhaseOf(x.status) = "absent" /\ PhaseOf(y.status) = "waiting"
        /\ y.claim.holder = None /\ y.epoch = 1
    BY <1>4 DEF PhaseOf, Created, NoClaim
  <2>2. Fence!Move(r, "waiting", None, 1)
    BY <1>1, <2>1
  <2>3. Fence!Open(r)
    BY <1>0, <1>2, <2>1, <2>2 DEF Fence!Open
  <2>4. QED
    BY <2>3, FenceActions
<1>5. ASSUME NEW target \in Fencing, <<x.status, target>> \in Transitions,
             y = Transitioned(x, target)
      PROVE  Fence!Step(r)
  <2>1. y.claim.holder = None /\ y.epoch = n + 1 /\ y.status = target
    BY <1>0, <1>5 DEF Transitioned, NoClaim
  <2>2. /\ PhaseOf(y.status) \in {"waiting", "closed"}
        /\ \/ PhaseOf(x.status) \in {"waiting", "held", "answered"} /\ PhaseOf(y.status) = "waiting"
           \/ PhaseOf(x.status) \in {"waiting", "answered"} /\ PhaseOf(y.status) = "closed"
    BY <1>5, <2>1 DEF PhaseOf, Transitions, Fencing
  <2>3. ASSUME NEW p \in {"waiting", "closed"}, PhaseOf(y.status) = p
        PROVE  Fence!Move(r, p, None, n + 1)
    BY <1>1, <2>1, <2>3
  <2>4. CASE PhaseOf(x.status) = "held" /\ PhaseOf(y.status) = "waiting"
    <3>1. Fence!Revoke(r)
      BY <1>0, <1>2, <2>3, <2>4 DEF Fence!Revoke, Fence!Move
    <3>2. QED
      BY <3>1, FenceActions
  <2>5. CASE PhaseOf(x.status) = "waiting" /\ PhaseOf(y.status) = "waiting"
    <3>1. Fence!Postpone(r, n + 1)
      BY <1>0, <1>2, <2>3, <2>5 DEF Fence!Postpone
    <3>2. QED
      BY <1>0, <3>1, FenceActions
  <2>6. CASE PhaseOf(x.status) = "answered" /\ PhaseOf(y.status) = "waiting"
    <3>1. Fence!Reopen(r)
      BY <1>0, <1>2, <2>3, <2>6 DEF Fence!Reopen, Fence!Move
    <3>2. QED
      BY <3>1, FenceActions
  <2>7. CASE PhaseOf(x.status) \in {"waiting", "answered"} /\ PhaseOf(y.status) = "closed"
    <3>1. Fence!Close(r, n + 1)
      BY <1>0, <1>2, <2>3, <2>7 DEF Fence!Close
    <3>2. QED
      BY <1>0, <3>1, FenceActions
  <2>8. QED
    BY <2>2, <2>4, <2>5, <2>6, <2>7
<1>6. ASSUME NEW w \in Worker, NEW takeover \in BOOLEAN, y = ClaimedBy(x, w, takeover),
             x.status = IF takeover THEN "running" ELSE "queued"
      PROVE  Fence!Step(r)
  <2>1. /\ PhaseOf(y.status) = "held" /\ y.claim.holder = w
        /\ y.epoch = IF takeover THEN n + 1 ELSE n
        /\ PhaseOf(x.status) = IF takeover THEN "held" ELSE "waiting"
    BY <1>0, <1>6 DEF PhaseOf, ClaimedBy
  <2>2. CASE takeover
    <3>1. Fence!Move(r, "held", w, n + 1)
      BY <1>1, <2>1, <2>2
    <3>2. Fence!Replace(r, w)
      BY <1>0, <1>2, <2>1, <2>2, <3>1 DEF Fence!Replace, Fence!Move
    <3>3. QED
      BY <3>2, FenceActions
  <2>3. CASE ~takeover
    <3>1. Fence!Move(r, "held", w, n)
      BY <1>1, <2>1, <2>3
    <3>2. Fence!Hold(r, w)
      BY <1>0, <1>2, <2>1, <2>3, <3>1 DEF Fence!Hold, Fence!Move
    <3>3. QED
      BY <3>2, FenceActions
  <2>4. QED
    BY <2>2, <2>3
<1>7. CASE x.status = "running" /\ y = Renewed(x)
  <2>1. y.status = x.status /\ y.claim = x.claim /\ y.epoch = x.epoch
    BY <1>3, <1>7 DEF Renewed, RunRecord
  <2>2. \A s \in Run : /\ run'[s].status = run[s].status /\ run'[s].claim = run[s].claim
                       /\ run'[s].epoch = run[s].epoch
    BY <2>1 DEF x, y
  <2>3. QED
    BY <1>2, <2>2 DEF Fence!vars
<1>8. CASE x.status \in Pending /\ y = Finalized(x)
  <2>1. /\ y.claim.holder = None /\ y.epoch = x.epoch
        /\ PhaseOf(x.status) = "waiting" /\ PhaseOf(y.status) \in {"waiting", "closed"}
    BY <1>8 DEF Finalized, NoClaim, PhaseOf, Pending
  <2>2. CASE PhaseOf(y.status) = "waiting"
    <3>1. Fence!Move(r, "waiting", None, n)
      BY <1>0, <1>1, <2>1, <2>2
    <3>2. Fence!Postpone(r, n)
      BY <1>0, <1>2, <2>1, <3>1 DEF Fence!Postpone
    <3>3. QED
      BY <1>0, <3>2, FenceActions
  <2>3. CASE PhaseOf(y.status) = "closed"
    <3>1. Fence!Move(r, "closed", None, n)
      BY <1>0, <1>1, <2>1, <2>3
    <3>2. Fence!Close(r, n)
      BY <1>0, <1>2, <2>1, <3>1 DEF Fence!Close
    <3>3. QED
      BY <1>0, <3>2, FenceActions
  <2>4. QED
    BY <2>1, <2>2, <2>3
<1>9. ASSUME NEW status \in Answered, x.status = "running", y = AnsweredWith(x, status)
      PROVE  FALSE
  BY <1>9 DEF AnsweredWith, Answered, x, y
<1>10. QED
  BY <1>4, <1>5, <1>6, <1>7, <1>8, <1>9 DEF Appends, x, y

\* An answer is an Answer of FencedTask; a stale or repeated one is invisible.
LEMMA ReceiptsStep ==
    ASSUME InductiveInvariant, NEW w \in Worker, Receipts(w)
    PROVE  Fence!Next \/ UNCHANGED Fence!vars
<1>1. PICK d \in 0..Lag, outcome \in {"accepted", "failed"}, status \in Answered :
           Answer(w, d, outcome, status)
  BY DEF Receipts, Answered
<1>2. TypeOK /\ Holding(w)
  BY DEF InductiveInvariant, Receipts
<1>3. PICK r \in Run, n \in Nat, x \in RunRecord :
           r = job[w].run /\ n = run[r].epoch /\ x = run[r]
  BY <1>2, EpochTypes DEF TypeOK
<1>4. PICK e \in Nat : e = job[w].epoch
  BY <1>2, EpochTypes
<1>5. receipts[r] \in Seq(Receipt)
  BY <1>2, EpochTypes
<1>6. CASE HasReceipt(r, e)
  <2>1. UNCHANGED <<run, receipts>>
    BY <1>1, <1>3, <1>4, <1>6 DEF Answer
  <2>2. QED
    BY <2>1 DEF Fence!vars
<1>7. CASE ~HasReceipt(r, e) /\ ~CurrentClaim(run[r], lease[r], job[w], d)
  <2>1. /\ run' = run
        /\ receipts' = [receipts EXCEPT ![r] =
              Append(receipts[r], [epoch |-> e, outcome |-> "discarded_stale"])]
    BY <1>1, <1>3, <1>4, <1>7 DEF Answer
  <2>2. AnsweredEpochs(receipts'[r]) = AnsweredEpochs(receipts[r])
    <3>1. [epoch |-> e, outcome |-> "discarded_stale"] \in Receipt
      BY DEF Receipt
    <3>2. receipts'[r] = Append(receipts[r], [epoch |-> e, outcome |-> "discarded_stale"])
      BY <1>2, <2>1 DEF TypeOK
    <3>3. QED
      BY <1>5, <3>1, <3>2, AnsweredAppend
  <2>3. \A s \in Run : AnsweredEpochs(receipts'[s]) = AnsweredEpochs(receipts[s])
    BY <1>2, <2>1, <2>2 DEF TypeOK
  <2>4. QED
    BY <2>1, <2>3 DEF Fence!vars
<1>8. CASE ~HasReceipt(r, e) /\ CurrentClaim(run[r], lease[r], job[w], d)
  <2>1. n = e /\ x.status = "running"
    BY <1>3, <1>4, <1>8 DEF CurrentClaim
  <2>2. /\ run' = [run EXCEPT ![r] = AnsweredWith(x, status)]
        /\ receipts' = [receipts EXCEPT ![r] =
              Append(receipts[r], [epoch |-> e, outcome |-> outcome])]
    BY <1>1, <1>3, <1>4, <1>8 DEF Answer
  <2>3. run'[r] = AnsweredWith(x, status) /\ \A s \in Run : s # r => run'[s] = run[s]
    BY <1>2, <2>2 DEF TypeOK
  <2>4. PICK p \in {"answered", "closed"} : p = PhaseOf(run'[r].status)
    BY <2>3 DEF AnsweredWith, Answered, PhaseOf
  <2>5. Fence!Move(r, p, None, n)
    BY <1>3, <2>3, <2>4, FenceMove DEF AnsweredWith, NoClaim
  <2>6. AnsweredEpochs(receipts'[r]) = AnsweredEpochs(receipts[r]) \cup {n}
    <3>1. [epoch |-> e, outcome |-> outcome] \in Receipt
      BY DEF Receipt
    <3>2. receipts'[r] = Append(receipts[r], [epoch |-> e, outcome |-> outcome])
      BY <1>2, <2>2 DEF TypeOK
    <3>3. QED
      BY <1>5, <2>1, <3>1, <3>2, AnsweredAppend
  <2>7. n \notin AnsweredEpochs(receipts[r])
    BY <1>8, <2>1 DEF AnsweredEpochs, HasReceipt
  <2>8. \A s \in Run : s # r => receipts'[s] = receipts[s]
    BY <1>2, <2>2 DEF TypeOK
  <2>9. [s \in Run |-> AnsweredEpochs(receipts'[s])]
          = [[s \in Run |-> AnsweredEpochs(receipts[s])]
               EXCEPT ![r] = AnsweredEpochs(receipts[r]) \cup {n}]
    BY <2>6, <2>8
  <2>10. /\ [s \in Run |-> PhaseOf(run[s].status)][r] = "held"
         /\ [s \in Run |-> run[s].epoch][r] = n
         /\ [s \in Run |-> AnsweredEpochs(receipts[s])][r] = AnsweredEpochs(receipts[r])
    BY <1>3, <2>1 DEF PhaseOf
  <2>11. Fence!Answer(r, p)
    BY <2>5, <2>7, <2>9, <2>10 DEF Fence!Answer, Fence!Move
  <2>12. QED
    BY <1>3, <2>4, <2>11, FenceActions DEF Fence!Next
<1>9. QED
  BY <1>6, <1>7, <1>8

\* Every step maps to one of the abstract store, or to none.
LEMMA FenceStep ==
    ASSUME InductiveInvariant, [Next]_vars
    PROVE  Fence!Next \/ UNCHANGED Fence!vars
<1>1. TypeOK /\ \A r \in Run : AbsentFits(r)
  BY DEF InductiveInvariant
<1>2. CASE \E w \in Worker : Receipts(w)
  BY <1>2, ReceiptsStep
<1>3. CASE \/ Unanswered
           \/ \E w \in Worker, r \in Run, d \in 0..Lag : ClaimRun(w, r, d)
  <2>1. UNCHANGED receipts
    BY <1>3 DEF Unanswered, ClaimRun
  <2>2. \A r \in Run : run'[r].status \in Answered => run'[r].status = run[r].status
    <3>1. CASE Unanswered
      BY <3>1 DEF Unanswered, MovesUnanswered, Live
    <3>2. ASSUME NEW w \in Worker, NEW s \in Run, NEW d \in 0..Lag, ClaimRun(w, s, d)
          PROVE  \A r \in Run : run'[r].status \in Answered => run'[r].status = run[r].status
      BY <1>1, <3>2 DEF ClaimRun, TypeOK, ClaimedBy, Answered
    <3>3. QED
      BY <1>3, <3>1, <3>2
  <2>3. CASE run' = run
    BY <2>1, <2>3 DEF Fence!vars
  <2>4. ASSUME NEW r \in Run, \A s \in Run : s # r => run'[s] = run[s], run'[r] # run[r]
        PROVE  Fence!Next \/ UNCHANGED Fence!vars
    BY <1>1, <2>1, <2>2, <2>4, StepAppends, RecordStep DEF Fence!Next
  <2>5. ASSUME NEW r \in Run, \A s \in Run : run'[s] = run[s]
        PROVE  UNCHANGED Fence!vars
    BY <2>1, <2>5 DEF Fence!vars
  <2>6. QED
    BY <1>1, <2>3, <2>4, <2>5, OneRunMoves
<1>4. QED
  BY <1>1, <1>2, <1>3, StepKinds

\* The run store implements the fenced task store.
THEOREM Refinement == Spec => ImplementsFencedTask
<1>1. InductiveInvariant /\ [Next]_vars => [Fence!Next]_(Fence!vars)
  BY FenceStep
<1>2. QED
  BY <1>1, FenceInit, Invariance, PTL DEF Spec, ImplementsFencedTask, Fence!Spec
===============================================================================
