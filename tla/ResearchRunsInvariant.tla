------------------------ MODULE ResearchRunsInvariant ------------------------
(***************************************************************************)
(* The inductive invariant of ResearchRuns.  The properties a user of the  *)
(* store cares about are not inductive: that two workers never share an    *)
(* epoch follows only once one knows that the epoch of a queued run was    *)
(* never worked under, and that in turn depends on the receipts.           *)
(***************************************************************************)
EXTENDS ResearchRuns

\* The store names w as the holder of the claim w works under.
NamesHolder(w) ==
    LET x == run[job[w].run] IN
    x.status = "running" /\ x.claim = [holder |-> w, token |-> job[w].token]

\* A worker's epoch is never in the run's future; under the present epoch the
\* worker is the named holder, or its attempt has been receipted already.
HolderFits(w) ==
    Holding(w) =>
        /\ job[w].epoch <= run[job[w].run].epoch
        /\ job[w].epoch = run[job[w].run].epoch =>
              NamesHolder(w) \/ HasReceipt(job[w].run, job[w].epoch)

\* Receipts never run ahead of the epoch; the present epoch of a run has none
\* before it is running, and only stale ones before it is answered.
ReceiptsFit(r) ==
    \A i \in 1..Len(receipts[r]) :
        /\ receipts[r][i].epoch <= run[r].epoch
        /\ receipts[r][i].epoch = run[r].epoch =>
              \/ run[r].status \in Answered
              \/ run[r].status = "running" /\ receipts[r][i].outcome = "discarded_stale"

\* A request was made from a revision the run has reached, and as long as the
\* run is still there, its status is still the one the request was made from.
RequestFits(q) ==
    /\ q.expected <= run[q.run].revision
    /\ q.expected = run[q.run].revision => q.seen = run[q.run].status

AbsentFits(r) == run[r].status = "absent" => run[r] = Absent

\* The requests that took r out of review: each was made by a user who saw it there.
Reopened(r) == {q \in applied : q.run = r /\ q.seen = "needs_review"}

\* An accepted receipt is the reason for the present status of its run, or it was
\* given up by a request that reopened the run.
AcceptanceFits(r) ==
    Cardinality(AcceptedReceipts(r))
        <= Cardinality(Reopened(r))
             + IF run[r].status \in {"completed", "needs_review"} THEN 1 ELSE 0

\* Who holds which epoch, and what receipts say of it.
FencingInvariant ==
    /\ EpochsAreExclusive
    /\ OneReceiptPerAttempt
    /\ StatusMatchesReceipts
    /\ \A w \in Worker : HolderFits(w)
    /\ \A r \in Run : ReceiptsFit(r)

\* The named conjuncts together are preserved by every step.
InductiveInvariant ==
    /\ TypeOK
    /\ RecordsCoherent
    /\ FencingInvariant
    /\ \A r \in Run : AbsentFits(r)
    /\ \A q \in requests : RequestFits(q)
    /\ IsFiniteSet(applied)
    /\ \A r \in Run : AcceptanceFits(r)
=============================================================================
