---------------------- MODULE GenerationQueueInvariant ----------------------
(***************************************************************************)
(* The strengthenings of the queue's invariants.  What keeps two runners   *)
(* of one generation apart is not the lease, which the claim of a queued   *)
(* row does not even look at, but that a generation enters the queue once: *)
(* at its creation under a new id, and then only by a retry.  What keeps   *)
(* one instance from requeueing a generation under its runner is its own   *)
(* memory, as long as no thread replaces the object that is kept there:    *)
(* that is so for the generations submitted on the loop.                   *)
(***************************************************************************)
EXTENDS GenerationQueue

\* What a runner that ends, or a review that is decided, makes of a generation.
Settled == {"needs_review", "completed", "failed", "cancelled", "discarded"}

\* A sequence puts what its kind says: a runner's own put is never an outcome, the
\* outcomes are never running or queued.
TaskFits(l) ==
    /\ l.op \in {"persisting", "saving"} => l.task.status = "running"
    /\ l.op = "finalizing" => l.task.status \in Settled
    /\ l.op \in {"requeueing", "clearing"} => l.task.status = "queued"
    /\ l.op \in {"confirming", "releasing"} => l.task.status = "completed"
    /\ l.op = "discarding" => l.task.status = "discarded"

\* A sequence of a runner belongs to a runner that is there, and its first put to one
\* that has not begun.
RunnerFits(i) ==
    /\ loop[i].op \in {"persisting", "saving", "finalizing"} => Alive(i, loop[i].gen)
    /\ loop[i].op = "persisting" => runner[i][loop[i].gen].at = "claimed"

Tasks ==
    /\ \A i \in Instance : TaskFits(loop[i]) /\ RunnerFits(i)
    /\ \A i \in Instance, g \in Generation :
          Alive(i, g) => runner[i][g].task.status = "running"

-----------------------------------------------------------------------------
(* Any number of instances. *)

\* Submitted once, under an id of its own, and not retried so far.
Untouched(g) == g \notin Derived /\ retries[g] = 0

Creating(i, g) == loop[i].op = "creating" /\ loop[i].gen = g

Requeueing(i, g) == loop[i].op \in {"requeueing", "clearing"} /\ loop[i].gen = g

Deciding(i, g) == loop[i].op \in {"confirming", "releasing", "discarding"} /\ loop[i].gen = g

\* The one runner a generation gets, from its creation to its outcome.
RunOnce(g) ==
    /\ \A i, j \in Instance : /\ Alive(i, g) /\ Alive(j, g) => i = j
                              /\ Creating(i, g) /\ Creating(j, g) => i = j
    /\ \A i \in Instance :
          /\ Alive(i, g) => /\ row[g].task.status \in {"running", "interrupted"}
                            /\ mem[i][g].status \in {"running", "interrupted"}
          /\ Creating(i, g) => ~Known(g)
          /\ ~Requeueing(i, g)
          /\ Deciding(i, g) => row[g].task.status \in Settled
    /\ ~Is(g, "running") => row[g].holder = None

OneRunner == \A g \in Generation : Untouched(g) => RunOnce(g)

\* While heartbeats are on time, a runner's lease is in force.
RunnerLeased(g) ==
    \A i \in Instance :
        Alive(i, g) => Is(g, "running") /\ row[g].holder = i /\ lease[g] >= 0

RunnersLeased == \A g \in Generation : Untouched(g) => RunnerLeased(g)

-----------------------------------------------------------------------------
(* One instance, which keeps its live objects in memory, and the generations *)
(* that are submitted on its loop.                                           *)

OnLoop == Generation \ Courseware

\* What a generation may be while its runner is being stopped: it may be requeued, or
\* cancelled again, but it is not decided.
Pending == {"running", "interrupted", "queued", "cancelled"}

AtWork(i, g) == runner[i][g].at \in {"claimed", "waiting"}

\* A runner at work is known to its instance as running, and its row is under its
\* lease, or was interrupted under it and left without a holder.
RunnerAtWork(i, g) ==
    /\ AtWork(i, g)
    /\ mem[i][g].status = "running"
    /\ \/ Is(g, "running") /\ row[g].holder = i
       \/ Is(g, "running") /\ row[g].holder = None
       \/ Is(g, "interrupted") /\ row[g].holder = None

RunnerStopping(i, g) ==
    /\ runner[i][g].at = "stopping"
    /\ mem[i][g].status \in Pending /\ row[g].task.status \in Pending

RunnerKnown(i, g) ==
    Alive(i, g) => /\ runner[i][g].known
                   /\ RunnerAtWork(i, g) \/ RunnerStopping(i, g)

\* No request puts a generation whose runner is at work, nor decides what is not settled.
LoopAtWork(i) ==
    LET g == loop[i].gen IN g \in OnLoop =>
    /\ loop[i].op \in {"creating", "requeueing", "confirming", "releasing", "discarding"} =>
          ~AtWork(i, g)
    /\ loop[i].op \in {"confirming", "releasing", "discarding"} =>
          ~Alive(i, g) /\ row[g].task.status \in Settled

OneInstanceInvariant ==
    /\ \A i \in Instance, g \in OnLoop : RunnerKnown(i, g)
    /\ \A i \in Instance : LoopAtWork(i)

-----------------------------------------------------------------------------
(* Leases and limits, for the generations of a set G. *)

\* The pool and every share are kept among the leased generations of G.
RowsFit(rows, G) ==
    /\ Cardinality(Leased(rows) \cap G) <= PoolLimit
    /\ \A u \in User : Cardinality(OwnedBy(rows, Leased(rows) \cap G, u)) <= PerUser

\* What a runner is about to put back to running is under lease, or stays without one.
PersistsFit(G) ==
    \A i \in Instance :
        loop[i].op = "persisting" /\ loop[i].gen \in G =>
            Is(loop[i].gen, "running") \/ row[loop[i].gen].holder = None

\* Among what is not retried, the pool and the shares are kept by the leases, ...
UntouchedFit == RowsFit(row, {g \in Generation : Untouched(g)})

\* ... and the pool by the runners.
UntouchedPool ==
    Cardinality({ig \in Instance \X Generation : Untouched(ig[2]) /\ Alive(ig[1], ig[2])})
        <= PoolLimit
=============================================================================
