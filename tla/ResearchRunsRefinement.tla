----------------------- MODULE ResearchRunsRefinement -----------------------
(* Research runs implement FencedTask: epochs are turns, and the receipts    *)
(* that are not stale are the answers.                                       *)
EXTENDS ResearchRuns

PhaseOf(status) ==
    CASE status = "absent" -> "absent"
      [] status \in {"draft", "queued", "pausing", "paused", "cancelling"} -> "waiting"
      [] status = "running" -> "held"
      [] status \in {"failed", "needs_review"} -> "answered"
      [] status \in {"completed", "cancelled"} -> "closed"

AnsweredEpochs(s) == {s[i].epoch : i \in {j \in 1..Len(s) : s[j].outcome # "discarded_stale"}}

Fence == INSTANCE FencedTask WITH
    Task <- Run,
    phase <- [r \in Run |-> PhaseOf(run[r].status)],
    holder <- [r \in Run |-> run[r].claim.holder],
    turn <- [r \in Run |-> run[r].epoch],
    answers <- [r \in Run |-> AnsweredEpochs(receipts[r])]

\* The run store, with its heartbeats, stale clocks, crashes, late commits and
\* lost acknowledgements, is a fenced task store: every step of it is a step of
\* FencedTask or invisible there.
ImplementsFencedTask == Fence!Spec
=============================================================================
