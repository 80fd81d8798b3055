----------------------- MODULE AnswerChainRefinement -----------------------
(***************************************************************************)
(* The derived-operation queue of the ledger implements the abstract       *)
(* fenced task store, one store per operation.  An event is a task, a      *)
(* claim a turn.  The ledger does not number turns; it draws a token for   *)
(* each, and an operation that waits is about to draw its next.            *)
(***************************************************************************)
EXTENDS AnswerChain

PhaseOf(r) ==
    CASE r.state = "absent" -> "absent"
      [] r.state = "applied" -> "closed"
      [] r.state = "queued" -> IF r.token = NoToken THEN "waiting" ELSE "held"

TurnOf(r) == IF r.state = "queued" /\ r.token = NoToken THEN r.drawn + 1 ELSE r.drawn

Phases(op) == [e \in Event |-> PhaseOf(row[e][op])]
Holders(op) == [e \in Event |-> row[e][op].token.by]
Turns(op) == [e \in Event |-> TurnOf(row[e][op])]
Completed(op) == [e \in Event |-> IF Applied(e, op) THEN {row[e][op].drawn} ELSE {}]

Learning == INSTANCE FencedTask WITH
    Task <- Event, phase <- Phases("learning"), holder <- Holders("learning"),
    turn <- Turns("learning"), answers <- Completed("learning")

Projection == INSTANCE FencedTask WITH
    Task <- Event, phase <- Phases("bkt"), holder <- Holders("bkt"),
    turn <- Turns("bkt"), answers <- Completed("bkt")

Reconciliation == INSTANCE FencedTask WITH
    Task <- Event, phase <- Phases("reconcile"), holder <- Holders("reconcile"),
    turn <- Turns("reconcile"), answers <- Completed("reconcile")

\* claim_derived, mark_derived_applied and mark_derived_failed keep the promise
\* of FencedTask for every operation: one holder at a time, a new turn whenever
\* an operation changes hands, one completion, by the holder of the present turn.
ImplementsFencedTask == Learning!Spec /\ Projection!Spec /\ Reconciliation!Spec
=============================================================================
