---------------------------- MODULE AnswerChain ----------------------------
(***************************************************************************)
(* From a graded answer to the learner model: traittutor/learning/         *)
(* event_chain.py over the ledger of traittutor/learning_model/events.py.  *)
(*                                                                         *)
(* An answer is appended to the ledger together with the operations to be  *)
(* derived from it.  Workers - request threads, background projections,    *)
(* retries at service load - claim an operation under a token, carry it    *)
(* out in another store, and report back to the ledger under that token.   *)
(* A user may void an answer, which takes its evidence back by the same    *)
(* queue.  Every call of the ledger is one transaction and one action      *)
(* here, and so is every access to the store of signals; a process may die *)
(* between any two.                                                        *)
(*                                                                         *)
(* A lease is live or lapsed: the ledger compares it with a clock reading  *)
(* that may be old, in which case a lapsed lease is taken for a live one,  *)
(* which only delays a claim.  A renewal that succeeds keeps a lease live. *)
(* Profiles, which are rebuilt from the signals, are not followed.         *)
(*                                                                         *)
(* The learning plan (learning/service.py, learning/storage.py) is one     *)
(* document, which exists.  Whoever changes it loads it, changes the copy  *)
(* and saves the copy over whatever is there by then; of what it holds,    *)
(* only the answers it has taken account of are followed.                  *)
(* Every request builds a chain and a ledger object of its own, so the     *)
(* locks and sets these keep in memory are not shared between workers; the *)
(* lock on the signals belongs to the process.                             *)
(***************************************************************************)
EXTENDS Integers, FiniteSets

CONSTANTS
    Event,          \* graded answers that are strong evidence
    Components,     \* how many knowledge components an answer is attributed to
    Worker,         \* threads and tasks that work on the ledger
    Process,        \* the processes they live in
    Home,           \* Home[w]: the process of w
    None,           \* claim_token is NULL
    MaxClaims,      \* bound: tokens drawn for one operation of one event
    MaxTakeovers,   \* bound: those drawn again, of all operations of an event
    MaxTools        \* bound: tools open at once

ASSUME ConstantsAssumption ==
    /\ Home \in [Worker -> Process]
    /\ None \notin Worker /\ None \notin Event
    /\ Components \in Nat \ {0}
    /\ MaxClaims \in Nat /\ MaxTakeovers \in Nat /\ MaxTools \in Nat

VARIABLES
    row,        \* row[e][op]: what the ledger knows of operation op of event e
    voided,     \* events with a void amendment
    signals,    \* the evidence in the personalization store
    progress,   \* events the saved learning plan has taken account of
    held,       \* held[w]: what of them is in the copy a tutor's tool of w has loaded
    planned,    \* history: events of every learning plan that was ever saved
    pc,         \* pc[w]: where w is
    job,        \* job[w]: what w is working on
    overtaken   \* history: events whose projection was claimed away from a living worker

planning == <<progress, held, planned>>

vars == <<row, voided, signals, progress, held, planned, pc, job, overtaken>>

-----------------------------------------------------------------------------
Operation == {"learning", "bkt", "reconcile"}

\* The random token of a claim, named by who drew it and when.
Token == [by : Worker \cup {None}, n : Nat]

NoToken == [by |-> None, n |-> 0]

Row == [state : {"absent", "queued", "applied"}, token : Token, live : BOOLEAN,
        drawn : Nat]

Signal == Event \X (1..Components)

Of(e) == {e} \X (1..Components)

\* plan: a copy of the learning plan; graded: it is that of the tool that grades.
Job == [event : Event \cup {None}, op : Operation, token : Token,
        next : 1..Components, kept : SUBSET Signal,
        plan : SUBSET Event, graded : BOOLEAN]

NoJob == [event |-> None, op |-> "bkt", token |-> NoToken, next |-> 1, kept |-> {},
          plan |-> {}, graded |-> FALSE]

Points == {"idle", "resuming", "deriving", "claiming", "preparing", "projecting", "checking",
           "correcting", "looking", "retracting", "replacing",
           "compensating", "restoring", "completing", "failing"}

Known(e) == row[e]["bkt"].state # "absent"

Effective(e) == Known(e) /\ e \notin voided

Applied(e, op) == row[e][op].state = "applied"

\* The worker whose claim on op of e is the one in the ledger.
Works(w, e, op) == pc[w] # "idle" /\ job[w].event = e /\ job[w].op = op

Go(w, p) == pc' = [pc EXCEPT ![w] = p]

Stop(w) == Go(w, "idle") /\ job' = [job EXCEPT ![w] = NoJob]

\* The mutation lock of a process, held from the reading of the signals to
\* their replacement.
LockFree(w) ==
    \A v \in Worker \ {w} :
        Home[v] = Home[w] => pc[v] \notin {"replacing", "restoring"}

-----------------------------------------------------------------------------
Init ==
    /\ row = [e \in Event |-> [op \in Operation |->
                [state |-> "absent", token |-> NoToken, live |-> FALSE, drawn |-> 0]]]
    /\ voided = {}
    /\ signals = {}
    /\ progress = {}
    /\ held = [w \in Worker |-> None]
    /\ planned = {}
    /\ pc = [w \in Worker |-> "idle"]
    /\ job = [w \in Worker |-> NoJob]
    /\ overtaken = {}

(* The ledger. *)

\* append: the event and its operations are recorded at once.  A replayed
\* submission finds the event and records nothing.
Append(e) ==
    /\ ~Known(e)
    /\ row' = [row EXCEPT ![e]["learning"].state = "queued", ![e]["bkt"].state = "queued"]
    /\ UNCHANGED <<voided, signals, planning, pc, job, overtaken>>

Claimable(e, op) ==
    /\ row[e][op].state = "queued"
    /\ row[e][op].token = NoToken \/ ~row[e][op].live
    /\ row[e][op].drawn < MaxClaims
    /\ row[e][op].drawn > 0 =>
           Cardinality({o \in Operation : row[e][o].drawn > 1}) < MaxTakeovers

\* Variant: completion does not compare tokens.
HoldsAnything(w) == row[job[w].event][job[w].op].state = "queued"

\* The comparison under which a worker may complete or release its operation.
Holds(w) ==
    LET r == row[job[w].event][job[w].op] IN
    r.state = "queued" /\ r.token = job[w].token /\ r.token # NoToken

\* claim_derived: a fresh token, whoever held the lapsed one.
ClaimDerived(w, e, op) ==
    LET n == row[e][op].drawn + 1
        t == [by |-> w, n |-> n] IN
    /\ Claimable(e, op)
    /\ row' = [row EXCEPT ![e][op] = [@ EXCEPT !.token = t, !.live = TRUE, !.drawn = n]]
    /\ job' = [job EXCEPT ![w].token = t]
    /\ overtaken' = IF \E v \in Worker \ {w} : Works(v, e, op) /\ Holds(v)
                    THEN overtaken \cup {e} ELSE overtaken

\* mark_derived_applied
MarkDerivedApplied(w) ==
    /\ pc[w] = "completing"
    /\ row' = IF Holds(w)
              THEN [row EXCEPT ![job[w].event][job[w].op] =
                       [@ EXCEPT !.state = "applied", !.token = NoToken, !.live = FALSE]]
              ELSE row
    /\ Stop(w)
    /\ UNCHANGED <<voided, signals, planning, overtaken>>

\* Variant: a release forgets the token and leaves the lease.
MarkDerivedFailedOnly(w) ==
    /\ pc[w] = "failing"
    /\ row' = IF Holds(w)
              THEN [row EXCEPT ![job[w].event][job[w].op].token = NoToken]
              ELSE row
    /\ Stop(w)
    /\ UNCHANGED <<voided, signals, planning, overtaken>>

\* mark_derived_failed
MarkDerivedFailed(w) ==
    /\ pc[w] = "failing"
    /\ row' = IF Holds(w)
              THEN [row EXCEPT ![job[w].event][job[w].op] =
                       [@ EXCEPT !.token = NoToken, !.live = FALSE]]
              ELSE row
    /\ Stop(w)
    /\ UNCHANGED <<voided, signals, planning, overtaken>>

\* Either mark raises: the claim stays until its lease lapses.
MarkRaises(w) ==
    /\ pc[w] \in {"completing", "failing"}
    /\ Stop(w)
    /\ UNCHANGED <<row, voided, signals, planning, overtaken>>

\* Time passes and no renewal came: the worker is dead, or was held up.
LeaseLapses(e, op) ==
    /\ row[e][op].live
    /\ row' = [row EXCEPT ![e][op].live = FALSE]
    /\ UNCHANGED <<voided, signals, planning, pc, job, overtaken>>

-----------------------------------------------------------------------------
(* The learning plan: apply_derived with its projection, and the tutor's tools.     *)

\* A tool of the tutor loads the plan.  It then builds the service, which resumes the
\* derivations that are pending, and some tools grade an answer.
OpenTool(w) ==
    /\ pc[w] = "idle"
    /\ held[w] = None
    /\ Cardinality({v \in Worker : held[v] # None}) < MaxTools
    /\ held' = [held EXCEPT ![w] = progress]
    /\ UNCHANGED <<row, voided, signals, progress, planned, pc, job, overtaken>>

Saves(w, plan) ==
    /\ progress' = plan
    /\ planned' = planned \cup plan

\* The tool saves the plan it has, if it has anything to add to it.
CloseTool(w) ==
    /\ pc[w] = "idle"
    /\ held[w] # None
    /\ held' = [held EXCEPT ![w] = None]
    /\ Saves(w, held[w]) \/ UNCHANGED <<progress, planned>>
    /\ UNCHANGED <<row, voided, signals, pc, job, overtaken>>

\* The answer just graded is derived into the plan the tool has; any other into
\* one that is loaded for it.
StartDerived(w, e) ==
    /\ pc[w] = "idle"
    /\ Known(e)
    /\ \/ job' = [job EXCEPT ![w] = [NoJob EXCEPT !.event = e, !.op = "learning",
                                                !.plan = progress]]
       \/ /\ held[w] # None
          /\ job' = [job EXCEPT ![w] = [NoJob EXCEPT !.event = e, !.op = "learning",
                                                     !.plan = held[w], !.graded = TRUE]]
    /\ Go(w, "resuming")
    /\ UNCHANGED <<row, voided, signals, planning, overtaken>>

\* The claim, or it is done already, or pending elsewhere.
ClaimLearning(w) ==
    LET e == job[w].event IN
    /\ pc[w] = "resuming"
    /\ IF Claimable(e, "learning")
       THEN ClaimDerived(w, e, "learning") /\ Go(w, "deriving")
       ELSE Stop(w) /\ UNCHANGED <<row, overtaken>>
    /\ UNCHANGED <<voided, signals, planning>>

\* The projection of a router loads the plan only now.
LoadPlan(w) ==
    /\ pc[w] = "deriving"
    /\ ~job[w].graded
    /\ job[w].plan # progress
    /\ job' = [job EXCEPT ![w].plan = progress]
    /\ UNCHANGED <<row, voided, signals, planning, pc, overtaken>>

\* Variant: what the callback raises is not passed on.
DeriveSilently(w) ==
    LET e == job[w].event
        plan == job[w].plan \cup {e}
    IN  /\ pc[w] = "deriving"
        /\ Go(w, "completing")
        /\ \/ e \notin job[w].plan /\ Saves(w, plan)
           \/ UNCHANGED <<progress, planned>>
        /\ job' = [job EXCEPT ![w].plan = {}, ![w].graded = FALSE]
        /\ UNCHANGED <<row, voided, signals, held, overtaken>>

\* The callback finds the answer in its copy of the plan, or saves the copy with it,
\* which then is what the tool has; or it raises.
Derive(w) ==
    LET e == job[w].event
        plan == job[w].plan \cup {e}
    IN  /\ pc[w] = "deriving"
        /\ \/ /\ e \in job[w].plan
              /\ Go(w, "completing")
              /\ UNCHANGED planning
           \/ /\ e \notin job[w].plan
              /\ Saves(w, plan)
              /\ held' = IF job[w].graded THEN [held EXCEPT ![w] = plan] ELSE held
              /\ Go(w, "completing")
           \/ /\ Go(w, "failing")
              /\ UNCHANGED planning
        /\ job' = [job EXCEPT ![w].plan = {}, ![w].graded = FALSE]
        /\ UNCHANGED <<row, voided, signals, overtaken>>

-----------------------------------------------------------------------------
(* project_personalization. *)

\* Variant: a voided event is not turned away.
BeginProjectionOfAny(w, e) ==
    /\ pc[w] = "idle"
    /\ held[w] = None
    /\ Known(e)
    /\ job' = [job EXCEPT ![w] = [NoJob EXCEPT !.event = e]]
    /\ Go(w, "claiming")
    /\ UNCHANGED <<row, voided, signals, planning, overtaken>>

\* Only an event that is in effect is claimed, as far as one can see before.
BeginProjection(w, e) ==
    /\ pc[w] = "idle"
    /\ held[w] = None
    /\ Effective(e)
    /\ job' = [job EXCEPT ![w] = [NoJob EXCEPT !.event = e]]
    /\ Go(w, "claiming")
    /\ UNCHANGED <<row, voided, signals, planning, overtaken>>

\* The claim, or the claim is refused.
ClaimProjection(w) ==
    LET e == job[w].event IN
    /\ pc[w] = "claiming"
    /\ IF Claimable(e, "bkt")
       THEN ClaimDerived(w, e, "bkt") /\ Go(w, "preparing")
       ELSE Stop(w) /\ UNCHANGED <<row, overtaken>>
    /\ UNCHANGED <<voided, signals, planning>>

\* _to_personalization_events raises if a component has no state in the rebuilt
\* model, which takes an event in effect; or because the parameters do not load.
\* A task cancelled before its first turn writes nothing and compensates nothing.
Prepare(w) ==
    /\ pc[w] = "preparing"
    /\ \/ (\E f \in Event : Effective(f)) /\ Go(w, "projecting")
       \/ Go(w, "failing")
    /\ UNCHANGED <<row, voided, signals, planning, job, overtaken>>

\* record_event of the next component: a signal that is there stays as it is.
RecordEvent(w) ==
    LET k == job[w].next IN
    /\ pc[w] = "projecting"
    /\ LockFree(w)
    /\ signals' = signals \cup {<<job[w].event, k>>}
    /\ IF k = Components
       THEN Go(w, "checking") /\ UNCHANGED job
       ELSE job' = [job EXCEPT ![w].next = k + 1] /\ UNCHANGED pc
    /\ UNCHANGED <<row, voided, planning, overtaken>>

\* The look at the ledger before completion.
CheckEffective(w) ==
    /\ pc[w] = "checking"
    /\ Go(w, IF Effective(job[w].event) THEN "completing" ELSE "retracting")
    /\ UNCHANGED <<row, voided, signals, planning, job, overtaken>>

\* Anything raises in the course of the projection, or its heartbeat finds the
\* claim lapsed or lost and cancels it: evidence written so far is taken back.
ProjectionRaises(w) ==
    /\ pc[w] \in {"projecting", "checking", "retracting", "replacing"}
    /\ job[w].op = "bkt"
    /\ Go(w, "compensating")
    /\ job' = [job EXCEPT ![w].kept = {}]
    /\ UNCHANGED <<row, voided, signals, planning, overtaken>>

\* Variant: a cancelled projection is taken for a finished one.
AfterDeletionUnaware(w) == "completing"

\* Where a worker goes after delete_evidence.
AfterDeletion(w) ==
    IF pc[w] \in {"compensating", "restoring"} THEN "failing" ELSE "completing"

\* delete_evidence reads the signals under the mutation lock of its process; if
\* there is nothing to delete it returns False, which only a correction minds.
DeleteReads(w) ==
    LET e == job[w].event
        kept == signals \ Of(e) IN
    /\ pc[w] \in {"retracting", "compensating"}
    /\ LockFree(w)
    /\ IF kept = signals
       THEN /\ Go(w, IF job[w].op = "reconcile" THEN "failing" ELSE AfterDeletion(w))
            /\ UNCHANGED job
       ELSE /\ Go(w, IF pc[w] = "retracting" THEN "replacing" ELSE "restoring")
            /\ job' = [job EXCEPT ![w].kept = kept]
    /\ UNCHANGED <<row, voided, signals, planning, overtaken>>

\* ... and puts back what it keeps.
DeleteReplaces(w) ==
    /\ pc[w] \in {"replacing", "restoring"}
    /\ signals' = job[w].kept
    /\ Go(w, AfterDeletion(w))
    /\ job' = [job EXCEPT ![w].kept = {}]
    /\ UNCHANGED <<row, voided, planning, overtaken>>

\* The deletion raises: in a projection that is logged, and the failure noted
\* is the original one.
DeleteRaises(w) ==
    /\ \/ pc[w] \in {"compensating", "restoring"}
       \/ pc[w] \in {"retracting", "replacing"} /\ job[w].op = "reconcile"
    /\ Go(w, "failing")
    /\ job' = [job EXCEPT ![w].kept = {}]
    /\ UNCHANGED <<row, voided, signals, planning, overtaken>>

-----------------------------------------------------------------------------
(* void_learner_event. *)

\* append_amendment: the void and its reconciliation are recorded at once; a
\* repeated request finds them.
AppendAmendment(w, e) ==
    /\ pc[w] = "idle"
    /\ held[w] = None
    /\ Known(e)
    /\ voided' = voided \cup {e}
    /\ row' = IF e \in voided THEN row
              ELSE [row EXCEPT ![e]["reconcile"].state = "queued"]
    /\ job' = [job EXCEPT ![w] = [NoJob EXCEPT !.event = e, !.op = "reconcile"]]
    /\ Go(w, "correcting")
    /\ UNCHANGED <<signals, planning, overtaken>>

\* The claim, or the request ends: done already, or pending elsewhere.
ClaimReconciliation(w) ==
    LET e == job[w].event IN
    /\ pc[w] = "correcting"
    /\ IF Claimable(e, "reconcile")
       THEN ClaimDerived(w, e, "reconcile") /\ Go(w, "looking")
       ELSE Stop(w) /\ UNCHANGED <<row, overtaken>>
    /\ UNCHANGED <<voided, signals, planning>>

\* Evidence is retracted only if its projection was completed.
LookForProjection(w) ==
    /\ pc[w] = "looking"
    /\ Go(w, IF Applied(job[w].event, "bkt") THEN "retracting" ELSE "completing")
    /\ UNCHANGED <<row, voided, signals, planning, job, overtaken>>

-----------------------------------------------------------------------------
Crash(p) ==
    LET dead == {w \in Worker : Home[w] = p} IN
    /\ \E w \in dead : pc[w] # "idle" \/ held[w] # None
    /\ pc' = [w \in Worker |-> IF w \in dead THEN "idle" ELSE pc[w]]
    /\ job' = [w \in Worker |-> IF w \in dead THEN NoJob ELSE job[w]]
    /\ held' = [w \in Worker |-> IF w \in dead THEN None ELSE held[w]]
    /\ UNCHANGED <<row, voided, signals, progress, planned, overtaken>>

WorkerStep(w) ==
    \/ \E e \in Event : StartDerived(w, e) \/ BeginProjection(w, e) \/ AppendAmendment(w, e)
    \/ OpenTool(w) \/ CloseTool(w)
    \/ ClaimLearning(w) \/ LoadPlan(w) \/ Derive(w)
    \/ ClaimProjection(w)
    \/ Prepare(w)
    \/ RecordEvent(w)
    \/ CheckEffective(w)
    \/ ProjectionRaises(w)
    \/ DeleteReads(w)
    \/ DeleteReplaces(w)
    \/ DeleteRaises(w)
    \/ ClaimReconciliation(w)
    \/ LookForProjection(w)
    \/ MarkDerivedApplied(w)
    \/ MarkDerivedFailed(w)
    \/ MarkRaises(w)

Next ==
    \/ \E e \in Event : Append(e)
    \/ \E e \in Event, op \in Operation : LeaseLapses(e, op)
    \/ \E w \in Worker : WorkerStep(w)
    \/ \E p \in Process : Crash(p)

Spec == Init /\ [][Next]_vars

-----------------------------------------------------------------------------
(* Properties. *)

\* The shape of every variable; a live lease is somebody's.
TypeOK ==
    /\ row \in [Event -> [Operation -> Row]]
    /\ voided \subseteq Event
    /\ signals \subseteq Signal
    /\ progress \subseteq Event
    /\ held \in [Worker -> (SUBSET Event) \cup {None}]
    /\ planned \subseteq Event
    /\ pc \in [Worker -> Points]
    /\ job \in [Worker -> Job]
    /\ overtaken \subseteq Event
    /\ \A e \in Event, op \in Operation :
          /\ row[e][op].live => row[e][op].token # NoToken
          /\ row[e][op].token # NoToken => row[e][op].state = "queued"
    /\ \A w \in Worker : pc[w] # "idle" => job[w].event \in Event

\* The evidence of an answer whose projection was completed is there in full, for
\* every component, whatever failed, died and was compensated on the way; unless
\* the answer was voided, or a living worker's lease lapsed under it.
EvidenceIsKept ==
    \A e \in Event :
        Applied(e, "bkt") /\ e \notin voided /\ e \notin overtaken => Of(e) \subseteq signals

\* An answer that is marked as derived has been in a plan that was saved, whoever
\* took the derivation over and however often it failed.
AppliedWasPlanned == \A e \in Event : Applied(e, "learning") => e \in planned

\* "Module-level lock so CAS semantics hold across all store instances" (storage.py),
\* "apply one projection once" (events.py): the plan that is there has every answer
\* that is marked as derived.
AppliedIsPlanned == \A e \in Event : Applied(e, "learning") => e \in progress

GoneForGood(e) == /\ e \in voided
                  /\ Of(e) \cap signals = {}
                  /\ \A w \in Worker : ~Works(w, e, "bkt")

\* Once a voided answer has no evidence and nobody is still projecting it, its
\* evidence never comes back: no retry of a pending projection picks it up.
VoidedStaysOut == [][\A e \in Event : GoneForGood(e) => GoneForGood(e)']_vars

\* "Retract the just-written signal before completion so no read path keeps
\* superseded evidence after the ledger has declared it ineffective"
\* (event_chain.py): when projection and correction of a voided answer are both
\* completed and nobody works on either, no evidence of it is left.
VoidedIsRetracted ==
    \A e \in Event :
        /\ e \in voided
        /\ Applied(e, "bkt") /\ Applied(e, "reconcile")
        /\ \A w \in Worker : job[w].event # e
        => Of(e) \cap signals = {}
=============================================================================
