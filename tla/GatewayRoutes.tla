---------------------------- MODULE GatewayRoutes ----------------------------
(***************************************************************************)
(* Calls of the model gateway and the routes they take: the bounded        *)
(* rotation of gateway/quota_rotation.py (complete) and of                 *)
(* gateway/service.py (stream), and the route circuits they share,         *)
(* gateway/route_health.py.                                                *)
(*                                                                         *)
(* A call tries its routes in order, the same route once more after an     *)
(* error that may pass.  An attempt is one request to the provider, and    *)
(* after an error one more without the images of the messages, where there *)
(* are some and the route is not known to take them                        *)
(* (provider_core/base.py, _call_with_retry).  The circuits are in SQLite  *)
(* and belong to every call of every process; each call of the store is    *)
(* one transaction.  Between a look at a circuit and the outcome of the    *)
(* attempt that follows anything may happen to it.                         *)
(*                                                                         *)
(* Deadlines and circuits are on one clock here.  The provider is external *)
(* and answers, fails or stalls as it likes.  A caller that goes away, or  *)
(* whose process dies, leaves its attempt unrecorded.                      *)
(***************************************************************************)
EXTENDS Integers, Sequences, FiniteSets

CONSTANTS
    Completion, Stream,     \* calls of complete and of stream
    Pictured,               \* those whose messages have images in them
    Route,                  \* what the catalog configures
    Blind,                  \* routes whose model is not known to take images
    MaxRoutes,              \* MAX_QUOTA_ROUTES, or MAX_GENERATION_ROUTES
    Budget,                 \* the deadline of a call
    Threshold, Cooldown,    \* of a route's circuit
    MaxFailures,            \* where the count of failures stops: 100 in the code
    MaxClock,               \* bound: time, with room for the calls that begin
    MaxFaults               \* bound: store calls that raise

ASSUME ConstantsAssumption ==
    /\ Completion \cap Stream = {}
    /\ Pictured \subseteq Completion \cup Stream /\ Blind \subseteq Route
    /\ MaxRoutes \in Nat \ {0} /\ Budget \in Nat \ {0}
    /\ Threshold \in 1..MaxFailures /\ MaxFailures \in Nat
    /\ Cooldown \in Nat \ {0}
    /\ MaxClock \in Nat /\ MaxFaults \in Nat

VARIABLES
    clock,
    health,     \* health[r]: its entry in the store
    call,       \* call[c]: where its loop is
    sent,       \* sent[c]: the requests made for it
    spoke,      \* spoke[c]: which of them had some output passed on
    streak,     \* history: the failures recorded of r since its last success
    faults      \* store calls that raised so far

vars == <<clock, health, call, sent, spoke, streak, faults>>

-----------------------------------------------------------------------------
Calls == Completion \cup Stream

Ended == {"answered", "failed", "exhausted", "cancelled"}

\* opened_until; no entry reads as zeros.
Health == [failures : 0..MaxFailures, until : Nat]

NoHealth == [failures |-> 0, until |-> 0]

\* limit: when an attempt is given up that has had no output.
Call == [at : {"idle", "choosing", "invoking"} \cup Ended,
         routes : Seq(Route), k : Nat, retry : 1..2,
         deadline : Nat, limit : Nat, erred : BOOLEAN]

NoCall == [at |-> "idle", routes |-> <<>>, k |-> 1, retry |-> 1,
           deadline |-> 0, limit |-> 0, erred |-> FALSE]

NoStreak == [count |-> 0, at |-> 0]

\* plain: without the images of the messages.
Request == [route : Route, retry : 1..2, plain : BOOLEAN]

\* The active route and the distinct fallbacks after it.
Routings == {rs \in UNION {[1..n -> Route] : n \in 1..MaxRoutes} :
                \A i, j \in DOMAIN rs : rs[i] = rs[j] => i = j}

Init ==
    /\ clock = 0
    /\ health = [r \in Route |-> NoHealth]
    /\ call = [c \in Calls |-> NoCall]
    /\ sent = [c \in Calls |-> <<>>]
    /\ spoke = [c \in Calls |-> {}]
    /\ streak = [r \in Route |-> NoStreak]
    /\ faults = 0

(* The circuit of a route. *)

Allows(r) == health[r].until <= clock

RecordsSuccess(r) ==
    /\ health' = [health EXCEPT ![r] = NoHealth]
    /\ streak' = [streak EXCEPT ![r] = NoStreak]

\* Variant: the count is not capped.
RecordsFailureUncapped(r) ==
    LET n == health[r].failures + 1 IN
    /\ health' = [health EXCEPT ![r] =
                     [failures |-> n,
                      until    |-> IF n >= Threshold THEN clock + Cooldown ELSE health[r].until]]
    /\ streak' = [streak EXCEPT ![r] = [count |-> @.count + 1, at |-> clock]]

\* Variant: the circuit opens when the threshold is crossed, and not again.
RecordsFailureOnce(r) ==
    LET n == IF health[r].failures < MaxFailures THEN health[r].failures + 1 ELSE MaxFailures IN
    /\ health' = [health EXCEPT ![r] =
                     [failures |-> n,
                      until    |-> IF n = Threshold THEN clock + Cooldown ELSE health[r].until]]
    /\ streak' = [streak EXCEPT ![r] = [count |-> @.count + 1, at |-> clock]]

\* Consecutive failures open the circuit; while they go on each opens it anew.
RecordsFailure(r) ==
    LET n == IF health[r].failures < MaxFailures THEN health[r].failures + 1 ELSE MaxFailures IN
    /\ health' = [health EXCEPT ![r] =
                     [failures |-> n,
                      until    |-> IF n >= Threshold THEN clock + Cooldown ELSE health[r].until]]
    /\ streak' = [streak EXCEPT ![r] = [count |-> @.count + 1, at |-> clock]]

(* The loop of a call. *)

Begins(c, rs) ==
    /\ call[c] = NoCall
    /\ clock + Budget <= MaxClock
    /\ call' = [call EXCEPT ![c] = [NoCall EXCEPT !.at = "choosing", !.routes = rs,
                                                  !.deadline = clock + Budget]]
    /\ UNCHANGED <<clock, health, sent, spoke, streak, faults>>

RouteOf(x) == x.routes[x.k]

RequestOf(x, plain) == [route |-> RouteOf(x), retry |-> x.retry, plain |-> plain]

OneAttempt(a, b) == a.route = b.route /\ a.retry = b.retry

\* The call returns or raises: of its loop nothing is left.
Over(outcome) == [NoCall EXCEPT !.at = outcome]

\* No route is left: the last error of a provider is raised, if there was one.
GivenUp(x) == Over(IF x.erred THEN "failed" ELSE "exhausted")

Rotated(x) ==
    IF x.k < Len(x.routes)
    THEN [x EXCEPT !.at = "choosing", !.k = @ + 1, !.retry = 1]
    ELSE GivenUp(x)

\* The circuit of the route is open.
PassesOver(c) ==
    /\ call[c].at = "choosing"
    /\ ~Allows(RouteOf(call[c]))
    /\ call' = [call EXCEPT ![c] = Rotated(call[c])]
    /\ UNCHANGED <<clock, health, sent, spoke, streak, faults>>

\* The deadline has passed; complete does not say what the last error was.
RunsOut(c) ==
    /\ call[c].at = "choosing"
    /\ Allows(RouteOf(call[c]))
    /\ clock >= call[c].deadline
    /\ call' = [call EXCEPT ![c] = IF c \in Stream THEN GivenUp(call[c])
                                   ELSE Over("exhausted")]
    /\ UNCHANGED <<clock, health, sent, spoke, streak, faults>>

\* How long an attempt may take to its first output: a stream keeps a share of what
\* remains for each route that is left, rounded up here.
Share(c) ==
    LET remaining == call[c].deadline - clock
        routes == Len(call[c].routes) - call[c].k + 1
    IN  IF c \in Stream THEN (remaining + routes - 1) \div routes ELSE remaining

Invokes(c) ==
    /\ call[c].at = "choosing"
    /\ Allows(RouteOf(call[c]))
    /\ clock < call[c].deadline
    /\ call' = [call EXCEPT ![c].at = "invoking", ![c].limit = clock + Share(c)]
    /\ sent' = [sent EXCEPT ![c] = Append(@, RequestOf(call[c], FALSE))]
    /\ UNCHANGED <<clock, health, spoke, streak, faults>>

\* The request fails with an error that does not look like it may pass, and is made
\* again without the images: within the attempt, whatever was passed on already, with
\* no look at the circuit and within the same limits.
FallsBack(c) ==
    /\ c \in Pictured
    /\ call[c].at = "invoking"
    /\ RouteOf(call[c]) \in Blind
    /\ ~sent[c][Len(sent[c])].plain
    /\ sent' = [sent EXCEPT ![c] = Append(@, RequestOf(call[c], TRUE))]
    /\ UNCHANGED <<clock, health, call, spoke, streak, faults>>

\* The requests of the attempt that the loop is at.
Attempt(c) == {i \in DOMAIN sent[c] : OneAttempt(sent[c][i], RequestOf(call[c], FALSE))}

\* route_saw_output.
Spoke(c) == spoke[c] \cap Attempt(c) # {}

\* The first text, reasoning or tool call of the answer to a request is passed on.
Speaks(c) ==
    /\ c \in Stream
    /\ call[c].at = "invoking"
    /\ Len(sent[c]) \notin spoke[c]
    /\ spoke' = [spoke EXCEPT ![c] = @ \cup {Len(sent[c])}]
    /\ UNCHANGED <<clock, health, call, sent, streak, faults>>

Succeeds(c) ==
    /\ call[c].at = "invoking"
    /\ RecordsSuccess(RouteOf(call[c]))
    /\ call' = [call EXCEPT ![c] = Over("answered")]
    /\ UNCHANGED <<clock, sent, spoke, faults>>

\* Variant: an error after the first output is handled like any other.
HandlesReplaying(c, transient) ==
    LET x == [call[c] EXCEPT !.erred = TRUE, !.limit = 0] IN
    /\ RecordsFailure(RouteOf(x))
    /\ call' = [call EXCEPT ![c] =
                   IF transient /\ x.retry = 1
                   THEN [x EXCEPT !.at = "choosing", !.retry = 2]
                   ELSE Rotated(x)]
    /\ UNCHANGED <<clock, sent, spoke>>

\* What is done about the exception of an attempt.
Handles(c, transient) ==
    LET x == [call[c] EXCEPT !.erred = TRUE, !.limit = 0] IN
    /\ RecordsFailure(RouteOf(x))
    /\ call' = [call EXCEPT ![c] =
                   IF Spoke(c) THEN Over("failed")
                   ELSE IF transient /\ x.retry = 1
                   THEN [x EXCEPT !.at = "choosing", !.retry = 2]
                   ELSE Rotated(x)]
    /\ UNCHANGED <<clock, sent, spoke>>

\* default_same_route_retryable says which errors may pass.
Fails(c) ==
    /\ call[c].at = "invoking"
    /\ \E transient \in BOOLEAN : Handles(c, transient)
    /\ UNCHANGED faults

\* Variant: what has begun to speak is waited for.
DueBeforeOutput(c) == ~Spoke(c) /\ clock >= call[c].limit

Due(c) == clock >= call[c].deadline \/ (~Spoke(c) /\ clock >= call[c].limit)

\* The timeout of the attempt or of the call; its message is not one that may pass.
TimesOut(c) ==
    /\ call[c].at = "invoking"
    /\ Due(c)
    /\ Handles(c, FALSE)
    /\ UNCHANGED faults

\* The caller cancels or is gone.
Leaves(c) ==
    /\ call[c].at = "invoking"
    /\ call' = [call EXCEPT ![c] = Over("cancelled")]
    /\ UNCHANGED <<clock, health, sent, spoke, streak, faults>>

\* The store raises.  The call ends with that, but for a stream that succeeded: it is
\* handled as if its route had failed.
StoreFails(c) ==
    /\ faults < MaxFaults
    /\ faults' = faults + 1
    /\ \/ /\ call[c].at \in {"choosing", "invoking"}
          /\ call' = [call EXCEPT ![c] = Over("failed")]
          /\ UNCHANGED <<clock, health, sent, spoke, streak>>
       \/ /\ c \in Stream
          /\ call[c].at = "invoking"
          /\ Handles(c, FALSE)

Tick ==
    /\ clock < MaxClock
    /\ clock' = clock + 1
    /\ UNCHANGED <<health, call, sent, spoke, streak, faults>>

\* What the loop does by itself.
LoopStep(c) == PassesOver(c) \/ RunsOut(c) \/ Invokes(c) \/ TimesOut(c)

\* What callers, providers and the store do to it.
OutsideStep(c) ==
    \/ \E rs \in Routings : Begins(c, rs)
    \/ Speaks(c) \/ FallsBack(c) \/ Succeeds(c) \/ Fails(c) \/ Leaves(c)
    \/ StoreFails(c)

Next == Tick \/ \E c \in Calls : LoopStep(c) \/ OutsideStep(c)

Spec == Init /\ [][Next]_vars

\* Time passes and the event loop runs what is due.  No provider has to answer.
Fairness == WF_vars(Tick) /\ \A c \in Calls : WF_vars(LoopStep(c))

FairSpec == Spec /\ Fairness

-----------------------------------------------------------------------------
(* Properties. *)

TypeOK ==
    /\ clock \in Nat
    /\ health \in [Route -> Health]
    /\ call \in [Calls -> Call]
    /\ sent \in [Calls -> Seq(Request)]
    /\ spoke \in [Calls -> SUBSET Nat]
    /\ streak \in [Route -> [count : Nat, at : Nat]]
    /\ faults \in 0..MaxFaults

\* No request is made a second time as it was, and a route is not come back to.  Once
\* some of the answer was passed on there is no further request, but for the one that
\* an attempt on a route not known to take images makes without them: a call does not
\* multiply what is spent, and a reader sees a stream begun again at most once, by the
\* same attempt.
RequestsAreNotReplayed ==
    \A c \in Calls : \A i, j \in DOMAIN sent[c] :
        i < j =>
            /\ sent[c][i] # sent[c][j]
            /\ sent[c][i].route = sent[c][j].route =>
                   \A k \in i..j : sent[c][k].route = sent[c][i].route
            /\ i \in spoke[c] => /\ c \in Pictured /\ sent[c][i].route \in Blind
                                 /\ j = i + 1 /\ sent[c][j].plain
                                 /\ OneAttempt(sent[c][i], sent[c][j])

\* A route that has failed Threshold times and more without a success in between, for
\* whichever calls and however their attempts overlap, is left alone for Cooldown
\* after the last of the failures: no attempt begins on it.
FailingRoutesRest ==
    [][\A c \in Calls :
          (call[c].at # "invoking" /\ call'[c].at = "invoking") =>
              LET s == streak[RouteOf(call[c])] IN
              s.count >= Threshold => clock >= s.at + Cooldown]_vars

\* Every call comes to an end, whether or not a provider ever answers.
CallsAreAnswered ==
    \A c \in Calls : call[c].at \in {"choosing", "invoking"} ~> call[c].at \in Ended
==============================================================================
