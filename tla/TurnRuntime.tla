----------------------------- MODULE TurnRuntime -----------------------------
(***************************************************************************)
(* Conversation turns: services/session/turn_runtime.py, the turn tables   *)
(* of sqlite_store.py and the WebSocket endpoint unified_ws.py.            *)
(*                                                                         *)
(* A connection starts a turn and is sent its events: the recorded ones,   *)
(* those the live execution still has in memory, then those it publishes.  *)
(* Closing the connection cancels the turn.  A turn runs as a task of its  *)
(* own; its row, its events and its messages are in SQLite, everything     *)
(* else is gone when the process dies.                                     *)
(*                                                                         *)
(* All of it runs on one event loop of one process.  The manager's lock is *)
(* never held over an await, and the store's lock is held from a call      *)
(* until its caller goes on.  So an action is a store call, followed by    *)
(* what its caller does up to its next await.  A store call that is        *)
(* abandoned by a cancellation is done by then or never.  Sessions and     *)
(* turns are not deleted while a turn runs.                                *)
(***************************************************************************)
EXTENDS Integers, Sequences, FiniteSets

CONSTANTS
    Connection,     \* connections of one user, in the order they are opened
    Session,        \* conversations
    Turn,           \* turn ids, in the order they are drawn
    NoTurn, NoSession,
    MaxOpen,        \* bound: connections open at once; those that close do not count
    MaxOutputs,     \* bound: events an answer streams
    MaxReplies,     \* bound: replies to questions of a turn
    MaxFaults       \* bound: crashes and store calls that raise

ASSUME ConstantsAssumption ==
    /\ Connection \subseteq Nat
    /\ Turn \subseteq Nat /\ NoTurn \notin Turn
    /\ NoSession \notin Session
    /\ MaxOpen \in Nat /\ MaxOutputs \in Nat /\ MaxReplies \in Nat /\ MaxFaults \in Nat

VARIABLES
    row,        \* row[t]: its turns row
    stored,     \* stored[t]: its events in turn_events
    answers,    \* answers[t]: the assistant messages it has added
    log,        \* log[t]: execution.events, what the run has published
    run,        \* run[t]: its execution and the task that runs it
    replies,    \* replies[t]: answers waiting in its reply queue
    conn,       \* conn[c]: the handler of connection c
    view,       \* view[c]: the subscription c forwards events from
    faults      \* crashes and failed store calls so far

vars == <<row, stored, answers, log, run, replies, conn, view, faults>>

-----------------------------------------------------------------------------
Settled == {"completed", "failed", "cancelled"}

\* The events of a turn.  DONE is named for the status it carries; the ERROR that is
\* always published with a DONE of the other two statuses is part of it.
Event == {"session", "output", "title"} \cup Settled

Row == [status : {"absent", "running"} \cup Settled, session : Session \cup {NoSession}]

Absent == [status |-> "absent", session |-> NoSession]

\* What _run_turn is in the middle of, the connections that subscribe to it,
\* and whether the recording of its events has begun.
Run == [at : {"none", "streaming", "asking", "answering", "recording",
              "flushing", "completing", "titling",
              "failing", "failed", "cancelling", "keeping", "cancelled"},
        subs : SUBSET Connection, flushed : BOOLEAN]

NoRun == [at |-> "none", subs |-> {}, flushed |-> FALSE]

Live(t) == run[t].at # "none"

\* Up to the moment the outcome of the turn is decided.
Working == {"streaming", "asking", "answering", "recording", "flushing", "completing"}

Conn == [at : {"off", "open", "recovering", "creating", "settling", "awaiting", "closed"},
         session : Session \cup {NoSession}, turn : Turn \cup {NoTurn},
         victim : Turn \cup {NoTurn}]

Off == [at |-> "off", session |-> NoSession, turn |-> NoTurn, victim |-> NoTurn]

Closed == [Off EXCEPT !.at = "closed"]

\* An event with its sequence number, as it is queued for a subscriber.
Item == [seq : Nat, type : Event \cup {"end"}]

End == [seq |-> 0, type |-> "end"]

\* seen: the sequence numbers yielded; queue: what waits for the subscriber.
View == [turn : Turn \cup {NoTurn},
         at : {"none", "begun", "attaching", "live", "orphan", "ended"},
         seen : Seq(Nat), queue : Seq(Item), done : BOOLEAN]

NoView == [turn |-> NoTurn, at |-> "none", seen |-> <<>>, queue |-> <<>>, done |-> FALSE]

Running(s) == {t \in Turn : row[t] = [status |-> "running", session |-> s]}

\* Sequence numbers m+1 .. n.
Stretch(m, n) == [i \in 1..(n - m) |-> m + i]

Last(v) == IF v.seen = <<>> THEN 0 ELSE v.seen[Len(v.seen)]

\* v after it yields those of events, numbered from 1, that it has not.
Yields(v, events) ==
    [v EXCEPT !.seen = @ \o Stretch(Last(v), Len(events)),
              !.done = @ \/ \E n \in (Last(v) + 1)..Len(events) : events[n] \in Settled]

\* The generator has returned; all that is left is what the client was told.
Ended(v, done) == [NoView EXCEPT !.turn = v.turn, !.at = "ended", !.done = done]

-----------------------------------------------------------------------------
Init ==
    /\ row = [t \in Turn |-> Absent]
    /\ stored = [t \in Turn |-> <<>>]
    /\ answers = [t \in Turn |-> 0]
    /\ log = [t \in Turn |-> <<>>]
    /\ run = [t \in Turn |-> NoRun]
    /\ replies = [t \in Turn |-> 0]
    /\ conn = [c \in Connection |-> Off]
    /\ view = [c \in Connection |-> NoView]
    /\ faults = 0

(* A connection. *)

Opened(c) == conn[c].at \in {"open", "recovering", "creating"}

\* Variant: a turn that is running is taken for an orphan.
StartListsWithoutLiveness(c, s) ==
    /\ \/ conn[c].at = "open"
       \/ /\ conn[c] = Off
          /\ \A d \in Connection : d < c => conn[d] # Off
          /\ Cardinality({d \in Connection : Opened(d)}) < MaxOpen
    /\ \E t \in Turn : row[t] = Absent
    /\ \/ /\ Running(s) = {}
          /\ conn' = [conn EXCEPT ![c].at = "creating", ![c].session = s]
       \/ \E t \in Running(s) :
          conn' = [conn EXCEPT ![c].at = "recovering", ![c].session = s, ![c].victim = t]
    /\ UNCHANGED <<row, stored, answers, log, run, replies, view, faults>>

\* start_turn up to list_active_turns, and the first look at what it returned.  It is
\* the first thing of consequence that happens on a connection.
StartLists(c, s) ==
    LET orphans == {t \in Running(s) : ~Live(t)} IN
    /\ \/ conn[c].at = "open"
       \/ /\ conn[c] = Off
          /\ \A d \in Connection : d < c => conn[d] # Off
          /\ Cardinality({d \in Connection : Opened(d)}) < MaxOpen
    /\ \E t \in Turn : row[t] = Absent
    /\ \/ /\ orphans = {}
          /\ conn' = [conn EXCEPT ![c].at = "creating", ![c].session = s]
       \/ \E t \in orphans :
          conn' = [conn EXCEPT ![c].at = "recovering", ![c].session = s, ![c].victim = t]
    /\ UNCHANGED <<row, stored, answers, log, run, replies, view, faults>>

\* _fail_orphan_running_turn: the status is written whatever it is by now.
StartRecovers(c) ==
    /\ conn[c].at = "recovering"
    /\ row' = [row EXCEPT ![conn[c].victim].status = "failed"]
    /\ conn' = [conn EXCEPT ![c].at = "creating", ![c].victim = NoTurn]
    /\ UNCHANGED <<stored, answers, log, run, replies, view, faults>>

\* Whatever c is subscribed to forgets it.
Unsubscribed(c) ==
    [t \in Turn |-> IF c \in run[t].subs THEN [run[t] EXCEPT !.subs = @ \ {c}] ELSE run[t]]

\* create_turn refuses a second running turn of a session.  Without an await its caller
\* registers the execution, with the SESSION event in it, and replaces the forwarder.
StartCreates(c) ==
    LET s == conn[c].session IN
    /\ conn[c].at = "creating"
    /\ IF Running(s) # {}
       THEN /\ conn' = [conn EXCEPT ![c].at = "open", ![c].session = NoSession]
            /\ UNCHANGED <<row, log, run, view>>
       ELSE \E t \in Turn :
            /\ row[t] = Absent
            /\ \A u \in Turn : u < t => row[u] # Absent
            /\ row' = [row EXCEPT ![t] = [status |-> "running", session |-> s]]
            /\ log' = [log EXCEPT ![t] = <<"session">>]
            /\ run' = [Unsubscribed(c) EXCEPT ![t].at = "streaming"]
            /\ view' = [view EXCEPT ![c] = [NoView EXCEPT !.turn = t, !.at = "begun"]]
            /\ conn' = [conn EXCEPT ![c] = [Off EXCEPT !.at = "open", !.turn = t]]
    /\ UNCHANGED <<stored, answers, replies, faults>>

\* submit_user_reply, on whatever connection.  The reply queue is there from the
\* beginning of the run, so the model need not have asked; what comes after the
\* answer, or is left in the queue then, is never read.
Reply(t) ==
    /\ run[t].at \in {"streaming", "asking"}
    /\ replies[t] < MaxReplies
    /\ replies' = [replies EXCEPT ![t] = @ + 1]
    /\ UNCHANGED <<row, stored, answers, log, run, conn, view, faults>>

-----------------------------------------------------------------------------
(* The run of a turn. *)

\* Every subscriber of t is sent the items.
Sent(t, items) ==
    [c \in Connection |->
        IF c \in run[t].subs THEN [view[c] EXCEPT !.queue = @ \o items] ELSE view[c]]

\* types, numbered after what t has published.
Items(t, types) == [i \in DOMAIN types |-> [seq |-> Len(log[t]) + i, type |-> types[i]]]

\* _publish_live_event, once for each of types.
Publish(t, types) ==
    /\ log' = [log EXCEPT ![t] = @ \o types]
    /\ view' = Sent(t, Items(t, types))

ForgetsReplies(t) == replies' = [replies EXCEPT ![t] = 0]

\* The connections whose cancel_turn waits for the task of t.
Waiting(t) == {c \in Connection : conn[c].at = "awaiting" /\ conn[c].turn = t}

\* The finally clause of _run_turn.  types is what was published just before.  The
\* handler that waits for the task goes on: it stops its forwarder and returns.
Finish(t, types) ==
    /\ run' = [run EXCEPT ![t] = NoRun]
    /\ log' = [log EXCEPT ![t] = <<>>]
    /\ ForgetsReplies(t)
    /\ view' = [c \in Connection |-> IF c \in Waiting(t) THEN NoView
                                    ELSE Sent(t, Append(Items(t, types), End))[c]]
    /\ conn' = [c \in Connection |-> IF c \in Waiting(t) THEN Closed ELSE conn[c]]

GoesTo(t, at) == run' = [run EXCEPT ![t].at = at]

Outputs(t) == {n \in 1..Len(log[t]) : log[t][n] = "output"}

\* The user's message is in the session and the capability answers it.
Streams(t) ==
    /\ run[t].at = "streaming"
    /\ Cardinality(Outputs(t)) < MaxOutputs
    /\ Publish(t, <<"output">>)
    /\ UNCHANGED <<row, stored, answers, run, replies, conn, faults>>

\* ask_user pauses the answer until there is a reply.
Asks(t) ==
    /\ run[t].at = "streaming"
    /\ GoesTo(t, "asking")
    /\ UNCHANGED <<row, stored, answers, log, replies, conn, view, faults>>

TakesReply(t) ==
    /\ run[t].at = "asking"
    /\ replies[t] > 0
    /\ replies' = [replies EXCEPT ![t] = @ - 1]
    /\ GoesTo(t, "streaming")
    /\ UNCHANGED <<row, stored, answers, log, conn, view, faults>>

StreamEnds(t) ==
    /\ run[t].at = "streaming"
    /\ GoesTo(t, "answering")
    /\ ForgetsReplies(t)
    /\ UNCHANGED <<row, stored, answers, log, conn, view, faults>>

AddsAnswer(t) ==
    /\ run[t].at = "answering"
    /\ answers' = [answers EXCEPT ![t] = @ + 1]
    /\ GoesTo(t, "recording")
    /\ UNCHANGED <<row, stored, log, replies, conn, view, faults>>

\* Variant: the status is written before the events are.
RecordsConversationUnflushed(t) ==
    /\ run[t].at = "recording"
    /\ GoesTo(t, "completing")
    /\ UNCHANGED <<row, stored, answers, log, replies, conn, view, faults>>

\* The diagram and the conversation store; _flush_buffered_events begins.
RecordsConversation(t) ==
    /\ run[t].at = "recording"
    /\ run' = [run EXCEPT ![t].at = "flushing", ![t].flushed = TRUE]
    /\ UNCHANGED <<row, stored, answers, log, replies, conn, view, faults>>

\* Where the cancellation handler goes after its flush.
Keeping(t) == IF Outputs(t) # {} THEN "keeping" ELSE "cancelled"

\* The next of the events published goes into turn_events.
Stores(t) == stored' = [stored EXCEPT ![t] = Append(@, log[t][Len(@) + 1])]

\* One append_turn_event of a flush, on any of the three ways to one.
RecordsEvent(t) ==
    LET next == CASE run[t].at = "flushing"   -> "completing"
                  [] run[t].at = "failing"    -> "failed"
                  [] run[t].at = "cancelling" -> Keeping(t)
    IN  /\ run[t].at \in {"flushing", "failing", "cancelling"}
        /\ Stores(t)
        /\ IF stored'[t] = log[t] THEN GoesTo(t, next) ELSE UNCHANGED run
        /\ UNCHANGED <<row, answers, log, replies, conn, view, faults>>

\* Variant: DONE is published as the capability made it, without a status.
CompletesWithoutStatus(t) ==
    /\ run[t].at = "completing"
    /\ row' = [row EXCEPT ![t].status = "completed"]
    /\ Publish(t, <<"done">>)
    /\ GoesTo(t, "titling")
    /\ UNCHANGED <<stored, answers, replies, conn, faults>>

\* The status, then DONE, which is not recorded.
Completes(t) ==
    /\ run[t].at = "completing"
    /\ row' = [row EXCEPT ![t].status = "completed"]
    /\ Publish(t, <<"completed">>)
    /\ GoesTo(t, "titling")
    /\ UNCHANGED <<stored, answers, replies, conn, faults>>

\* A session that has a title keeps it; otherwise one is generated.
Titles(t) ==
    /\ run[t].at = "titling"
    /\ \E types \in {<<>>, <<"title">>} : Finish(t, types)
    /\ UNCHANGED <<row, stored, answers, faults>>

\* The handler of an exception begins, and its flush if there was none.
Fails(t) ==
    /\ Publish(t, <<"failed">>)
    /\ run' = [run EXCEPT ![t].at = IF run[t].flushed THEN "failed" ELSE "failing",
                          ![t].flushed = TRUE]
    /\ ForgetsReplies(t)

\* The session is refused, the capability or the conversation store raises.
RunFails(t) ==
    /\ run[t].at \in {"streaming", "recording"}
    /\ Fails(t)
    /\ UNCHANGED <<row, stored, answers, conn, faults>>

RecordsFailure(t) ==
    /\ run[t].at = "failed"
    /\ row' = [row EXCEPT ![t].status = "failed"]
    /\ Finish(t, <<>>)
    /\ UNCHANGED <<stored, answers, faults>>

\* Variant: the handler ends with the partial answer.
KeepsPartialOnly(t) ==
    /\ run[t].at = "keeping"
    /\ answers' = [answers EXCEPT ![t] = @ + 1]
    /\ Finish(t, <<>>)
    /\ UNCHANGED <<row, stored, faults>>

\* The partial answer of a cancelled turn.
KeepsPartial(t) ==
    /\ run[t].at = "keeping"
    /\ answers' = [answers EXCEPT ![t] = @ + 1]
    /\ GoesTo(t, "cancelled")
    /\ UNCHANGED <<row, stored, log, replies, conn, view, faults>>

RecordsCancellation(t) ==
    /\ run[t].at = "cancelled"
    /\ row' = [row EXCEPT ![t].status = "cancelled"]
    /\ Finish(t, <<>>)
    /\ UNCHANGED <<stored, answers, faults>>

\* A store call raises.  The cancellation handler suppresses it call by call,
\* the failure handler only while it flushes.
StoreFails(t) ==
    /\ faults < MaxFaults
    /\ faults' = faults + 1
    /\ \/ /\ run[t].at \in {"answering", "flushing", "completing"}
          /\ Fails(t)
          /\ UNCHANGED conn
       \/ /\ run[t].at \in {"failing", "cancelling", "keeping"}
          /\ GoesTo(t, CASE run[t].at = "failing"    -> "failed"
                         [] run[t].at = "cancelling" -> Keeping(t)
                         [] run[t].at = "keeping"    -> "cancelled")
          /\ UNCHANGED <<log, replies, conn, view>>
       \/ /\ run[t].at \in {"failed", "cancelled"}
          /\ Finish(t, <<>>)
    /\ UNCHANGED <<row, stored, answers>>

-----------------------------------------------------------------------------
(* A connection closes: its last turn is cancelled.  Until cancel_turn has looked up *)
(* the row all goes on as if the connection were open, so it is one step with that.  *)

\* The store call the task waits for goes through in its thread, or has not
\* begun and never will.
CallLands(t) ==
    \/ UNCHANGED <<row, stored, answers>>
    \/ /\ run[t].at = "answering"
       /\ answers' = [answers EXCEPT ![t] = @ + 1]
       /\ UNCHANGED <<row, stored>>
    \/ /\ run[t].at \in {"flushing", "failing"}
       /\ Stores(t)
       /\ UNCHANGED <<row, answers>>
    \/ /\ run[t].at \in {"completing", "failed"}
       /\ row' = [row EXCEPT ![t].status =
                    IF run[t].at = "failed" THEN "failed" ELSE "completed"]
       /\ UNCHANGED <<stored, answers>>

\* CancelledError reaches _run_turn.  A flush that has begun is not begun again;
\* after DONE nothing is published; in the handler of an exception nothing
\* catches it.
Interrupted(t) ==
    \/ /\ run[t].at \in Working
       /\ Publish(t, <<"cancelled">>)
       /\ run' = [run EXCEPT ![t].at = IF run[t].flushed THEN Keeping(t) ELSE "cancelling",
                             ![t].flushed = TRUE]
       /\ ForgetsReplies(t)
    \/ /\ run[t].at = "titling"
       /\ GoesTo(t, Keeping(t))
       /\ UNCHANGED <<log, replies, view>>

\* stop_forwarding, and the handler returns.
StopsForwarding(c) ==
    /\ run' = Unsubscribed(c)
    /\ view' = [view EXCEPT ![c] = NoView]
    /\ conn' = [conn EXCEPT ![c] = Closed]

\* Variant: the cancellation is signalled, and the task has to notice.
CancelsTaskBySignal(c) ==
    LET t == conn[c].turn IN
    /\ t # NoTurn
    /\ Live(t)
    /\ conn' = [conn EXCEPT ![c].at = "awaiting"]
    /\ UNCHANGED <<row, stored, answers, log, run, replies, view>>

\* task.cancel(); the caller waits for the task to end.
CancelsTask(c) ==
    LET t == conn[c].turn IN
    /\ t # NoTurn
    /\ Live(t)
    /\ CallLands(t)
    /\ IF run[t].at \in {"failing", "failed"}
       THEN /\ run' = [run EXCEPT ![t] = NoRun]
            /\ log' = [log EXCEPT ![t] = <<>>]
            /\ ForgetsReplies(t)
            /\ view' = [view EXCEPT ![c] = NoView]
            /\ conn' = [conn EXCEPT ![c] = Closed]
       ELSE /\ Interrupted(t)
            /\ conn' = [conn EXCEPT ![c].at = "awaiting"]

\* There is none, and the status is next to be written if it says there is.
FindsNoTask(c) ==
    LET t == conn[c].turn IN
    /\ t # NoTurn
    /\ ~Live(t)
    /\ IF row[t].status = "running"
       THEN /\ conn' = [conn EXCEPT ![c].at = "settling"]
            /\ UNCHANGED <<run, view>>
       ELSE StopsForwarding(c)
    /\ UNCHANGED <<row, stored, answers, log, replies>>

Disconnect(c) ==
    /\ conn[c].at = "open"
    /\ \/ CancelsTask(c)
       \/ FindsNoTask(c)
       \/ /\ conn[c].turn = NoTurn
          /\ StopsForwarding(c)
          /\ UNCHANGED <<row, stored, answers, log, replies>>
    /\ UNCHANGED faults

CancelSettles(c) ==
    /\ conn[c].at = "settling"
    /\ row' = [row EXCEPT ![conn[c].turn].status = "cancelled"]
    /\ StopsForwarding(c)
    /\ UNCHANGED <<stored, answers, log, replies, faults>>

-----------------------------------------------------------------------------
(* subscribe_turn, on behalf of connection c. *)

ReadBacklog(c) ==
    /\ view[c].at = "begun"
    /\ view' = [view EXCEPT ![c] =
                   [Yields(view[c], stored[view[c].turn]) EXCEPT !.at = "attaching"]]
    /\ UNCHANGED <<row, stored, answers, log, run, replies, conn, faults>>

\* Variant: only what is published from now on is sent.
AttachWithoutMemory(c) ==
    LET v == view[c]
        t == v.turn
    IN  /\ v.at = "attaching"
        /\ Live(t)
        /\ run' = [run EXCEPT ![t].subs = @ \cup {c}]
        /\ view' = [view EXCEPT ![c].at = "live"]
        /\ UNCHANGED <<row, stored, answers, log, replies, conn, faults>>

\* The subscriber is registered and the events in memory are taken at once.
Attach(c) ==
    LET v == view[c]
        t == v.turn
    IN  /\ v.at = "attaching"
        /\ Live(t)
        /\ run' = [run EXCEPT ![t].subs = @ \cup {c}]
        /\ view' = [view EXCEPT ![c] = [Yields(v, log[t]) EXCEPT !.at = "live"]]
        /\ UNCHANGED <<row, stored, answers, log, replies, conn, faults>>

\* Variant: what is recorded is all that is sent.
CatchUpWithoutDone(c) ==
    LET v == view[c]
        w == Yields(v, stored[v.turn])
    IN  /\ v.at = "attaching"
        /\ ~Live(v.turn)
        /\ view' = [view EXCEPT ![c] = IF row[v.turn].status = "running"
                                      THEN [w EXCEPT !.at = "orphan"]
                                      ELSE Ended(w, w.done)]
        /\ UNCHANGED <<row, stored, answers, log, run, replies, conn, faults>>

\* The run is gone and adds nothing to the store, so one step will do: the rest of
\* what is recorded, the status, and the DONE that is made up if the turn is over.
CatchUp(c) ==
    LET v == view[c]
        w == Yields(v, stored[v.turn])
    IN  /\ v.at = "attaching"
        /\ ~Live(v.turn)
        /\ view' = [view EXCEPT ![c] = IF row[v.turn].status = "running"
                                      THEN [w EXCEPT !.at = "orphan"]
                                      ELSE Ended(w, TRUE)]
        /\ UNCHANGED <<row, stored, answers, log, run, replies, conn, faults>>

\* _fail_orphan_running_turn, and the DONE that is made up.
FailOrphan(c) ==
    /\ view[c].at = "orphan"
    /\ row' = [row EXCEPT ![view[c].turn].status = "failed"]
    /\ view' = [view EXCEPT ![c] = Ended(@, TRUE)]
    /\ UNCHANGED <<stored, answers, log, run, replies, conn, faults>>

\* The next item of the queue; what was sent already is not sent again.  After the
\* last a DONE is made up for a turn that is over, if none was seen.
Receive(c) ==
    LET v == view[c]
        item == Head(v.queue)
        w == [v EXCEPT !.queue = Tail(@)]
    IN  /\ v.at = "live"
        /\ v.queue # <<>>
        /\ view' = [view EXCEPT ![c] =
               IF item = End THEN Ended(v, v.done \/ row[v.turn].status # "running")
               ELSE IF item.seq <= Last(v) THEN w
               ELSE [w EXCEPT !.seen = Append(@, item.seq), !.done = @ \/ item.type \in Settled]]
        /\ UNCHANGED <<row, stored, answers, log, run, replies, conn, faults>>

-----------------------------------------------------------------------------
\* The process dies and comes back: the rows, the recorded events and the messages
\* are there, the rest is gone.
Crash ==
    /\ faults < MaxFaults
    /\ faults' = faults + 1
    /\ run' = [t \in Turn |-> NoRun]
    /\ log' = [t \in Turn |-> <<>>]
    /\ replies' = [t \in Turn |-> 0]
    /\ conn' = [c \in Connection |-> IF conn[c] = Off THEN Off ELSE Closed]
    /\ view' = [c \in Connection |-> NoView]
    /\ UNCHANGED <<row, stored, answers>>

\* What the learner does.
LearnerStep ==
    \/ \E c \in Connection : Disconnect(c) \/ \E s \in Session : StartLists(c, s)
    \/ \E t \in Turn : Reply(t)

\* What the handler of a connection goes on to do.
ConnStep(c) ==
    \/ StartRecovers(c) \/ StartCreates(c)
    \/ CancelSettles(c)

RunStep(t) ==
    \/ Streams(t) \/ Asks(t) \/ TakesReply(t) \/ StreamEnds(t)
    \/ AddsAnswer(t) \/ RecordsConversation(t) \/ RecordsEvent(t) \/ Completes(t) \/ Titles(t)
    \/ RunFails(t) \/ RecordsFailure(t) \/ KeepsPartial(t) \/ RecordsCancellation(t)

ViewStep(c) ==
    ReadBacklog(c) \/ Attach(c) \/ CatchUp(c) \/ FailOrphan(c) \/ Receive(c)

Next ==
    \/ LearnerStep
    \/ \E c \in Connection : ConnStep(c) \/ ViewStep(c)
    \/ \E t \in Turn : RunStep(t) \/ StoreFails(t)
    \/ Crash

Spec == Init /\ [][Next]_vars

\* The event loop runs every task that can go on.  Nobody has to connect, start a
\* turn, reply or leave, and nothing has to fail.
Fairness ==
    /\ \A c \in Connection : WF_vars(ConnStep(c)) /\ WF_vars(ViewStep(c))
    /\ \A t \in Turn : WF_vars(RunStep(t))

FairSpec == Spec /\ Fairness

-----------------------------------------------------------------------------
(* Properties. *)

TypeOK ==
    /\ row \in [Turn -> Row]
    /\ stored \in [Turn -> Seq(Event)]
    /\ answers \in [Turn -> Nat]
    /\ log \in [Turn -> Seq(Event)]
    /\ run \in [Turn -> Run]
    /\ replies \in [Turn -> 0..MaxReplies]
    /\ conn \in [Connection -> Conn]
    /\ view \in [Connection -> View]
    /\ faults \in 0..MaxFaults

\* A client that follows a live turn is sent every event of it once and in order,
\* wherever the turn was when it joined: what it was sent and what waits for it are
\* together all that is published (the three sources of subscribe_turn).
StreamsAreWhole ==
    \A c \in Connection :
        LET v == view[c]
            waiting == [i \in DOMAIN v.queue |-> v.queue[i].seq]
        IN  /\ v.seen = Stretch(0, Last(v))
            /\ v.at = "live" /\ Live(v.turn) =>
                   v.seen \o waiting = Stretch(0, Len(log[v.turn]))

\* A turn that is recorded as completed has its answer in the session and all of
\* the answer's events in turn_events: the status is written last.
CompletedIsPersisted ==
    \A t \in Turn :
        row[t].status = "completed" =>
            /\ answers[t] >= 1
            /\ stored[t] # <<>>
            /\ Outputs(t) \subseteq DOMAIN stored[t]

\* A turn is not given another outcome while it works: nobody takes it for one
\* that a dead process left behind.
WorkingTurnsRun ==
    \A t \in Turn : run[t].at \in Working => row[t].status = "running"

\* A run that ends leaves its row settled, but when the process or the store fails
\* or when its client leaves while its failure is being recorded.
RunsSettleTheirRows ==
    [][\A t \in Turn :
          Live(t) /\ ~Live(t)' /\ faults' = faults /\ row'[t].status = "running" =>
              \E c \in Connection : Disconnect(c) /\ run[t].at \in {"failing", "failed"}]_vars

\* A client that follows a turn is told that it is over, at the latest when its
\* subscription ends, unless it leaves or the turn waits for a reply: the DONE that is
\* made up stands for those that the store does not record.
EveryViewIsClosed ==
    \A c \in Connection :
        view[c] # NoView ~>
            \/ view[c].done \/ view[c] = NoView
            \/ \E t \in Turn : view[c].turn = t /\ run[t].at = "asking"

\* Closing a connection ends the turn it started last, whatever that is doing,
\* waiting for a reply included; cancel_turn and the handler return.
DisconnectStopsTheTurn ==
    \A c \in Connection : conn[c].at \in {"awaiting", "settling"} ~> conn[c] = Closed
==============================================================================
