----------------------------- MODULE FencedTask -----------------------------
(***************************************************************************)
(* What a fenced, leased task store promises to the rest of the system, in *)
(* terms of turns.  A task is worked on in numbered turns.  At most one    *)
(* worker holds a task; taking the task away from it, by a control request *)
(* or because it was given up for dead, starts a new turn at once; only a  *)
(* held turn can be answered, and a turn is answered at most once.  A      *)
(* closed task is closed for good.  Nothing a worker of an older turn does *)
(* is visible.                                                             *)
(***************************************************************************)
EXTENDS Integers

CONSTANTS Task, Worker, None

VARIABLES
    phase,      \* phase[t]: absent, waiting, held, answered or closed
    holder,     \* holder[t]: the worker whose turn it is
    turn,       \* turn[t]: the number of the present turn
    answers     \* answers[t]: the turns that were answered

vars == <<phase, holder, turn, answers>>

Init ==
    /\ phase = [t \in Task |-> "absent"]
    /\ holder = [t \in Task |-> None]
    /\ turn = [t \in Task |-> 0]
    /\ answers = [t \in Task |-> {}]

\* A step of one task: its next phase, holder and turn.
Move(t, p, w, n) ==
    /\ turn' = [turn EXCEPT ![t] = n]
    /\ phase' = [phase EXCEPT ![t] = p]
    /\ holder' = [holder EXCEPT ![t] = w]

Open(t) ==
    /\ phase[t] = "absent"
    /\ Move(t, "waiting", None, 1)
    /\ UNCHANGED answers

Hold(t, w) ==
    /\ phase[t] = "waiting"
    /\ Move(t, "held", w, turn[t])
    /\ UNCHANGED answers

\* The holder is taken for dead: the task passes to another worker.
Replace(t, w) ==
    /\ phase[t] = "held"
    /\ Move(t, "held", w, turn[t] + 1)
    /\ UNCHANGED answers

\* The user takes the task away from its holder.
Revoke(t) ==
    /\ phase[t] = "held"
    /\ Move(t, "waiting", None, turn[t] + 1)
    /\ UNCHANGED answers

Answer(t, p) ==
    /\ phase[t] = "held"
    /\ turn[t] \notin answers[t]
    /\ Move(t, p, None, turn[t])
    /\ answers' = [answers EXCEPT ![t] = answers[t] \cup {turn[t]}]

\* A waiting task is put off, an answered one is asked again.
Postpone(t, n) ==
    /\ phase[t] = "waiting"
    /\ Move(t, "waiting", None, n)
    /\ UNCHANGED answers

Reopen(t) ==
    /\ phase[t] = "answered"
    /\ Move(t, "waiting", None, turn[t] + 1)
    /\ UNCHANGED answers

Close(t, n) ==
    /\ phase[t] \in {"waiting", "answered"}
    /\ Move(t, "closed", None, n)
    /\ UNCHANGED answers

Step(t) ==
    \/ Open(t)
    \/ /\ phase[t] = "held"
       /\ \/ \E w \in Worker : Replace(t, w)
          \/ Revoke(t)
          \/ \E p \in {"answered", "closed"} : Answer(t, p)
    \/ /\ phase[t] = "waiting"
       /\ \/ \E w \in Worker : Hold(t, w)
          \/ \E n \in {turn[t], turn[t] + 1} : Postpone(t, n)
    \/ /\ phase[t] \in {"waiting", "answered"}
       /\ \E n \in {turn[t], turn[t] + 1} : Close(t, n)
    \/ Reopen(t)

\* Most of what workers do is not visible.
Stay == UNCHANGED vars

Next == Stay \/ \E t \in Task : Step(t)

Spec == Init /\ [][Next]_vars
=============================================================================
