-------------------------- MODULE TurnRuntimeProofs --------------------------
(***************************************************************************)
(* Theorems about TurnRuntime, for every set of connections, sessions and  *)
(* turns, and every bound.                                                 *)
(***************************************************************************)
EXTENDS TurnRuntime, TLAPS

-----------------------------------------------------------------------------
(* The inductive invariant. *)

\* A completed turn has its answer and the events of it.
Kept(r, stor, answ, lg) ==
    r.status = "completed" =>
        /\ answ >= 1 /\ stor # <<>>
        /\ \A n \in 1..Len(lg) : lg[n] = "output" => n \in 1..Len(stor)

\* The events recorded are the first of those published.
Recorded(stor, lg) ==
    /\ Len(lg) >= 1
    /\ Len(stor) <= Len(lg)
    /\ \A n \in 1..Len(stor) : stor[n] = lg[n]

\* r, stor, answ, lg and x are the row, the recorded events, the answers, the events in
\* memory and the run of one turn.
TurnInv(r, stor, answ, lg, x) ==
    /\ r.status = "absent" => x.at = "none" /\ stor = <<>>
    /\ x.at = "none" => x = NoRun /\ lg = <<>>
    /\ x.at # "none" =>
           /\ Recorded(stor, lg)
           /\ ~x.flushed => stor = <<>>
    /\ x.at \in Working => r.status = "running"
    /\ x.at = "titling" => r.status \in Settled
    /\ x.at \in {"streaming", "asking", "answering", "recording"} => ~x.flushed
    /\ x.at \in {"flushing", "completing", "titling", "failing", "failed", "cancelling",
                 "keeping", "cancelled"} => x.flushed
    /\ x.at \in {"flushing", "failing", "cancelling"} => Len(stor) < Len(lg)
    /\ x.at = "completing" => Len(stor) = Len(lg)
    /\ x.at \in {"recording", "flushing", "completing"} => answ >= 1
    /\ Kept(r, stor, answ, lg)

TurnsInv == \A t \in Turn : TurnInv(row[t], stored[t], answers[t], log[t], run[t])

\* A turn that has ended, and whose row no create_turn can take.
Past(t) == t \in Turn /\ row[t].status # "absent" /\ ~Live(t)

ConnInv(c) ==
    /\ conn[c].at = "recovering" => Past(conn[c].victim)
    /\ conn[c].at = "settling" => Past(conn[c].turn)
    /\ conn[c].at \in {"recovering", "creating"} => conn[c].session \in Session

Whole(s) == \A i \in 1..Len(s) : s[i] = i

\* What waits comes right after what was sent.
InOrder(v) ==
    \A i \in 1..Len(v.queue) : v.queue[i] # End => v.queue[i].seq = Len(v.seen) + i

ViewInv(c) ==
    LET v == view[c] IN
    /\ Whole(v.seen)
    /\ v.at = "begun" => v.seen = <<>>
    /\ v.at \in {"begun", "attaching"} => v.queue = <<>>
    /\ v.at \in {"begun", "attaching", "live", "orphan"} =>
           v.turn \in Turn /\ row[v.turn].status # "absent" /\ v.turn = conn[c].turn
    /\ v.at = "orphan" => ~Live(v.turn)
    /\ v.at = "live" => InOrder(v)
    /\ v.at \in {"begun", "attaching", "live"} /\ Live(v.turn) =>
           Len(v.seen) <= Len(log[v.turn])
    /\ v.at = "live" /\ Live(v.turn) =>
           /\ c \in run[v.turn].subs
           /\ Len(v.seen) + Len(v.queue) = Len(log[v.turn])
           /\ \A i \in 1..Len(v.queue) : v.queue[i] # End
    /\ \A t \in Turn : c \in run[t].subs => v.at = "live" /\ v.turn = t

IInv ==
    /\ TypeOK
    /\ TurnsInv
    /\ \A c \in Connection : ConnInv(c) /\ ViewInv(c)

-----------------------------------------------------------------------------
(* What the invariant says. *)

LEMMA TurnsHold ==
    ASSUME IInv, NEW t \in Turn
    PROVE  /\ TurnInv(row[t], stored[t], answers[t], log[t], run[t])
           /\ row[t] \in Row /\ stored[t] \in Seq(Event) /\ answers[t] \in Nat
           /\ log[t] \in Seq(Event) /\ run[t] \in Run /\ replies[t] \in 0..MaxReplies
           /\ Len(log[t]) \in Nat /\ Len(stored[t]) \in Nat
BY DEF IInv, TurnsInv, TypeOK

LEMMA RunIsRead ==
    ASSUME NEW x \in Run
    PROVE  /\ x.subs \subseteq Connection /\ x.flushed \in BOOLEAN
           /\ x.at \in {"none", "streaming", "asking", "answering", "recording",
                        "flushing", "completing", "titling",
                        "failing", "failed", "cancelling", "keeping", "cancelled"}
BY DEF Run

LEMMA ViewIsRead ==
    ASSUME NEW v \in View
    PROVE  /\ v.turn \in Turn \cup {NoTurn} /\ v.done \in BOOLEAN
           /\ v.at \in {"none", "begun", "attaching", "live", "orphan", "ended"}
           /\ v.seen \in Seq(Nat) /\ v.queue \in Seq(Item)
           /\ Len(v.seen) \in Nat /\ Len(v.queue) \in Nat
BY DEF View

LEMMA StretchFacts ==
    ASSUME NEW m \in Nat, NEW n \in Nat
    PROVE  /\ Stretch(m, n) \in Seq(Nat)
           /\ Len(Stretch(m, n)) = IF n >= m THEN n - m ELSE 0
           /\ \A i \in 1..(n - m) : Stretch(m, n)[i] = m + i
<1>1. CASE n >= m
  BY <1>1 DEF Stretch
<1>2. CASE n < m
  <2>1. 1..(n - m) = {}
    BY <1>2
  <2>2. Stretch(m, n) = <<>>
    BY <2>1 DEF Stretch
  <2>3. QED
    BY <1>2, <2>1, <2>2
<1>3. QED
  BY <1>1, <1>2

LEMMA WholeIsStretch ==
    ASSUME NEW s \in Seq(Nat), Whole(s)
    PROVE  s = Stretch(0, Len(s))
<1>1. Len(s) \in Nat /\ s = [i \in 1..Len(s) |-> s[i]]
  OBVIOUS
<1>2. \A i \in 1..Len(s) : s[i] = 0 + i
  BY DEF Whole
<1>3. 1..(Len(s) - 0) = 1..Len(s)
  BY <1>1
<1>4. QED
  BY <1>1, <1>2, <1>3 DEF Stretch

LEMMA WholeGrows ==
    ASSUME NEW s \in Seq(Nat), NEW w \in Seq(Nat), Whole(s),
           \A i \in 1..Len(w) : w[i] = Len(s) + i
    PROVE  s \o w \in Seq(Nat) /\ Whole(s \o w) /\ Len(s \o w) = Len(s) + Len(w)
<1>1. s \o w \in Seq(Nat) /\ Len(s \o w) = Len(s) + Len(w) /\ Len(s) \in Nat /\ Len(w) \in Nat
  OBVIOUS
<1>2. ASSUME NEW i \in 1..Len(s \o w)
      PROVE  (s \o w)[i] = i
  <2>1. CASE i \in 1..Len(s)
    BY <1>1, <2>1 DEF Whole
  <2>2. CASE i \notin 1..Len(s)
    <3>1. i - Len(s) \in 1..Len(w) /\ (s \o w)[i] = w[i - Len(s)]
      BY <1>1, <2>2
    <3>2. QED
      BY <1>1, <3>1
  <2>3. QED
    BY <2>1, <2>2
<1>3. QED
  BY <1>1, <1>2 DEF Whole

LEMMA LastIsLength ==
    ASSUME NEW v \in View, Whole(v.seen)
    PROVE  Last(v) = Len(v.seen) /\ Last(v) \in Nat
BY ViewIsRead DEF Last, Whole

\* The theorem of the streams, from the invariant.
LEMMA InvariantImplies ==
    ASSUME IInv
    PROVE  StreamsAreWhole /\ WorkingTurnsRun /\ CompletedIsPersisted
<1>1. WorkingTurnsRun
  BY TurnsHold DEF WorkingTurnsRun, TurnInv
<1>2. CompletedIsPersisted
  <2>1. ASSUME NEW t \in Turn, row[t].status = "completed"
        PROVE  answers[t] >= 1 /\ stored[t] # <<>> /\ Outputs(t) \subseteq DOMAIN stored[t]
    BY <2>1, TurnsHold DEF TurnInv, Kept, Outputs
  <2>2. QED
    BY <2>1 DEF CompletedIsPersisted
<1>3. StreamsAreWhole
  <2>1. ASSUME NEW c \in Connection
        PROVE  LET v == view[c]
                   waiting == [i \in DOMAIN v.queue |-> v.queue[i].seq]
               IN  /\ v.seen = Stretch(0, Last(v))
                   /\ v.at = "live" /\ Live(v.turn) =>
                          v.seen \o waiting = Stretch(0, Len(log[v.turn]))
    <3> DEFINE v == view[c]
               waiting == [i \in DOMAIN v.queue |-> v.queue[i].seq]
    <3>1. v \in View /\ ViewInv(c)
      BY DEF IInv, TypeOK
    <3>2. Whole(v.seen) /\ v.seen \in Seq(Nat) /\ v.queue \in Seq(Item)
      BY <3>1, ViewIsRead DEF ViewInv
    <3>3. v.seen = Stretch(0, Last(v))
      BY <3>1, <3>2, WholeIsStretch, LastIsLength
    <3>4. ASSUME v.at = "live", Live(v.turn)
          PROVE  v.seen \o waiting = Stretch(0, Len(log[v.turn]))
      <4>1. /\ v.turn \in Turn /\ InOrder(v)
            /\ Len(v.seen) + Len(v.queue) = Len(log[v.turn])
            /\ \A i \in 1..Len(v.queue) : v.queue[i] # End
        BY <3>1, <3>4 DEF ViewInv
      <4> DEFINE n == Len(v.seen)
                 q == v.queue
      <4>2. n \in Nat /\ Len(q) \in Nat /\ q \in Seq(Item)
        BY <3>2
      <4>3. \A i \in 1..Len(q) : q[i].seq = n + i
        BY <4>1 DEF InOrder
      <4>4. waiting \in Seq(Nat) /\ Len(waiting) = Len(q) /\ \A i \in 1..Len(q) : waiting[i] = n + i
        <5>1. DOMAIN q = 1..Len(q)
          BY <4>2
        <5>2. waiting = [i \in 1..Len(q) |-> n + i]
          BY <4>3, <5>1
        <5> HIDE DEF waiting, n, q
        <5>3. QED
          BY <4>2, <5>2
      <4> HIDE DEF waiting, v
      <4>5. /\ v.seen \o waiting \in Seq(Nat) /\ Whole(v.seen \o waiting)
            /\ Len(v.seen \o waiting) = n + Len(q)
        <5>1. v.seen \in Seq(Nat) /\ Whole(v.seen)
          BY <3>2
        <5>2. waiting \in Seq(Nat) /\ Len(waiting) = Len(q)
              /\ \A i \in 1..Len(waiting) : waiting[i] = Len(v.seen) + i
          BY <4>4
        <5> HIDE DEF q
        <5>3. QED
          BY <5>1, <5>2, WholeGrows
      <4>6. QED
        BY <4>1, <4>5, WholeIsStretch
    <3> HIDE DEF v, waiting
    <3>5. QED
      BY <3>3, <3>4 DEF v, waiting
  <2>2. QED
    BY <2>1 DEF StreamsAreWhole
<1>4. QED
  BY <1>1, <1>2, <1>3

-----------------------------------------------------------------------------
(* Views. *)

LEMMA ViewGetsQueue ==
    ASSUME NEW v \in View, NEW q \in Seq(Item)
    PROVE  [v EXCEPT !.queue = q] \in View
BY DEF View

LEMMA ViewGetsPlace ==
    ASSUME NEW v \in View, NEW at \in {"none", "begun", "attaching", "live", "orphan", "ended"}
    PROVE  [v EXCEPT !.at = at] \in View
BY DEF View

LEMMA ViewGetsSeen ==
    ASSUME NEW v \in View, NEW sn \in Seq(Nat), NEW b \in BOOLEAN
    PROVE  [v EXCEPT !.seen = sn, !.done = b] \in View
BY DEF View

LEMMA NoViewFacts ==
    /\ NoView \in View /\ NoView.at = "none" /\ Whole(NoView.seen)
    /\ \A v \in View, b \in BOOLEAN :
          Ended(v, b) \in View /\ Ended(v, b).at = "ended" /\ Whole(Ended(v, b).seen)
<1>1. NoView \in View /\ NoView.at = "none" /\ Whole(NoView.seen)
  BY DEF NoView, View, Whole
<1>2. ASSUME NEW v \in View, NEW b \in BOOLEAN
      PROVE  Ended(v, b) \in View /\ Ended(v, b).at = "ended" /\ Whole(Ended(v, b).seen)
  <2>1. v.turn \in Turn \cup {NoTurn}
    BY ViewIsRead
  <2>2. Ended(v, b) \in View
    BY <1>1, <2>1 DEF Ended, View
  <2>3. Ended(v, b).at = "ended" /\ Ended(v, b).seen = <<>>
    BY <1>1 DEF Ended, View, NoView
  <2>4. QED
    BY <2>2, <2>3 DEF Whole
<1>3. QED
  BY <1>1, <1>2

\* A subscription that catches up with a log.
LEMMA YieldsFacts ==
    ASSUME NEW v \in View, Whole(v.seen), NEW events \in Seq(Event),
           NEW at \in {"attaching", "live", "orphan"}
    PROVE  LET w == [Yields(v, events) EXCEPT !.at = at] IN
           /\ w \in View /\ w.at = at /\ w.turn = v.turn /\ w.queue = v.queue /\ Whole(w.seen)
           /\ Len(w.seen) = IF Len(events) >= Len(v.seen) THEN Len(events) ELSE Len(v.seen)
           /\ Yields(v, events) \in View
<1> DEFINE m == Last(v)
           n == Len(events)
           b == v.done \/ \E k \in (Last(v) + 1)..Len(events) : events[k] \in Settled
           sn == v.seen \o Stretch(m, n)
           u == Yields(v, events)
           w == [u EXCEPT !.at = at]
<1>1. m \in Nat /\ n \in Nat /\ m = Len(v.seen) /\ v.seen \in Seq(Nat)
  BY LastIsLength, ViewIsRead
<1>2. b \in BOOLEAN
  BY ViewIsRead
<1>3. u = [v EXCEPT !.seen = sn, !.done = b]
  BY DEF Yields
<1>4. /\ sn \in Seq(Nat) /\ Whole(sn)
      /\ Len(sn) = IF n >= m THEN n ELSE m
  <2>1. /\ Stretch(m, n) \in Seq(Nat)
        /\ Len(Stretch(m, n)) = IF n >= m THEN n - m ELSE 0
        /\ \A i \in 1..(n - m) : Stretch(m, n)[i] = m + i
    BY <1>1, StretchFacts
  <2>2. \A i \in 1..Len(Stretch(m, n)) : Stretch(m, n)[i] = m + i
    <3> HIDE DEF m, n
    <3>1. QED
      BY <1>1, <2>1
  <2> HIDE DEF m, n
  <2>3. /\ v.seen \o Stretch(m, n) \in Seq(Nat) /\ Whole(v.seen \o Stretch(m, n))
        /\ Len(v.seen \o Stretch(m, n)) = Len(v.seen) + Len(Stretch(m, n))
    BY <1>1, <2>1, <2>2, WholeGrows
  <2>4. Len(Stretch(m, n)) = IF n >= m THEN n - m ELSE 0
    BY <2>1
  <2>5. m + Len(Stretch(m, n)) = IF n >= m THEN n ELSE m
    <3>1. m \in Nat /\ n \in Nat
      BY <1>1
    <3>2. CASE n >= m
      BY <2>4, <3>1, <3>2
    <3>3. CASE ~(n >= m)
      BY <2>4, <3>1, <3>3
    <3>4. QED
      BY <3>2, <3>3
  <2>6. QED
    BY <1>1, <2>3, <2>5
<1> HIDE DEF b, sn, u
<1>5. u \in View /\ u.seen = sn /\ u.turn = v.turn /\ u.queue = v.queue
  <2>1. u \in View
    BY <1>2, <1>3, <1>4, ViewGetsSeen
  <2>2. u.seen = sn /\ u.turn = v.turn /\ u.queue = v.queue
    BY <1>3 DEF View
  <2>3. QED
    BY <2>1, <2>2
<1>6. w \in View
  BY <1>5, ViewGetsPlace
<1>7. w.at = at /\ w.seen = sn /\ w.turn = v.turn /\ w.queue = v.queue
  BY <1>5 DEF View
<1> HIDE DEF w
<1>8. w.at = at /\ w.turn = v.turn /\ w.queue = v.queue /\ Whole(w.seen)
      /\ Len(w.seen) = IF n >= Len(v.seen) THEN n ELSE Len(v.seen)
  BY <1>1, <1>4, <1>7
<1>9. QED
  BY <1>5, <1>6, <1>8 DEF w, u

LEMMA ItemsFacts ==
    ASSUME IInv, NEW t \in Turn, NEW types \in Seq(Event)
    PROVE  /\ Items(t, types) \in Seq(Item) /\ Len(Items(t, types)) = Len(types)
           /\ \A i \in 1..Len(types) : /\ Items(t, types)[i] # End
                                       /\ Items(t, types)[i].seq = Len(log[t]) + i
<1> DEFINE n == Len(log[t])
<1>1. n \in Nat /\ DOMAIN types = 1..Len(types) /\ Len(types) \in Nat
  BY TurnsHold
<1> HIDE DEF n
<1>2. Items(t, types) = [i \in 1..Len(types) |-> [seq |-> n + i, type |-> types[i]]]
  BY <1>1 DEF Items, n
<1>3. \A i \in 1..Len(types) : [seq |-> n + i, type |-> types[i]] \in Item
  BY <1>1 DEF Item
<1>4. Items(t, types) \in Seq(Item) /\ Len(Items(t, types)) = Len(types)
  BY <1>1, <1>2, <1>3
<1>5. \A i \in 1..Len(types) : Items(t, types)[i].seq = n + i
  BY <1>2
<1>6. \A i \in 1..Len(types) : n + i # 0
  BY <1>1
<1>7. \A i \in 1..Len(types) : Items(t, types)[i] # End
  BY <1>5, <1>6 DEF End
<1>8. QED
  BY <1>4, <1>5, <1>7 DEF n

LEMMA QueueGrows ==
    ASSUME NEW v \in View, NEW items \in Seq(Item), NEW w, w = [v EXCEPT !.queue = @ \o items]
    PROVE  /\ w \in View /\ w.turn = v.turn /\ w.at = v.at /\ w.seen = v.seen /\ w.done = v.done
           /\ w.queue = v.queue \o items /\ Len(w.queue) = Len(v.queue) + Len(items)
<1>1. v.queue \o items \in Seq(Item) /\ Len(v.queue \o items) = Len(v.queue) + Len(items)
  BY ViewIsRead
<1>2. w \in View
  BY <1>1, ViewGetsQueue
<1>3. w.turn = v.turn /\ w.at = v.at /\ w.seen = v.seen /\ w.done = v.done
      /\ w.queue = v.queue \o items
  BY DEF View
<1>4. QED
  BY <1>1, <1>2, <1>3

\* What is put at the end of a queue that is in order continues it.
LEMMA OrderGrows ==
    ASSUME NEW v \in View, NEW items \in Seq(Item), NEW w, w = [v EXCEPT !.queue = @ \o items],
           InOrder(v),
           \A i \in 1..Len(items) :
               items[i] # End => items[i].seq = Len(v.seen) + Len(v.queue) + i
    PROVE  /\ InOrder(w)
           /\ (\A i \in 1..Len(v.queue) : v.queue[i] # End)
              /\ (\A i \in 1..Len(items) : items[i] # End)
                 => \A i \in 1..Len(w.queue) : w.queue[i] # End
<1> DEFINE q == v.queue
           n == Len(v.seen)
<1>1. q \in Seq(Item) /\ Len(q) \in Nat /\ Len(items) \in Nat /\ n \in Nat
  BY ViewIsRead
<1>2. w.queue = q \o items /\ w.seen = v.seen /\ Len(w.queue) = Len(q) + Len(items)
  BY QueueGrows
<1>3. \A i \in 1..Len(q) : q[i] # End => q[i].seq = n + i
  BY DEF InOrder
<1>4. ASSUME NEW i \in 1..Len(w.queue)
      PROVE  /\ w.queue[i] # End => w.queue[i].seq = n + i
             /\ \/ i \in 1..Len(q) /\ w.queue[i] = q[i]
                \/ i - Len(q) \in 1..Len(items) /\ w.queue[i] = items[i - Len(q)]
  <2> HIDE DEF q
  <2>1. \/ i \in 1..Len(q) /\ (q \o items)[i] = q[i]
        \/ i - Len(q) \in 1..Len(items) /\ (q \o items)[i] = items[i - Len(q)]
    BY <1>1, <1>2
  <2>2. CASE i \in 1..Len(q) /\ (q \o items)[i] = q[i]
    BY <1>2, <1>3, <2>2
  <2>3. CASE i - Len(q) \in 1..Len(items) /\ (q \o items)[i] = items[i - Len(q)]
    <3>1. items[i - Len(q)] # End => items[i - Len(q)].seq = n + Len(q) + (i - Len(q))
      BY <2>3 DEF q
    <3>2. n + Len(q) + (i - Len(q)) = n + i
      BY <1>1, <1>2
    <3>3. w.queue[i] = items[i - Len(q)]
      BY <1>2, <2>3
    <3> HIDE DEF n
    <3>4. QED
      BY <2>3, <3>1, <3>2, <3>3
  <2>4. QED
    BY <2>1, <2>2, <2>3
<1>5. InOrder(w)
  BY <1>2, <1>4 DEF InOrder
<1>6. QED
  BY <1>4, <1>5

\* Nothing c sees changes.
LEMMA ViewStays ==
    ASSUME IInv, NEW c \in Connection, view'[c] = view[c], conn'[c].turn = conn[c].turn,
           \A t \in Turn : row[t].status # "absent" => row'[t].status # "absent",
           \A t \in Turn : row[t].status # "absent" /\ Live(t)' =>
               /\ Live(t) /\ Len(log'[t]) >= Len(log[t])
               /\ c \in run[t].subs => c \in run'[t].subs /\ log'[t] = log[t],
           \A t \in Turn : c \in run'[t].subs => c \in run[t].subs
    PROVE  ViewInv(c)'
<1>1. ViewInv(c) /\ view[c] \in View
  BY DEF IInv, TypeOK
<1>2. Len(view[c].seen) \in Nat /\ \A t \in Turn : Len(log[t]) \in Nat
  BY <1>1, ViewIsRead, TurnsHold
<1> DEFINE v == view[c]
<1>3. /\ Whole(v.seen) /\ (v.at = "begun" => v.seen = <<>>)
      /\ v.at \in {"begun", "attaching"} => v.queue = <<>>
      /\ v.at = "live" => InOrder(v)
  BY <1>1 DEF ViewInv
<1>4. CASE v.at \notin {"begun", "attaching", "live", "orphan"}
  BY <1>1, <1>3, <1>4 DEF ViewInv
<1>5. CASE v.at \in {"begun", "attaching", "live", "orphan"}
  <2>1. /\ v.turn \in Turn /\ row[v.turn].status # "absent" /\ row'[v.turn].status # "absent"
        /\ v.turn = conn'[c].turn
    BY <1>1, <1>5 DEF ViewInv
  <2>2. v.at = "orphan" => ~Live(v.turn)'
    BY <1>1, <2>1 DEF ViewInv
  <2>3. v.at \in {"begun", "attaching", "live"} /\ Live(v.turn)' => Len(v.seen) <= Len(log'[v.turn])
    <3>1. ASSUME v.at \in {"begun", "attaching", "live"}, Live(v.turn)'
          PROVE  Len(v.seen) <= Len(log'[v.turn])
      <4>1. Live(v.turn) /\ Len(log'[v.turn]) >= Len(log[v.turn])
        BY <2>1, <3>1
      <4>2. Len(v.seen) <= Len(log[v.turn])
        BY <1>1, <3>1, <4>1 DEF ViewInv
      <4>3. c \in run[v.turn].subs => Len(log'[v.turn]) = Len(log[v.turn])
        BY <2>1, <3>1
      <4>4. Len(log'[v.turn]) = Len(log[v.turn]) \/ v.at # "live"
        BY <1>1, <4>1, <4>3 DEF ViewInv
      <4>5. CASE v.at = "live"
        BY <4>2, <4>4, <4>5
      <4>6. CASE v.at # "live"
        BY <1>2, <2>1, <4>1, <4>2
      <4>7. QED
        BY <4>5, <4>6
    <3>2. QED
      BY <3>1
  <2>4. v.at = "live" /\ Live(v.turn)' =>
           /\ c \in run'[v.turn].subs
           /\ Len(v.seen) + Len(v.queue) = Len(log'[v.turn])
           /\ \A i \in 1..Len(v.queue) : v.queue[i] # End
    BY <1>1, <2>1 DEF ViewInv
  <2>5. \A t \in Turn : c \in run'[t].subs => v.at = "live" /\ v.turn = t
    BY <1>1 DEF ViewInv
  <2>6. QED
    BY <1>3, <2>1, <2>2, <2>3, <2>4, <2>5 DEF ViewInv
<1>6. QED
  BY <1>4, <1>5

-----------------------------------------------------------------------------
(* Steps. *)

\* The shape of all but the handlers and the views.
Shapes ==
    /\ row \in [Turn -> Row] /\ stored \in [Turn -> Seq(Event)] /\ answers \in [Turn -> Nat]
    /\ log \in [Turn -> Seq(Event)] /\ run \in [Turn -> Run]
    /\ replies \in [Turn -> 0..MaxReplies] /\ faults \in 0..MaxFaults

\* No other turn is touched.
OnlyTurn(t) ==
    \A u \in Turn \ {t} :
        /\ row'[u] = row[u] /\ stored'[u] = stored[u] /\ answers'[u] = answers[u]
        /\ log'[u] = log[u] /\ run'[u] = run[u]

\* Rows stay, and no turn begins again.
Onward ==
    \A t \in Turn : row[t].status # "absent" =>
        row'[t].status # "absent" /\ (Live(t)' => Live(t))

LEMMA InvariantParts == IInv <=> /\ Shapes /\ TurnsInv
                                 /\ conn \in [Connection -> Conn] /\ view \in [Connection -> View]
                                 /\ \A c \in Connection : ConnInv(c) /\ ViewInv(c)
BY DEF IInv, TypeOK, Shapes

LEMMA LiveRows ==
    ASSUME IInv, NEW t \in Turn, Live(t)
    PROVE  row[t].status # "absent"
BY TurnsHold DEF TurnInv, Live

LEMMA ConnStays ==
    ASSUME IInv, NEW c \in Connection, conn'[c] = conn[c], Onward
    PROVE  ConnInv(c)'
<1>1. ConnInv(c)
  BY DEF IInv
<1>2. \A t : Past(t) => Past(t)'
  BY DEF Past, Onward
<1>3. QED
  BY <1>1, <1>2 DEF ConnInv

LEMMA TurnChanges ==
    ASSUME IInv, NEW t \in Turn, OnlyTurn(t),
           TurnInv(row'[t], stored'[t], answers'[t], log'[t], run'[t])
    PROVE  TurnsInv'
BY DEF IInv, TurnsInv, OnlyTurn

LEMMA LiveTurnOnward ==
    ASSUME IInv, NEW t \in Turn, OnlyTurn(t), Live(t), row'[t].status # "absent"
    PROVE  Onward
BY DEF OnlyTurn, Onward, Live

\* No handler moves but to wait for a task.
HandlersWait ==
    /\ conn' \in [Connection -> Conn]
    /\ \A c \in Connection : /\ conn'[c].turn = conn[c].turn
                             /\ conn'[c] = conn[c] \/ conn'[c].at = "awaiting"

LEMMA HandlersStay == ASSUME IInv, conn' = conn PROVE HandlersWait
BY DEF HandlersWait, IInv, TypeOK

LEMMA WaitingIsSafe ==
    ASSUME IInv, NEW c \in Connection, HandlersWait, Onward
    PROVE  ConnInv(c)'
<1>1. CASE conn'[c] = conn[c]
  BY <1>1, ConnStays
<1>2. CASE conn'[c].at = "awaiting"
  BY <1>2 DEF ConnInv
<1>3. QED
  BY <1>1, <1>2 DEF HandlersWait

\* The run of t goes on in silence.
LEMMA Advances ==
    ASSUME IInv, NEW t \in Turn, Live(t), OnlyTurn(t), Shapes',
           log' = log, view' = view, HandlersWait, run'[t].subs = run[t].subs,
           row'[t].status # "absent",
           TurnInv(row'[t], stored'[t], answers'[t], log'[t], run'[t])
    PROVE  IInv'
<1>1. Onward /\ TurnsInv'
  BY TurnChanges, LiveTurnOnward
<1>2. ASSUME NEW c \in Connection
      PROVE  ConnInv(c)' /\ ViewInv(c)'
  <2>1. \A u \in Turn : run'[u].subs = run[u].subs
    BY DEF OnlyTurn
  <2>2. \A u \in Turn : Live(u)' => Live(u)
    BY DEF OnlyTurn, Live
  <2>3. \A u \in Turn : Len(log'[u]) >= Len(log[u])
    BY TurnsHold
  <2>4. view'[c] = view[c] /\ conn'[c].turn = conn[c].turn
    BY DEF HandlersWait
  <2>5. ConnInv(c)'
    BY <1>1, WaitingIsSafe
  <2>6. \A u \in Turn : row[u].status # "absent" => row'[u].status # "absent"
    BY <1>1 DEF Onward
  <2>7. ViewInv(c)'
    BY <2>1, <2>2, <2>3, <2>4, <2>6, ViewStays
  <2>8. QED
    BY <2>5, <2>7
<1>3. conn' \in [Connection -> Conn] /\ view' \in [Connection -> View]
  BY DEF IInv, TypeOK, HandlersWait
<1>4. QED
  BY <1>1, <1>2, <1>3 DEF IInv, TypeOK, Shapes

\* What makes a live view safe.
LEMMA SubscriberIsSafe ==
    ASSUME NEW c \in Connection, NEW t \in Turn, NEW w, w = view'[c],
           Whole(w.seen), w.at = "live", w.turn = t, t = conn'[c].turn,
           row'[t].status # "absent", InOrder(w), c \in run'[t].subs,
           Len(w.seen) <= Len(log'[t]), Len(w.seen) + Len(w.queue) = Len(log'[t]),
           \A i \in 1..Len(w.queue) : w.queue[i] # End,
           \A u \in Turn : c \in run'[u].subs => u = t
    PROVE  ViewInv(c)'
BY DEF ViewInv

\* What t publishes reaches those who subscribe to it.
LEMMA ViewIsSent ==
    ASSUME IInv, NEW t \in Turn, Live(t), NEW types \in Seq(Event), OnlyTurn(t),
           log' = [log EXCEPT ![t] = @ \o types], run'[t].subs = run[t].subs,
           row'[t].status # "absent",
           NEW c \in Connection, view'[c] = Sent(t, Items(t, types))[c], conn'[c].turn = conn[c].turn
    PROVE  view'[c] \in View /\ ViewInv(c)'
<1> DEFINE v == view[c]
           w == view'[c]
           items == Items(t, types)
<1>1. v \in View /\ ViewInv(c)
  BY DEF IInv, TypeOK
<1>2. /\ items \in Seq(Item) /\ Len(items) = Len(types)
      /\ \A i \in 1..Len(types) : items[i] # End /\ items[i].seq = Len(log[t]) + i
  BY ItemsFacts
<1>3. /\ log[t] \in Seq(Event) /\ log'[t] = log[t] \o types
      /\ Len(log'[t]) = Len(log[t]) + Len(types) /\ Len(types) \in Nat /\ Len(log[t]) \in Nat
  BY TurnsHold DEF IInv, TypeOK
<1>4. \A u \in Turn : run'[u].subs = run[u].subs
  BY DEF OnlyTurn
<1>5. \A u \in Turn : row[u].status # "absent" => row'[u].status # "absent"
  BY DEF OnlyTurn
<1>6. CASE c \in run[t].subs
  <2>1. v.at = "live" /\ v.turn = t /\ t = conn'[c].turn
    BY <1>1, <1>6 DEF ViewInv
  <2>2. /\ InOrder(v) /\ Len(v.seen) + Len(v.queue) = Len(log[t])
        /\ \A i \in 1..Len(v.queue) : v.queue[i] # End
    BY <1>1, <2>1 DEF ViewInv
  <2>3. w = [v EXCEPT !.queue = @ \o items]
    BY <1>6 DEF Sent
  <2> DEFINE n == Len(log[t])
  <2>4. /\ items \in Seq(Item) /\ v \in View /\ n \in Nat
        /\ \A i \in 1..Len(items) : items[i] # End /\ items[i].seq = n + i
    BY <1>1, <1>2, <1>3
  <2>5. /\ InOrder(v) /\ Len(v.seen) + Len(v.queue) = n
        /\ \A i \in 1..Len(v.queue) : v.queue[i] # End
    BY <2>2
  <2> HIDE DEF v, w, items, n
  <2>6. w \in View /\ w.turn = v.turn /\ w.at = v.at /\ w.seen = v.seen
        /\ Len(w.queue) = Len(v.queue) + Len(items)
    <3>1. v \in View /\ items \in Seq(Item)
      BY <2>4
    <3>2. QED
      BY <2>3, <3>1, QueueGrows
  <2>7. InOrder(w) /\ \A i \in 1..Len(w.queue) : w.queue[i] # End
    BY <2>3, <2>4, <2>5, OrderGrows
  <2>8. Len(v.seen) \in Nat /\ Len(v.queue) \in Nat /\ Len(items) \in Nat
    BY <2>4, ViewIsRead
  <2>9. Len(w.seen) + Len(w.queue) = n + Len(items) /\ Len(w.seen) <= n + Len(items)
    <3> DEFINE a == Len(v.seen)
               b == Len(v.queue)
               m == Len(items)
               e == Len(w.queue)
    <3>1. a \in Nat /\ b \in Nat /\ m \in Nat /\ a + b = n /\ e = b + m
      BY <2>5, <2>6, <2>8
    <3> HIDE DEF a, b, m, e
    <3>2. a + e = n + m /\ a <= n + m
      BY <3>1
    <3>3. QED
      BY <2>6, <3>2 DEF a, e, m
  <2>10. Len(log'[t]) = n + Len(items)
    BY <1>2, <1>3 DEF n
  <2>11. Whole(w.seen) /\ w.at = "live" /\ w.turn = t /\ t = conn'[c].turn
    BY <1>1, <2>1, <2>6 DEF ViewInv, v
  <2>12. c \in run'[t].subs /\ \A u \in Turn : c \in run'[u].subs => u = t
    BY <1>1, <1>4, <1>6, <2>1 DEF ViewInv, v
  <2>13. ViewInv(c)'
    <3>1. row'[t].status # "absent"
      OBVIOUS
    <3>2. /\ Len(w.seen) + Len(w.queue) = Len(log'[t]) /\ Len(w.seen) <= Len(log'[t])
      BY <2>9, <2>10
    <3>3. QED
      BY <2>11, <2>12, <2>7, <3>1, <3>2, SubscriberIsSafe DEF w
  <2>14. QED
    BY <2>13, <2>6 DEF w
<1>7. CASE c \notin run[t].subs
  <2>1. w = v
    BY <1>7 DEF Sent
  <2>2. \A u \in Turn : Live(u)' => Live(u)
    BY DEF OnlyTurn, Live
  <2>3. \A u \in Turn : Len(log'[u]) >= Len(log[u])
    <3>1. \A u \in Turn \ {t} : log'[u] = log[u]
      BY DEF OnlyTurn
    <3>2. \A u \in Turn : Len(log[u]) \in Nat
      BY TurnsHold
    <3>3. QED
      BY <1>3, <3>1, <3>2
  <2>4. \A u \in Turn : c \in run[u].subs => log'[u] = log[u]
    BY <1>7 DEF OnlyTurn
  <2>5. ViewInv(c)'
    BY <1>4, <1>5, <2>1, <2>2, <2>3, <2>4, ViewStays
  <2>6. QED
    BY <1>1, <2>1, <2>5
<1>8. QED
  BY <1>6, <1>7

\* The run of t goes on and publishes.
LEMMA Speaks ==
    ASSUME IInv, NEW t \in Turn, Live(t), NEW types \in Seq(Event), Publish(t, types),
           OnlyTurn(t), Shapes', HandlersWait, run'[t].subs = run[t].subs,
           row'[t].status # "absent",
           TurnInv(row'[t], stored'[t], answers'[t], log'[t], run'[t])
    PROVE  IInv'
<1>1. Onward /\ TurnsInv'
  BY TurnChanges, LiveTurnOnward
<1>2. log' = [log EXCEPT ![t] = @ \o types] /\ view' = Sent(t, Items(t, types))
  BY DEF Publish
<1>3. ASSUME NEW c \in Connection
      PROVE  ConnInv(c)' /\ ViewInv(c)' /\ view'[c] \in View
  <2>1. view'[c] = Sent(t, Items(t, types))[c] /\ conn'[c].turn = conn[c].turn
    BY <1>2 DEF HandlersWait
  <2>2. ConnInv(c)'
    BY <1>1, WaitingIsSafe
  <2>3. view'[c] \in View /\ ViewInv(c)'
    BY <1>2, <2>1, ViewIsSent
  <2>4. QED
    BY <2>2, <2>3
<1>4. view' \in [Connection -> View]
  BY <1>2, <1>3 DEF Sent
<1>5. conn' \in [Connection -> Conn]
  BY DEF HandlersWait
<1>6. QED
  BY <1>1, <1>3, <1>4, <1>5 DEF IInv, TypeOK, Shapes

LEMMA ClosedFacts == Closed \in Conn /\ Closed.at = "closed" /\ Off \in Conn /\ Off.at = "off"
<1>1. Off \in Conn /\ Off.at = "off"
  BY DEF Off, Conn
<1>2. Closed \in Conn /\ Closed.at = "closed"
  BY DEF Off, Conn, Closed
<1>3. QED
  BY <1>1, <1>2

\* A handler that is done wants nothing.
LEMMA ClosedIsSafe ==
    ASSUME NEW c \in Connection, conn'[c] = Closed \/ conn'[c] = Off
    PROVE  ConnInv(c)'
BY ClosedFacts DEF ConnInv

\* A view without a subscription.
LEMMA IdleViewIsSafe ==
    ASSUME NEW c \in Connection, Whole(view'[c].seen), view'[c].at \in {"none", "ended"},
           \A t \in Turn : c \notin run'[t].subs
    PROVE  ViewInv(c)'
BY DEF ViewInv

\* The run of t is over: its subscribers are sent the last of it.
LEMMA Ends ==
    ASSUME IInv, NEW t \in Turn, Live(t), NEW types \in Seq(Event), Finish(t, types),
           OnlyTurn(t), Shapes', row'[t].status # "absent",
           TurnInv(row'[t], stored'[t], answers'[t], log'[t], run'[t])
    PROVE  IInv'
<1>1. Onward /\ TurnsInv'
  BY TurnChanges, LiveTurnOnward
<1>2. run'[t] = NoRun /\ ~Live(t)'
  BY DEF Finish, IInv, TypeOK, NoRun, Live
<1>3. ASSUME NEW c \in Connection
      PROVE  conn'[c] \in Conn /\ ConnInv(c)'
  <2>1. conn'[c] = Closed \/ conn'[c] = conn[c]
    BY DEF Finish
  <2>2. conn[c] \in Conn
    BY DEF IInv, TypeOK
  <2>3. QED
    BY <1>1, <2>1, <2>2, ClosedFacts, ClosedIsSafe, ConnStays
<1>4. \A c \in Connection, u \in Turn : c \in run'[u].subs => u # t /\ c \in run[u].subs
  BY <1>2 DEF OnlyTurn, NoRun
<1>5. ASSUME NEW c \in Connection
      PROVE  view'[c] \in View /\ ViewInv(c)'
  <2> DEFINE v == view[c]
             w == view'[c]
             items == Append(Items(t, types), End)
  <2>1. v \in View /\ ViewInv(c)
    BY DEF IInv, TypeOK
  <2>2. /\ Items(t, types) \in Seq(Item) /\ Len(Items(t, types)) = Len(types)
        /\ \A i \in 1..Len(types) : /\ Items(t, types)[i] # End
                                    /\ Items(t, types)[i].seq = Len(log[t]) + i
    BY ItemsFacts
  <2>3. End \in Item
    BY DEF End, Item
  <2>4. /\ items \in Seq(Item)
        /\ \A i \in 1..Len(items) : items[i] # End => items[i].seq = Len(log[t]) + i
    <3> DEFINE q == Items(t, types)
    <3>1. q \in Seq(Item) /\ Len(q) \in Nat
          /\ \A i \in 1..Len(q) : q[i].seq = Len(log[t]) + i
      BY <2>2
    <3> HIDE DEF q
    <3>2. Append(q, End) \in Seq(Item) /\ Len(Append(q, End)) = Len(q) + 1
      BY <2>3, <3>1
    <3>3. \A i \in 1..Len(Append(q, End)) :
              \/ i \in 1..Len(q) /\ Append(q, End)[i] = q[i]
              \/ Append(q, End)[i] = End
      BY <3>1, <3>2
    <3>4. QED
      BY <3>1, <3>2, <3>3 DEF q
  <2>5. CASE c \in Waiting(t)
    <3>1. w = NoView
      BY <2>5 DEF Finish
    <3>2. \A u \in Turn : c \notin run'[u].subs
      BY <1>4, <2>1, <2>5 DEF ViewInv, Waiting
    <3>3. QED
      BY <3>1, <3>2, NoViewFacts, IdleViewIsSafe
  <2>6. CASE c \notin Waiting(t) /\ c \in run[t].subs
    <3>1. w = [v EXCEPT !.queue = @ \o items]
      BY <2>6 DEF Finish, Sent
    <3>2. v.at = "live" /\ v.turn = t /\ \A u \in Turn : c \in run'[u].subs => FALSE
      BY <1>4, <2>1, <2>6 DEF ViewInv
    <3>3. InOrder(v) /\ Len(v.seen) + Len(v.queue) = Len(log[t]) /\ Whole(v.seen)
      BY <2>1, <3>2 DEF ViewInv
    <3>4. \A i \in 1..Len(items) : items[i] # End => items[i].seq = Len(v.seen) + Len(v.queue) + i
      BY <2>4, <3>3
    <3>5. v.turn \in Turn /\ row'[v.turn].status # "absent" /\ v.turn = conn'[c].turn
      BY <2>1, <2>6, <3>2 DEF ViewInv, Finish
    <3> HIDE DEF v, w, items
    <3>6. w \in View /\ w.turn = v.turn /\ w.at = v.at /\ w.seen = v.seen
      BY <2>1, <2>4, <3>1, QueueGrows
    <3>7. InOrder(w)
      BY <2>1, <2>4, <3>1, <3>3, <3>4, OrderGrows
    <3>8. ViewInv(c)'
      BY <1>2, <3>2, <3>3, <3>5, <3>6, <3>7 DEF ViewInv, w
    <3>9. QED
      BY <3>6, <3>8 DEF w
  <2>7. CASE c \notin Waiting(t) /\ c \notin run[t].subs
    <3>1. w = v /\ conn'[c] = conn[c]
      BY <2>7 DEF Finish, Sent
    <3>2. \A u \in Turn : Live(u)' =>
              Live(u) /\ Len(log'[u]) >= Len(log[u]) /\ (c \in run[u].subs => c \in run'[u].subs /\ log'[u] = log[u])
      BY <1>2, TurnsHold DEF OnlyTurn, Live
    <3>3. \A u \in Turn : row[u].status # "absent" => row'[u].status # "absent"
      BY <1>1 DEF Onward
    <3>4. ViewInv(c)'
      BY <1>4, <3>1, <3>2, <3>3, ViewStays
    <3>5. QED
      BY <2>1, <3>1, <3>4
  <2>8. QED
    BY <2>5, <2>6, <2>7
<1>6. view' \in [Connection -> View] /\ conn' \in [Connection -> Conn]
  BY <1>3, <1>5 DEF Finish
<1>7. QED
  BY <1>1, <1>3, <1>5, <1>6 DEF IInv, TypeOK, Shapes

-----------------------------------------------------------------------------
(* The run of a turn. *)

Stages == {"none", "streaming", "asking", "answering", "recording", "flushing", "completing",
           "titling", "failing", "failed", "cancelling", "keeping", "cancelled"}

LEMMA RunGoes ==
    ASSUME NEW x \in Run, NEW at \in Stages
    PROVE  LET y == [x EXCEPT !.at = at] IN
           y \in Run /\ y.at = at /\ y.subs = x.subs /\ y.flushed = x.flushed
<1> DEFINE y == [x EXCEPT !.at = at]
<1>1. y \in Run
  BY DEF Run, Stages
<1>2. y.at = at /\ y.subs = x.subs /\ y.flushed = x.flushed
  BY DEF Run
<1>3. QED
  BY <1>1, <1>2

LEMMA RunGoesFlushed ==
    ASSUME NEW x \in Run, NEW at \in Stages
    PROVE  LET y == [x EXCEPT !.at = at, !.flushed = TRUE] IN
           y \in Run /\ y.at = at /\ y.subs = x.subs /\ y.flushed
<1> DEFINE y == [x EXCEPT !.at = at, !.flushed = TRUE]
<1>1. y \in Run
  BY DEF Run, Stages
<1>2. y.at = at /\ y.subs = x.subs
  BY DEF Run
<1>3. y.flushed
  BY DEF Run
<1>4. QED
  BY <1>1, <1>2, <1>3

LEMMA RowIsSettled ==
    ASSUME NEW r \in Row, NEW s \in Settled
    PROVE  [r EXCEPT !.status = s] \in Row /\ [r EXCEPT !.status = s].status = s
BY DEF Row, Settled

\* Where the run of t is, as a number-free summary of its invariant.
LEMMA At ==
    ASSUME IInv, NEW t \in Turn
    PROVE  /\ run[t] \in Run /\ row[t] \in Row
           /\ Live(t) => row[t].status # "absent"
           /\ replies[t] \in 0..MaxReplies /\ MaxReplies \in Nat
BY TurnsHold, LiveRows, ConstantsAssumption

\* A step that moves the run of t on, and touches nothing else but its replies.
LEMMA Goes ==
    ASSUME IInv, NEW t \in Turn, Live(t), NEW y \in Run, y.at # "none", y.subs = run[t].subs,
           run' = [run EXCEPT ![t] = y], replies' \in [Turn -> 0..MaxReplies],
           UNCHANGED <<row, stored, answers, log, conn, view>>, faults' \in 0..MaxFaults,
           TurnInv(row[t], stored[t], answers[t], log[t], y)
    PROVE  IInv'
<1>1. Shapes'
  BY DEF IInv, TypeOK, Shapes
<1>2. run'[t] = y
  BY DEF IInv, TypeOK
<1>3. OnlyTurn(t)
  BY DEF OnlyTurn
<1>4. row'[t].status # "absent"
  BY LiveRows
<1>5. QED
  BY <1>1, <1>2, <1>3, <1>4, Advances, HandlersStay

LEMMA QuietKeeps ==
    ASSUME IInv, NEW t \in Turn, Asks(t) \/ TakesReply(t) \/ StreamEnds(t)
    PROVE  IInv'
<1> DEFINE at == IF Asks(t) THEN "asking" ELSE IF TakesReply(t) THEN "streaming" ELSE "answering"
           y == [run[t] EXCEPT !.at = at]
<1>1. run[t].at \in {"streaming", "asking"} /\ Live(t)
  BY DEF Asks, TakesReply, StreamEnds, Live
<1>2. at \in {"asking", "streaming", "answering"} /\ run' = [run EXCEPT ![t] = y]
  BY DEF Asks, TakesReply, StreamEnds, GoesTo
<1> HIDE DEF at
<1>3. y \in Run /\ y.at = at /\ y.subs = run[t].subs /\ y.flushed = run[t].flushed
  <2>1. at \in Stages /\ run[t] \in Run
    BY <1>2, At DEF Stages
  <2>2. QED
    BY <2>1, RunGoes
<1> HIDE DEF y
<1>4. TurnInv(row[t], stored[t], answers[t], log[t], y)
  BY <1>1, <1>2, <1>3, TurnsHold DEF TurnInv, Working
<1>5. replies' \in [Turn -> 0..MaxReplies]
  <2>1. replies \in [Turn -> 0..MaxReplies] /\ MaxReplies \in Nat
    BY ConstantsAssumption DEF IInv, TypeOK
  <2>2. QED
    BY <2>1 DEF Asks, TakesReply, StreamEnds, ForgetsReplies
<1>6. /\ UNCHANGED <<row, stored, answers, log, conn, view>> /\ faults' \in 0..MaxFaults
  BY DEF Asks, TakesReply, StreamEnds, IInv, TypeOK
<1>7. y.at # "none"
  BY <1>2, <1>3
<1>8. QED
  BY <1>1, <1>2, <1>3, <1>4, <1>5, <1>6, <1>7, Goes

LEMMA LogGrows ==
    ASSUME NEW lg \in Seq(Event), NEW e \in Event
    PROVE  /\ <<e>> \in Seq(Event)
           /\ lg \o <<e>> \in Seq(Event) /\ Len(lg \o <<e>>) = Len(lg) + 1
           /\ \A n \in 1..Len(lg) : (lg \o <<e>>)[n] = lg[n]
           /\ (lg \o <<e>>)[Len(lg) + 1] = e
           /\ Len(lg) \in Nat
OBVIOUS

LEMMA NamesOfEvents ==
    {"session", "output", "title", "completed", "failed", "cancelled"} \subseteq Event
BY DEF Event, Settled

\* An event that is no output changes nothing about what is recorded.
LEMMA TurnInvSpeaks ==
    ASSUME NEW r2, NEW stor \in Seq(Event), NEW answ \in Nat, NEW lg \in Seq(Event),
           NEW y, NEW e \in Event, e # "output", Recorded(stor, lg),
           r2.status # "absent", Kept(r2, stor, answ, lg), y.flushed,
           y.at \in {"titling", "failing", "failed", "cancelling", "keeping", "cancelled"},
           y.at = "titling" => r2.status \in Settled
    PROVE  TurnInv(r2, stor, answ, lg \o <<e>>, y)
<1> DEFINE l2 == lg \o <<e>>
<1>1. /\ Len(l2) = Len(lg) + 1 /\ Len(lg) \in Nat
      /\ \A n \in 1..Len(lg) : l2[n] = lg[n]
      /\ l2[Len(lg) + 1] = e
  BY LogGrows
<1>2. /\ Len(lg) >= 1 /\ Len(stor) <= Len(lg) /\ Len(stor) \in Nat
      /\ \A n \in 1..Len(stor) : stor[n] = lg[n]
  BY DEF Recorded
<1> HIDE DEF l2
<1>3. Len(l2) >= 1 /\ Len(stor) <= Len(l2) /\ Len(stor) < Len(l2)
  BY <1>1, <1>2
<1>4. \A n \in 1..Len(stor) : stor[n] = l2[n]
  BY <1>1, <1>2
<1>5. Kept(r2, stor, answ, l2)
  <2>1. \A n \in 1..Len(l2) : n \in 1..Len(lg) \/ n = Len(lg) + 1
    BY <1>1
  <2>2. \A n \in 1..Len(l2) : l2[n] = "output" => n \in 1..Len(lg) /\ lg[n] = "output"
    BY <1>1, <2>1
  <2>3. QED
    BY <2>2 DEF Kept
<1>6. QED
  BY <1>3, <1>4, <1>5 DEF TurnInv, Recorded, l2, Working

LEMMA StreamsKeeps ==
    ASSUME IInv, NEW t \in Turn, Streams(t)
    PROVE  IInv'
<1> DEFINE lg == log[t]
           l2 == lg \o <<"output">>
<1>1. "output" \in Event /\ <<"output">> \in Seq(Event) /\ lg \in Seq(Event)
  BY NamesOfEvents, TurnsHold, LogGrows
<1>2. l2 \in Seq(Event) /\ Len(l2) = Len(lg) + 1 /\ Len(lg) \in Nat
  BY <1>1, LogGrows
<1>3. run[t].at = "streaming" /\ Live(t) /\ row[t].status = "running" /\ stored[t] = <<>>
  BY TurnsHold DEF Streams, Live, TurnInv, Working
<1>4. log' = [log EXCEPT ![t] = l2] /\ Publish(t, <<"output">>)
  BY DEF Streams, Publish
<1> HIDE DEF l2
<1>5. TurnInv(row[t], stored[t], answers[t], l2, run[t])
  <2>1. TurnInv(row[t], stored[t], answers[t], lg, run[t])
    BY TurnsHold
  <2>2. Len(stored[t]) = 0 /\ Len(l2) >= 1
    BY <1>2, <1>3
  <2>3. QED
    BY <1>3, <2>1, <2>2 DEF TurnInv, Recorded, Kept
<1>6. log' \in [Turn -> Seq(Event)] /\ log'[t] = l2
  BY <1>2, <1>4 DEF IInv, TypeOK
<1>7. Shapes' /\ OnlyTurn(t) /\ conn' = conn /\ run' = run /\ UNCHANGED <<row, stored, answers>>
  BY <1>4, <1>6 DEF Streams, IInv, TypeOK, Shapes, OnlyTurn
<1>8. QED
  BY <1>1, <1>3, <1>4, <1>5, <1>6, <1>7, Speaks, HandlersStay

LEMMA AddsAnswerKeeps ==
    ASSUME IInv, NEW t \in Turn, AddsAnswer(t) \/ RecordsConversation(t)
    PROVE  IInv'
<1>1. run[t].at \in {"answering", "recording"} /\ Live(t) /\ row[t].status = "running"
  BY TurnsHold DEF AddsAnswer, RecordsConversation, Live, TurnInv, Working
<1>2. stored[t] = <<>> /\ Len(stored[t]) = 0 /\ Len(log[t]) >= 1 /\ row[t].status # "absent"
  BY <1>1, TurnsHold DEF TurnInv, Recorded
<1>3. CASE AddsAnswer(t)
  <2> DEFINE y == [run[t] EXCEPT !.at = "recording"]
  <2>1. "recording" \in Stages /\ run[t] \in Run
    BY At DEF Stages
  <2>2. y \in Run /\ y.at = "recording" /\ y.subs = run[t].subs /\ y.flushed = run[t].flushed
    BY <2>1, RunGoes
  <2>3. answers[t] \in Nat /\ answers' = [answers EXCEPT ![t] = @ + 1]
    BY <1>3, TurnsHold DEF AddsAnswer
  <2>4. run' = [run EXCEPT ![t] = y] /\ UNCHANGED <<row, stored, log, replies, conn, view, faults>>
    BY <1>3 DEF AddsAnswer, GoesTo
  <2> HIDE DEF y
  <2>5. run'[t] = y /\ answers'[t] = answers[t] + 1 /\ answers' \in [Turn -> Nat] /\ run' \in [Turn -> Run]
    BY <2>2, <2>3, <2>4 DEF IInv, TypeOK
  <2>6. TurnInv(row[t], stored[t], answers[t] + 1, log[t], y)
    BY <1>1, <1>2, <2>2, <2>3, TurnsHold DEF TurnInv, Recorded, Kept, Working
  <2>7. Shapes' /\ OnlyTurn(t)
    BY <2>3, <2>4, <2>5 DEF IInv, TypeOK, Shapes, OnlyTurn
  <2>8. QED
    BY <1>1, <1>2, <2>2, <2>4, <2>5, <2>6, <2>7, Advances, HandlersStay
<1>4. CASE RecordsConversation(t)
  <2> DEFINE y == [run[t] EXCEPT !.at = "flushing", !.flushed = TRUE]
  <2>1. "flushing" \in Stages /\ run[t] \in Run
    BY At DEF Stages
  <2>2. y \in Run /\ y.at = "flushing" /\ y.subs = run[t].subs /\ y.flushed
    BY <2>1, RunGoesFlushed
  <2>3. /\ run' = [run EXCEPT ![t] = y] /\ faults' \in 0..MaxFaults
        /\ replies' \in [Turn -> 0..MaxReplies]
        /\ UNCHANGED <<row, stored, answers, log, conn, view>>
    BY <1>4 DEF RecordsConversation, IInv, TypeOK
  <2> HIDE DEF y
  <2>4. TurnInv(row[t], stored[t], answers[t], log[t], y)
    BY <1>1, <1>2, <1>4, <2>2, TurnsHold DEF TurnInv, Recorded, Kept, Working, RecordsConversation
  <2>5. QED
    BY <1>1, <2>2, <2>3, <2>4, Goes
<1>5. QED
  BY <1>3, <1>4

\* Another of the events is recorded.
LEMMA StoresFacts ==
    ASSUME NEW stor \in Seq(Event), NEW lg \in Seq(Event), Len(stor) < Len(lg),
           \A n \in 1..Len(stor) : stor[n] = lg[n],
           NEW s2, s2 = Append(stor, lg[Len(stor) + 1])
    PROVE  /\ s2 \in Seq(Event) /\ Len(s2) = Len(stor) + 1 /\ Len(s2) <= Len(lg)
           /\ \A n \in 1..Len(s2) : s2[n] = lg[n]
           /\ s2 = lg <=> Len(s2) = Len(lg)
           /\ s2 # <<>>
<1>1. Len(stor) \in Nat /\ Len(lg) \in Nat /\ lg[Len(stor) + 1] \in Event
  OBVIOUS
<1>2. s2 \in Seq(Event) /\ Len(s2) = Len(stor) + 1 /\ s2[Len(stor) + 1] = lg[Len(stor) + 1]
      /\ \A n \in 1..Len(stor) : s2[n] = stor[n]
  BY <1>1
<1>3. Len(s2) <= Len(lg)
  BY <1>1, <1>2
<1>4. \A n \in 1..Len(s2) : s2[n] = lg[n]
  <2>1. \A n \in 1..Len(s2) : n \in 1..Len(stor) \/ n = Len(stor) + 1
    BY <1>1, <1>2
  <2>2. QED
    BY <1>2, <2>1
<1>5. ASSUME Len(s2) = Len(lg)
      PROVE  s2 = lg
  <2>1. s2 = [n \in 1..Len(s2) |-> s2[n]] /\ lg = [n \in 1..Len(lg) |-> lg[n]]
    BY <1>2
  <2>2. QED
    BY <1>4, <1>5, <2>1
<1>6. s2 # <<>>
  BY <1>1, <1>2
<1>7. QED
  BY <1>2, <1>3, <1>4, <1>5, <1>6

LEMMA KeepingFacts == \A t : Keeping(t) \in {"keeping", "cancelled"}
BY DEF Keeping

LEMMA RecordsEventKeeps ==
    ASSUME IInv, NEW t \in Turn, RecordsEvent(t)
    PROVE  IInv'
<1> DEFINE x == run[t]
           stor == stored[t]
           s2 == Append(stor, log[t][Len(stor) + 1])
           next == CASE x.at = "flushing"   -> "completing"
                     [] x.at = "failing"    -> "failed"
                     [] x.at = "cancelling" -> Keeping(t)
           y == IF s2 = log[t] THEN [x EXCEPT !.at = next] ELSE x
<1>1. x.at \in {"flushing", "failing", "cancelling"} /\ Live(t) /\ x \in Run
  BY At DEF RecordsEvent, Live
<1>2. /\ stor \in Seq(Event) /\ log[t] \in Seq(Event) /\ Len(stor) < Len(log[t])
      /\ \A n \in 1..Len(stor) : stor[n] = log[t][n]
      /\ TurnInv(row[t], stor, answers[t], log[t], x)
  BY <1>1, TurnsHold DEF TurnInv, Recorded
<1>3. /\ s2 \in Seq(Event) /\ Len(s2) = Len(stor) + 1 /\ Len(s2) <= Len(log[t])
      /\ \A n \in 1..Len(s2) : s2[n] = log[t][n]
      /\ (s2 = log[t] <=> Len(s2) = Len(log[t])) /\ s2 # <<>>
  <2> DEFINE lg == log[t]
  <2>1. stor \in Seq(Event) /\ lg \in Seq(Event) /\ Len(stor) < Len(lg)
        /\ \A n \in 1..Len(stor) : stor[n] = lg[n]
    BY <1>2
  <2>2. s2 = Append(stor, lg[Len(stor) + 1])
    OBVIOUS
  <2> HIDE DEF s2, stor, lg
  <2>3. /\ s2 \in Seq(Event) /\ Len(s2) = Len(stor) + 1 /\ Len(s2) <= Len(lg)
        /\ \A n \in 1..Len(s2) : s2[n] = lg[n]
        /\ s2 = lg <=> Len(s2) = Len(lg)
        /\ s2 # <<>>
    BY <2>1, <2>2, StoresFacts
  <2>4. QED
    BY <2>3 DEF lg
<1>4. stored' = [stored EXCEPT ![t] = s2] /\ stored'[t] = s2 /\ stored' \in [Turn -> Seq(Event)]
  <2>1. stored' = [stored EXCEPT ![t] = s2]
    BY DEF RecordsEvent, Stores
  <2> HIDE DEF s2
  <2>2. QED
    BY <1>3, <2>1 DEF IInv, TypeOK
<1>5. next \in {"completing", "failed", "keeping", "cancelled"} /\ next \in Stages
      /\ (next = "completing" => x.at = "flushing")
  BY <1>1, KeepingFacts DEF Stages
<1>6. run' = [run EXCEPT ![t] = y]
  BY <1>4 DEF RecordsEvent, GoesTo, IInv, TypeOK
<1>7. y \in Run /\ y.subs = x.subs /\ y.flushed = x.flushed
      /\ y.at = IF s2 = log[t] THEN next ELSE x.at
  <2> HIDE DEF next, s2, x
  <2>1. QED
    BY <1>1, <1>5, RunGoes
<1>8. x.flushed
  BY <1>1, <1>2 DEF TurnInv, Recorded
<1> HIDE DEF next, y, s2, x, stor
<1>9. TurnInv(row[t], s2, answers[t], log[t], y)
  <2>1. Len(stor) \in Nat /\ Len(log[t]) \in Nat
    BY <1>2
  <2>2. s2 # log[t] => Len(s2) < Len(log[t])
    BY <1>3, <2>1
  <2>3. Len(log[t]) >= 1 /\ row[t].status # "absent"
    BY <1>1, <1>2 DEF TurnInv, Recorded
  <2>4. y.at \in Working => row[t].status = "running"
    BY <1>1, <1>2, <1>5, <1>7 DEF TurnInv, Recorded, Working
  <2>5. y.at \in {"recording", "flushing", "completing"} => answers[t] >= 1
    BY <1>1, <1>2, <1>5, <1>7 DEF TurnInv, Recorded
  <2>6. Kept(row[t], s2, answers[t], log[t])
    <3>1. \A n \in 1..Len(stor) : n \in 1..Len(s2)
      BY <1>3, <2>1
    <3>2. QED
      BY <1>2, <1>3, <3>1 DEF TurnInv, Recorded, Kept
  <2>7. y.at \in {"flushing", "failing", "cancelling"} => Len(s2) < Len(log[t])
    BY <1>5, <1>7, <2>2
  <2>8. y.at = "completing" => Len(s2) = Len(log[t])
    BY <1>1, <1>3, <1>5, <1>7
  <2>9. y.at \notin {"none", "titling", "streaming", "asking", "answering", "recording"}
    BY <1>1, <1>5, <1>7
  <2>10. QED
    BY <1>3, <1>7, <1>8, <2>3, <2>4, <2>5, <2>6, <2>7, <2>8, <2>9 DEF TurnInv, Recorded
<1>10. run'[t] = y /\ run' \in [Turn -> Run]
  BY <1>6, <1>7 DEF IInv, TypeOK
<1>11. UNCHANGED <<row, answers, log, replies, conn, view, faults>>
  BY DEF RecordsEvent
<1>12. Shapes' /\ OnlyTurn(t)
  BY <1>4, <1>6, <1>10, <1>11 DEF IInv, TypeOK, Shapes, OnlyTurn
<1>13. row'[t].status # "absent"
  BY <1>1, <1>11, LiveRows
<1>14. QED
  BY <1>1, <1>4, <1>7, <1>9, <1>10, <1>11, <1>12, <1>13, Advances, HandlersStay DEF x

\* A turn whose run is over.
LEMMA TurnInvOver ==
    ASSUME NEW r, NEW stor, NEW answ, r.status # "absent", Kept(r, stor, answ, <<>>)
    PROVE  TurnInv(r, stor, answ, <<>>, NoRun)
BY DEF TurnInv, NoRun, Working

LEMMA EndsWell ==
    ASSUME IInv, NEW t \in Turn, Live(t), NEW types \in Seq(Event), Finish(t, types),
           NEW r \in Row, r.status # "absent", row' = [row EXCEPT ![t] = r],
           NEW a \in Nat, answers' = [answers EXCEPT ![t] = a], Kept(r, stored[t], a, <<>>),
           stored' = stored, faults' \in 0..MaxFaults
    PROVE  IInv'
<1>1. NoRun \in Run
  BY DEF NoRun, Run
<1>2. /\ run' = [run EXCEPT ![t] = NoRun] /\ log' = [log EXCEPT ![t] = <<>>]
      /\ replies' = [replies EXCEPT ![t] = 0]
  BY DEF Finish, ForgetsReplies
<1>3. Shapes'
  <2>1. 0 \in 0..MaxReplies
    BY ConstantsAssumption
  <2>2. QED
    BY <1>1, <1>2, <2>1 DEF IInv, TypeOK, Shapes
<1>4. run'[t] = NoRun /\ log'[t] = <<>> /\ row'[t] = r /\ answers'[t] = a /\ stored'[t] = stored[t]
  BY <1>2 DEF IInv, TypeOK
<1>5. OnlyTurn(t)
  BY <1>2 DEF OnlyTurn
<1>6. QED
  BY <1>3, <1>4, <1>5, TurnInvOver, Ends

LEMMA KeptOver ==
    ASSUME NEW r, NEW stor, NEW answ \in Nat, NEW lg, NEW r2, NEW answ2 \in Nat, Kept(r, stor, answ, lg),
           r2.status = "completed" => r.status = "completed", answ2 >= answ
    PROVE  Kept(r2, stor, answ2, <<>>)
BY DEF Kept

LEMMA TitlesKeeps ==
    ASSUME IInv, NEW t \in Turn, Titles(t)
    PROVE  IInv'
<1>1. Live(t) /\ row[t].status # "absent" /\ row[t] \in Row /\ answers[t] \in Nat
  BY LiveRows, TurnsHold DEF Titles, Live
<1>2. Kept(row[t], stored[t], answers[t], <<>>)
  BY <1>1, TurnsHold, KeptOver DEF TurnInv
<1>3. PICK types \in {<<>>, <<"title">>} : Finish(t, types)
  BY DEF Titles
<1>4. types \in Seq(Event)
  <2>1. "title" \in Event
    BY NamesOfEvents
  <2>2. <<"title">> \in Seq(Event) /\ <<>> \in Seq(Event)
    BY <2>1
  <2>3. QED
    BY <2>2
<1>5. /\ row' = [row EXCEPT ![t] = row[t]] /\ answers' = [answers EXCEPT ![t] = answers[t]]
      /\ stored' = stored /\ faults' \in 0..MaxFaults
  BY DEF Titles, IInv, TypeOK
<1>6. QED
  BY <1>1, <1>2, <1>3, <1>4, <1>5, EndsWell

LEMMA RecordsOutcomeKeeps ==
    ASSUME IInv, NEW t \in Turn, RecordsFailure(t) \/ RecordsCancellation(t)
    PROVE  IInv'
<1> DEFINE st == IF RecordsFailure(t) THEN "failed" ELSE "cancelled"
           r == [row[t] EXCEPT !.status = st]
<1>1. Live(t) /\ row[t] \in Row /\ answers[t] \in Nat
  BY TurnsHold DEF RecordsFailure, RecordsCancellation, Live
<1>2. st \in {"failed", "cancelled"} /\ st \in Settled
  BY DEF Settled
<1>3. row' = [row EXCEPT ![t] = r]
  BY DEF RecordsFailure, RecordsCancellation
<1>4. r \in Row /\ r.status = st
  <2> HIDE DEF st
  <2>1. QED
    BY <1>1, <1>2, RowIsSettled
<1> HIDE DEF r, st
<1>5. r.status # "absent" /\ Kept(r, stored[t], answers[t], <<>>)
  BY <1>2, <1>4 DEF Kept
<1>6. Finish(t, <<>>) /\ <<>> \in Seq(Event)
  BY DEF RecordsFailure, RecordsCancellation
<1>7. answers' = [answers EXCEPT ![t] = answers[t]] /\ stored' = stored /\ faults' \in 0..MaxFaults
  BY DEF RecordsFailure, RecordsCancellation, IInv, TypeOK
<1>8. QED
  BY <1>1, <1>3, <1>4, <1>5, <1>6, <1>7, EndsWell

\* The run of t publishes e and goes on as y.
LEMMA SpeaksOn ==
    ASSUME IInv, NEW t \in Turn, Live(t), NEW e \in Event, e # "output", Publish(t, <<e>>),
           NEW r \in Row, r.status # "absent", row' = [row EXCEPT ![t] = r],
           Kept(r, stored[t], answers[t], log[t]),
           NEW y \in Run, y.subs = run[t].subs, y.flushed, run' = [run EXCEPT ![t] = y],
           y.at \in {"titling", "failing", "failed", "cancelling", "keeping", "cancelled"},
           y.at = "titling" => r.status \in Settled,
           replies' \in [Turn -> 0..MaxReplies], faults' \in 0..MaxFaults,
           UNCHANGED <<stored, answers, conn>>
    PROVE  IInv'
<1>1. log[t] \in Seq(Event) /\ <<e>> \in Seq(Event) /\ log[t] \o <<e>> \in Seq(Event)
  BY TurnsHold, LogGrows
<1>2. log' = [log EXCEPT ![t] = log[t] \o <<e>>]
  BY DEF Publish
<1>3. /\ run'[t] = y /\ row'[t] = r /\ log'[t] = log[t] \o <<e>>
      /\ stored'[t] = stored[t] /\ answers'[t] = answers[t]
  BY <1>2 DEF IInv, TypeOK
<1>4. Shapes' /\ OnlyTurn(t)
  BY <1>1, <1>2 DEF IInv, TypeOK, Shapes, OnlyTurn
<1>5. TurnInv(r, stored[t], answers[t], log[t] \o <<e>>, y)
  <2>1. Recorded(stored[t], log[t]) /\ stored[t] \in Seq(Event) /\ answers[t] \in Nat
    BY TurnsHold DEF Live, TurnInv
  <2>2. QED
    BY <1>1, <2>1, TurnInvSpeaks
<1>6. QED
  BY <1>1, <1>3, <1>4, <1>5, Speaks, HandlersStay

LEMMA CompletesKeeps ==
    ASSUME IInv, NEW t \in Turn, Completes(t)
    PROVE  IInv'
<1> DEFINE r == [row[t] EXCEPT !.status = "completed"]
           y == [run[t] EXCEPT !.at = "titling"]
<1>1. Live(t) /\ row[t] \in Row /\ run[t] \in Run /\ run[t].at = "completing"
  BY TurnsHold DEF Completes, Live
<1>2. /\ TurnInv(row[t], stored[t], answers[t], log[t], run[t])
      /\ stored[t] \in Seq(Event) /\ answers[t] \in Nat /\ Len(log[t]) \in Nat
  BY TurnsHold
<1>3. "completed" \in Settled /\ "titling" \in Stages /\ "completed" \in Event
  BY NamesOfEvents DEF Settled, Stages
<1>4. r \in Row /\ r.status = "completed"
  BY <1>1, <1>3, RowIsSettled
<1>5. y \in Run /\ y.at = "titling" /\ y.subs = run[t].subs /\ y.flushed = run[t].flushed
  BY <1>1, <1>3, RunGoes
<1>6. run[t].flushed
  BY <1>1, <1>2 DEF TurnInv, Recorded
<1>7. row' = [row EXCEPT ![t] = r] /\ run' = [run EXCEPT ![t] = y] /\ Publish(t, <<"completed">>)
  BY DEF Completes, GoesTo
<1>8. /\ UNCHANGED <<stored, answers, conn>> /\ replies' \in [Turn -> 0..MaxReplies]
      /\ faults' \in 0..MaxFaults
  BY DEF Completes, IInv, TypeOK
<1> HIDE DEF r, y
<1>9. Kept(r, stored[t], answers[t], log[t])
  <2>1. answers[t] >= 1 /\ Len(stored[t]) = Len(log[t]) /\ Len(log[t]) >= 1
    BY <1>1, <1>2 DEF TurnInv, Recorded
  <2>2. stored[t] # <<>>
    BY <2>1
  <2>3. QED
    BY <2>1, <2>2 DEF Kept
<1>10. y.flushed /\ r.status # "absent" /\ r.status \in Settled
  BY <1>3, <1>4, <1>5, <1>6
<1>11. QED
  BY <1>1, <1>3, <1>4, <1>5, <1>7, <1>8, <1>9, <1>10, SpeaksOn

\* An exception ends the answer.
LEMMA FailsKeeps ==
    ASSUME IInv, NEW t \in Turn, Fails(t), run[t].at \in Working,
           UNCHANGED <<row, stored, answers, conn>>, faults' \in 0..MaxFaults
    PROVE  IInv'
<1> DEFINE at == IF run[t].flushed THEN "failed" ELSE "failing"
           y == [run[t] EXCEPT !.at = at, !.flushed = TRUE]
<1>1. Live(t) /\ row[t] \in Row /\ run[t] \in Run /\ row[t].status = "running"
  BY TurnsHold DEF Live, TurnInv, Working
<1>2. at \in {"failing", "failed"} /\ at \in Stages /\ "failed" \in Event
  BY NamesOfEvents DEF Stages
<1>3. run' = [run EXCEPT ![t] = y] /\ Publish(t, <<"failed">>)
  BY DEF Fails
<1> HIDE DEF at
<1>4. y \in Run /\ y.at = at /\ y.subs = run[t].subs /\ y.flushed
  BY <1>1, <1>2, RunGoesFlushed
<1> HIDE DEF y
<1>5. replies' \in [Turn -> 0..MaxReplies]
  BY ConstantsAssumption DEF Fails, ForgetsReplies, IInv, TypeOK
<1>6. row' = [row EXCEPT ![t] = row[t]]
  BY DEF IInv, TypeOK
<1>7. Kept(row[t], stored[t], answers[t], log[t]) /\ row[t].status # "absent"
  BY <1>1, TurnsHold DEF TurnInv
<1>8. y.at \in {"failing", "failed"}
  BY <1>2, <1>4
<1>9. QED
  BY <1>1, <1>2, <1>3, <1>4, <1>5, <1>6, <1>7, <1>8, SpeaksOn

LEMMA RunFailsKeeps ==
    ASSUME IInv, NEW t \in Turn, RunFails(t)
    PROVE  IInv'
<1>1. /\ Fails(t) /\ run[t].at \in Working /\ UNCHANGED <<row, stored, answers, conn>>
      /\ faults' \in 0..MaxFaults
  BY DEF RunFails, Working, IInv, TypeOK
<1>2. QED
  BY <1>1, FailsKeeps

\* The partial answer of a cancelled turn.
LEMMA KeepsPartialKeeps ==
    ASSUME IInv, NEW t \in Turn, KeepsPartial(t)
    PROVE  IInv'
<1> DEFINE y == [run[t] EXCEPT !.at = "cancelled"]
<1>1. Live(t) /\ run[t].at = "keeping" /\ run[t] \in Run /\ answers[t] \in Nat
      /\ TurnInv(row[t], stored[t], answers[t], log[t], run[t])
  BY TurnsHold DEF KeepsPartial, Live
<1>2. "cancelled" \in Stages
  BY DEF Stages
<1>3. y \in Run /\ y.at = "cancelled" /\ y.subs = run[t].subs /\ y.flushed = run[t].flushed
  BY <1>1, <1>2, RunGoes
<1>4. /\ answers' = [answers EXCEPT ![t] = answers[t] + 1] /\ run' = [run EXCEPT ![t] = y]
      /\ UNCHANGED <<row, stored, log, replies, conn, view, faults>>
  BY DEF KeepsPartial, GoesTo
<1> HIDE DEF y
<1>5. /\ answers'[t] = answers[t] + 1 /\ run'[t] = y
      /\ answers' \in [Turn -> Nat] /\ run' \in [Turn -> Run]
  BY <1>1, <1>3, <1>4 DEF IInv, TypeOK
<1>6. Shapes' /\ OnlyTurn(t)
  BY <1>4, <1>5 DEF IInv, TypeOK, Shapes, OnlyTurn
<1>7. TurnInv(row[t], stored[t], answers[t] + 1, log[t], y)
  <2>1. Kept(row[t], stored[t], answers[t] + 1, log[t])
    BY <1>1 DEF TurnInv, Kept
  <2>2. QED
    BY <1>1, <1>3, <2>1 DEF TurnInv, Working
<1>8. row'[t].status # "absent"
  BY <1>1, <1>4, LiveRows
<1>9. QED
  BY <1>1, <1>3, <1>4, <1>5, <1>6, <1>7, <1>8, Advances, HandlersStay

LEMMA StoreFailsKeeps ==
    ASSUME IInv, NEW t \in Turn, StoreFails(t)
    PROVE  IInv'
<1>1. faults' \in 0..MaxFaults
  BY ConstantsAssumption DEF StoreFails, IInv, TypeOK
<1>2. UNCHANGED <<row, stored, answers>>
  BY DEF StoreFails
<1>3. CASE run[t].at \in {"answering", "flushing", "completing"} /\ Fails(t) /\ UNCHANGED conn
  BY <1>1, <1>2, <1>3, FailsKeeps DEF Working
<1>4. CASE /\ run[t].at \in {"failing", "cancelling", "keeping"}
           /\ GoesTo(t, CASE run[t].at = "failing"    -> "failed"
                          [] run[t].at = "cancelling" -> Keeping(t)
                          [] run[t].at = "keeping"    -> "cancelled")
           /\ UNCHANGED <<log, replies, conn, view>>
  <2> DEFINE at == CASE run[t].at = "failing"    -> "failed"
                     [] run[t].at = "cancelling" -> Keeping(t)
                     [] run[t].at = "keeping"    -> "cancelled"
             y == [run[t] EXCEPT !.at = at]
  <2>1. at \in {"failed", "keeping", "cancelled"} /\ at \in Stages
    BY <1>4, KeepingFacts DEF Stages
  <2>2. run' = [run EXCEPT ![t] = y]
    BY <1>4 DEF GoesTo
  <2>3. Live(t) /\ run[t] \in Run
    BY <1>4, TurnsHold DEF Live
  <2> HIDE DEF at
  <2>4. y \in Run /\ y.at = at /\ y.subs = run[t].subs /\ y.flushed = run[t].flushed
    BY <2>1, <2>3, RunGoes
  <2> HIDE DEF y
  <2>5. TurnInv(row[t], stored[t], answers[t], log[t], y)
    BY <1>4, <2>1, <2>4, TurnsHold DEF TurnInv, Working
  <2>6. replies' \in [Turn -> 0..MaxReplies] /\ y.at # "none"
    BY <1>4, <2>1, <2>4 DEF IInv, TypeOK
  <2>7. QED
    BY <1>1, <1>2, <1>4, <2>2, <2>3, <2>4, <2>5, <2>6, Goes
<1>5. CASE run[t].at \in {"failed", "cancelled"} /\ Finish(t, <<>>)
  <2>1. Live(t) /\ row[t].status # "absent" /\ row[t] \in Row /\ answers[t] \in Nat
    BY <1>5, LiveRows, TurnsHold DEF Live
  <2>2. Kept(row[t], stored[t], answers[t], <<>>)
    BY <2>1, TurnsHold, KeptOver DEF TurnInv
  <2>3. row' = [row EXCEPT ![t] = row[t]] /\ answers' = [answers EXCEPT ![t] = answers[t]]
    BY <1>2 DEF IInv, TypeOK
  <2>4. <<>> \in Seq(Event)
    OBVIOUS
  <2>5. QED
    BY <1>1, <1>2, <1>5, <2>1, <2>2, <2>3, <2>4, EndsWell
<1>6. QED
  BY <1>3, <1>4, <1>5 DEF StoreFails

\* Only replies come in, if anything.
LEMMA RepliesKeep ==
    ASSUME IInv, replies' \in [Turn -> 0..MaxReplies],
           UNCHANGED <<row, stored, answers, log, run, conn, view, faults>>
    PROVE  IInv'
<1>1. replies' \in [Turn -> 0..MaxReplies]
  OBVIOUS
<1>2. UNCHANGED <<row, stored, answers, log, run, conn, view, faults>>
  OBVIOUS
<1>3. TypeOK' /\ TurnsInv'
  BY <1>1, <1>2 DEF IInv, TypeOK, TurnsInv
<1>4. ASSUME NEW c \in Connection
      PROVE  ConnInv(c)' /\ ViewInv(c)'
  <2>1. ConnInv(c)'
    BY <1>2, ConnStays DEF Onward, Live
  <2>2. \A u \in Turn : Len(log[u]) \in Nat
    BY TurnsHold
  <2>3. ViewInv(c)'
    BY <1>2, <2>2, ViewStays DEF Live
  <2>4. QED
    BY <2>1, <2>3
<1>5. QED
  BY <1>3, <1>4 DEF IInv

LEMMA ReplyKeeps ==
    ASSUME IInv, NEW t \in Turn, Reply(t)
    PROVE  IInv'
<1>1. replies' \in [Turn -> 0..MaxReplies]
  BY ConstantsAssumption DEF Reply, IInv, TypeOK
<1>2. QED
  BY <1>1, RepliesKeep DEF Reply

-----------------------------------------------------------------------------
(* Connections. *)

LEMMA ConnIsRead ==
    ASSUME NEW k \in Conn
    PROVE  /\ k.session \in Session \cup {NoSession}
           /\ k.turn \in Turn \cup {NoTurn} /\ k.victim \in Turn \cup {NoTurn}
BY DEF Conn

\* A handler moves and leaves the turns and the views alone.
LEMMA HandlerGoes ==
    ASSUME IInv, NEW c \in Connection, NEW k \in Conn, conn' = [conn EXCEPT ![c] = k],
           k.turn = conn[c].turn, k.at \notin {"recovering", "settling"} \/ ConnInv(c)',
           k.at \in {"recovering", "creating"} => k.session \in Session,
           UNCHANGED <<row, stored, answers, log, run, replies, view, faults>>
    PROVE  IInv'
<1>1. conn'[c] = k /\ conn' \in [Connection -> Conn]
  BY DEF IInv, TypeOK
<1>2. \A d \in Connection \ {c} : conn'[d] = conn[d]
  OBVIOUS
<1>3. \A d \in Connection : conn'[d].turn = conn[d].turn
  BY <1>1, <1>2
<1>4. ASSUME NEW d \in Connection
      PROVE  ViewInv(d)'
  <2>1. view'[d] = view[d] /\ conn'[d].turn = conn[d].turn
    BY <1>3
  <2>2. \A t \in Turn : (Live(t)' => Live(t)) /\ Len(log'[t]) >= Len(log[t])
    BY TurnsHold DEF Live
  <2>3. QED
    BY <2>1, <2>2, ViewStays
<1>5. Onward
  BY DEF Onward, Live
<1>6. \A d \in Connection \ {c} : ConnInv(d)'
  BY <1>2, <1>5, ConnStays
<1>7. ConnInv(c)'
  BY <1>1 DEF ConnInv
<1>8. TypeOK' /\ TurnsInv'
  BY <1>1 DEF IInv, TypeOK, TurnsInv
<1>9. QED
  BY <1>4, <1>6, <1>7, <1>8 DEF IInv

LEMMA StartListsKeeps ==
    ASSUME IInv, NEW c \in Connection, NEW s \in Session, StartLists(c, s)
    PROVE  IInv'
<1>1. conn[c] \in Conn
  BY DEF IInv, TypeOK
<1>2. UNCHANGED <<row, stored, answers, log, run, replies, view, faults>>
  BY DEF StartLists
<1>3. CASE conn' = [conn EXCEPT ![c].at = "creating", ![c].session = s]
  <2> DEFINE k == [conn[c] EXCEPT !.at = "creating", !.session = s]
  <2>1. k \in Conn
    BY <1>1 DEF Conn
  <2>2. k.at = "creating" /\ k.session = s /\ k.turn = conn[c].turn
    BY <1>1 DEF Conn
  <2>3. conn' = [conn EXCEPT ![c] = k]
    BY <1>3
  <2> HIDE DEF k
  <2>4. QED
    BY <1>2, <2>1, <2>2, <2>3, HandlerGoes
<1>4. ASSUME NEW t \in Turn, t \in Running(s), ~Live(t),
             conn' = [conn EXCEPT ![c].at = "recovering", ![c].session = s, ![c].victim = t]
      PROVE  IInv'
  <2> DEFINE k == [conn[c] EXCEPT !.at = "recovering", !.session = s, !.victim = t]
  <2>1. k \in Conn
    BY <1>1 DEF Conn
  <2>2. k.at = "recovering" /\ k.session = s /\ k.victim = t /\ k.turn = conn[c].turn
    BY <1>1 DEF Conn
  <2>3. conn' = [conn EXCEPT ![c] = k]
    BY <1>4
  <2>4. row[t].status # "absent"
    BY <1>4 DEF Running
  <2> HIDE DEF k
  <2>5. conn'[c] = k
    BY <2>3 DEF IInv, TypeOK
  <2>6. ConnInv(c)'
    BY <1>2, <1>4, <2>2, <2>4, <2>5 DEF ConnInv, Past, Live
  <2>7. QED
    BY <1>2, <2>1, <2>2, <2>3, <2>6, HandlerGoes
<1>5. QED
  BY <1>3, <1>4 DEF StartLists, Running

\* A row is given an outcome, whichever it had, when its turn is past.
LEMMA PastRowSettles ==
    ASSUME IInv, NEW t \in Turn, Past(t), NEW st \in {"failed", "cancelled"},
           row' = [row EXCEPT ![t].status = st]
    PROVE  /\ row' \in [Turn -> Row]
           /\ \A u \in Turn : /\ TurnInv(row'[u], stored[u], answers[u], log[u], run[u])
                              /\ row[u].status # "absent" => row'[u].status # "absent"
<1> DEFINE r == [row[t] EXCEPT !.status = st]
<1>1. row[t] \in Row /\ st \in Settled
  BY TurnsHold DEF Settled
<1>2. r \in Row /\ r.status = st
  BY <1>1, RowIsSettled
<1>3. row' = [row EXCEPT ![t] = r]
  OBVIOUS
<1> HIDE DEF r
<1>4. row' \in [Turn -> Row] /\ row'[t] = r /\ \A u \in Turn \ {t} : row'[u] = row[u]
  BY <1>2, <1>3 DEF IInv, TypeOK
<1>5. run[t] = NoRun /\ log[t] = <<>>
  BY TurnsHold DEF Past, Live, TurnInv
<1>6. r.status # "absent" /\ Kept(r, stored[t], answers[t], <<>>)
  BY <1>2 DEF Kept
<1>7. TurnInv(r, stored[t], answers[t], <<>>, NoRun)
  BY <1>6, TurnInvOver
<1>8. ASSUME NEW u \in Turn
      PROVE  /\ TurnInv(row'[u], stored[u], answers[u], log[u], run[u])
             /\ row[u].status # "absent" => row'[u].status # "absent"
  <2>1. CASE u = t
    BY <1>4, <1>5, <1>6, <1>7, <2>1
  <2>2. CASE u # t
    BY <1>4, <2>2, TurnsHold
  <2>3. QED
    BY <2>1, <2>2
<1>9. QED
  BY <1>4, <1>8

LEMMA StartRecoversKeeps ==
    ASSUME IInv, NEW c \in Connection, StartRecovers(c)
    PROVE  IInv'
<1> DEFINE t == conn[c].victim
           k == [conn[c] EXCEPT !.at = "creating", !.victim = NoTurn]
<1>1. /\ conn[c] \in Conn /\ conn[c].at = "recovering" /\ Past(t) /\ t \in Turn
      /\ conn[c].session \in Session
  BY DEF StartRecovers, IInv, TypeOK, ConnInv, Past
<1>2. /\ row' = [row EXCEPT ![t].status = "failed"] /\ conn' = [conn EXCEPT ![c] = k]
      /\ UNCHANGED <<stored, answers, log, run, replies, view, faults>>
  BY DEF StartRecovers
<1>3. row' \in [Turn -> Row] /\ TurnsInv' /\ Onward
  <2> HIDE DEF t
  <2>1. /\ row' \in [Turn -> Row]
        /\ \A u \in Turn : /\ TurnInv(row'[u], stored[u], answers[u], log[u], run[u])
                           /\ row[u].status # "absent" => row'[u].status # "absent"
    BY <1>1, <1>2, PastRowSettles
  <2>2. QED
    BY <1>2, <2>1 DEF TurnsInv, Onward, Live
<1>4. k \in Conn
  BY <1>1 DEF Conn
<1>5. k.at = "creating" /\ k.session = conn[c].session /\ k.turn = conn[c].turn
  BY <1>1 DEF Conn
<1> HIDE DEF k
<1>6. conn' \in [Connection -> Conn] /\ conn'[c] = k /\ \A d \in Connection \ {c} : conn'[d] = conn[d]
  BY <1>2, <1>4 DEF IInv, TypeOK
<1>7. ConnInv(c)'
  BY <1>1, <1>5, <1>6 DEF ConnInv
<1>8. \A d \in Connection \ {c} : ConnInv(d)'
  BY <1>3, <1>6, ConnStays
<1>9. \A d \in Connection : conn'[d].turn = conn[d].turn
  BY <1>5, <1>6
<1>10. ASSUME NEW d \in Connection
       PROVE  ViewInv(d)'
  <2>1. view'[d] = view[d] /\ conn'[d].turn = conn[d].turn
    BY <1>2, <1>9
  <2>2. \A u \in Turn : (Live(u)' => Live(u)) /\ Len(log'[u]) >= Len(log[u])
    BY <1>2, TurnsHold DEF Live
  <2>3. \A u \in Turn : row[u].status # "absent" => row'[u].status # "absent"
    BY <1>3 DEF Onward
  <2>4. QED
    BY <1>2, <2>1, <2>2, <2>3, ViewStays
<1>11. TypeOK'
  BY <1>2, <1>3, <1>6 DEF IInv, TypeOK
<1>12. QED
  BY <1>3, <1>7, <1>8, <1>10, <1>11 DEF IInv

\* No connection subscribes to two turns.
LEMMA UnsubscribedFacts ==
    ASSUME IInv, NEW c \in Connection
    PROVE  /\ Unsubscribed(c) \in [Turn -> Run]
           /\ \A t \in Turn : /\ Unsubscribed(c)[t].at = run[t].at
                              /\ Unsubscribed(c)[t].flushed = run[t].flushed
                              /\ Unsubscribed(c)[t].subs = run[t].subs \ {c}
                              /\ run[t] = NoRun => Unsubscribed(c)[t] = NoRun
<1>1. ASSUME NEW t \in Turn
      PROVE  /\ Unsubscribed(c)[t] \in Run
             /\ Unsubscribed(c)[t].at = run[t].at
             /\ Unsubscribed(c)[t].flushed = run[t].flushed
             /\ Unsubscribed(c)[t].subs = run[t].subs \ {c}
             /\ run[t] = NoRun => Unsubscribed(c)[t] = NoRun
  <2>1. run[t] \in Run /\ run[t].subs \subseteq Connection
    BY TurnsHold, RunIsRead
  <2>2. CASE c \in run[t].subs
    <3> DEFINE subs == run[t].subs \ {c}
               y == [run[t] EXCEPT !.subs = subs]
    <3>1. Unsubscribed(c)[t] = y
      BY <2>2 DEF Unsubscribed
    <3>2. subs \in SUBSET Connection
      BY <2>1
    <3>3. y \in Run
      BY <2>1, <3>2 DEF Run
    <3>4. y.subs = subs
      BY <2>1 DEF Run
    <3>5. y.at = run[t].at
      BY <2>1 DEF Run
    <3>6. y.flushed = run[t].flushed
      BY <2>1 DEF Run
    <3>7. run[t] # NoRun
      BY <2>2 DEF NoRun
    <3> HIDE DEF y
    <3>8. QED
      BY <3>1, <3>3, <3>4, <3>5, <3>6, <3>7
  <2>3. CASE c \notin run[t].subs
    <3>1. Unsubscribed(c)[t] = run[t] /\ run[t].subs \ {c} = run[t].subs
      BY <2>3 DEF Unsubscribed
    <3>2. QED
      BY <2>1, <3>1
  <2>4. QED
    BY <2>2, <2>3
<1>2. Unsubscribed(c) \in [Turn -> Run]
  BY <1>1 DEF Unsubscribed
<1>3. QED
  BY <1>1, <1>2

\* The turns do not mind who subscribes.
LEMMA TurnInvSubs ==
    ASSUME NEW r, NEW stor, NEW answ, NEW lg, NEW x, NEW y, TurnInv(r, stor, answ, lg, x),
           y.at = x.at, y.flushed = x.flushed, x = NoRun => y = NoRun
    PROVE  TurnInv(r, stor, answ, lg, y)
BY DEF TurnInv

LEMMA StartCreatesKeeps ==
    ASSUME IInv, NEW c \in Connection, StartCreates(c)
    PROVE  IInv'
<1> DEFINE s == conn[c].session
<1>1. conn[c] \in Conn /\ s \in Session
  BY DEF StartCreates, IInv, TypeOK, ConnInv
<1>2. CASE Running(s) # {}
  <2> DEFINE k == [conn[c] EXCEPT !.at = "open", !.session = NoSession]
  <2>1. k \in Conn
    BY <1>1 DEF Conn
  <2>2. k.at = "open" /\ k.turn = conn[c].turn
    BY <1>1 DEF Conn
  <2>3. /\ conn' = [conn EXCEPT ![c] = k]
        /\ UNCHANGED <<row, stored, answers, log, run, replies, view, faults>>
    BY <1>2 DEF StartCreates
  <2> HIDE DEF k
  <2>4. QED
    BY <2>1, <2>2, <2>3, HandlerGoes
<1>3. ASSUME NEW t \in Turn, row[t] = Absent,
             row' = [row EXCEPT ![t] = [status |-> "running", session |-> s]],
             log' = [log EXCEPT ![t] = <<"session">>],
             run' = [Unsubscribed(c) EXCEPT ![t].at = "streaming"],
             view' = [view EXCEPT ![c] = [NoView EXCEPT !.turn = t, !.at = "begun"]],
             conn' = [conn EXCEPT ![c] = [Off EXCEPT !.at = "open", !.turn = t]],
             UNCHANGED <<stored, answers, replies, faults>>
      PROVE  IInv'
  <2> DEFINE r == [status |-> "running", session |-> s]
             y == [NoRun EXCEPT !.at = "streaming"]
             v == [NoView EXCEPT !.turn = t, !.at = "begun"]
             k == [Off EXCEPT !.at = "open", !.turn = t]
  <2>1. row[t].status = "absent" /\ run[t] = NoRun /\ stored[t] = <<>> /\ log[t] = <<>>
    BY <1>3, TurnsHold DEF Absent, TurnInv
  <2>2. r \in Row /\ r.status = "running"
    BY <1>1 DEF Row
  <2>3. y \in Run /\ y.at = "streaming" /\ y.subs = {} /\ ~y.flushed
    <3>1. NoRun \in Run /\ "streaming" \in Stages
      BY DEF NoRun, Run, Stages
    <3>2. NoRun.subs = {} /\ ~NoRun.flushed
      BY DEF NoRun
    <3>3. QED
      BY <3>1, <3>2, RunGoes
  <2>4. v \in View /\ v.turn = t /\ v.at = "begun" /\ v.seen = <<>> /\ v.queue = <<>>
    <3>1. NoView \in View /\ NoView.seen = <<>> /\ NoView.queue = <<>>
      BY NoViewFacts DEF NoView
    <3>2. v \in View
      BY <3>1 DEF View
    <3>3. v.turn = t /\ v.at = "begun" /\ v.seen = <<>> /\ v.queue = <<>>
      BY <3>1 DEF View
    <3>4. QED
      BY <3>2, <3>3
  <2>5. k \in Conn /\ k.at = "open" /\ k.turn = t
    BY DEF Off, Conn
  <2>6. <<"session">> \in Seq(Event) /\ Len(<<"session">>) = 1 /\ <<"session">>[1] = "session"
    BY NamesOfEvents
  <2>7. /\ Unsubscribed(c) \in [Turn -> Run] /\ Unsubscribed(c)[t] = NoRun
        /\ \A u \in Turn : /\ Unsubscribed(c)[u].at = run[u].at
                           /\ Unsubscribed(c)[u].flushed = run[u].flushed
                           /\ Unsubscribed(c)[u].subs = run[u].subs \ {c}
                           /\ run[u] = NoRun => Unsubscribed(c)[u] = NoRun
    BY <2>1, UnsubscribedFacts
  <2>8. run' = [Unsubscribed(c) EXCEPT ![t] = y]
    BY <1>3, <2>7
  <2>9. row' = [row EXCEPT ![t] = r] /\ view' = [view EXCEPT ![c] = v] /\ conn' = [conn EXCEPT ![c] = k]
    BY <1>3
  <2> HIDE DEF r, y, v, k
  <2>10. /\ run' \in [Turn -> Run] /\ run'[t] = y
         /\ \A u \in Turn \ {t} : run'[u] = Unsubscribed(c)[u]
    BY <2>3, <2>7, <2>8
  <2>11. /\ row' \in [Turn -> Row] /\ row'[t] = r /\ \A u \in Turn \ {t} : row'[u] = row[u]
         /\ log' \in [Turn -> Seq(Event)] /\ log'[t] = <<"session">>
         /\ \A u \in Turn \ {t} : log'[u] = log[u]
    BY <1>3, <2>2, <2>6, <2>9 DEF IInv, TypeOK
  <2>12. /\ view' \in [Connection -> View] /\ view'[c] = v
         /\ conn' \in [Connection -> Conn] /\ conn'[c] = k
         /\ \A d \in Connection \ {c} : view'[d] = view[d] /\ conn'[d] = conn[d]
    BY <2>4, <2>5, <2>9 DEF IInv, TypeOK
  <2>13. TypeOK'
    BY <1>3, <2>10, <2>11, <2>12 DEF IInv, TypeOK
  <2>14. TurnsInv'
    <3>1. TurnInv(r, stored[t], answers[t], <<"session">>, y)
      <4> DEFINE lg == <<"session">>
      <4>1. Len(lg) >= 1 /\ Len(stored[t]) <= Len(lg) /\ Len(stored[t]) = 0
        BY <2>1, <2>6
      <4> HIDE DEF lg
      <4>2. Recorded(stored[t], lg)
        BY <4>1 DEF Recorded
      <4>3. QED
        BY <2>1, <2>2, <2>3, <4>2 DEF TurnInv, Kept, lg
    <3>2. ASSUME NEW u \in Turn, u # t
          PROVE  TurnInv(row[u], stored[u], answers[u], log[u], Unsubscribed(c)[u])
      BY <2>7, TurnsHold, TurnInvSubs
    <3>3. ASSUME NEW u \in Turn
          PROVE  TurnInv(row'[u], stored'[u], answers'[u], log'[u], run'[u])
      <4>1. CASE u = t
        BY <1>3, <2>10, <2>11, <3>1, <4>1
      <4>2. CASE u # t
        BY <1>3, <2>10, <2>11, <3>2, <4>2
      <4>3. QED
        BY <4>1, <4>2
    <3>4. QED
      BY <3>3 DEF TurnsInv
  <2>15. /\ \A u \in Turn : row[u].status # "absent" => u # t /\ row'[u] = row[u]
         /\ \A u \in Turn : u # t => (Live(u)' => Live(u)) /\ log'[u] = log[u]
         /\ \A u \in Turn : run'[u].subs = run[u].subs \ {c}
    <3>1. \A u \in Turn : row[u].status # "absent" => u # t /\ row'[u] = row[u]
      BY <2>1, <2>11
    <3>2. \A u \in Turn : u # t => (Live(u)' => Live(u)) /\ log'[u] = log[u]
      BY <2>7, <2>10, <2>11 DEF Live
    <3>3. \A u \in Turn : run'[u].subs = run[u].subs \ {c}
      <4>1. run[t].subs = {}
        BY <2>1 DEF NoRun
      <4>2. QED
        BY <2>3, <2>7, <2>10, <4>1
    <3>4. QED
      BY <3>1, <3>2, <3>3
  <2>16. Onward
    BY <2>15 DEF Onward
  <2>17. ASSUME NEW d \in Connection, d # c
         PROVE  ConnInv(d)' /\ ViewInv(d)'
    <3>1. ConnInv(d)'
      BY <2>12, <2>16, <2>17, ConnStays
    <3>2. view'[d] = view[d] /\ conn'[d].turn = conn[d].turn
      BY <2>12, <2>17
    <3>3. \A u \in Turn : row[u].status # "absent" => row'[u].status # "absent"
      BY <2>15
    <3>4. \A u \in Turn : row[u].status # "absent" /\ Live(u)' =>
              /\ Live(u) /\ Len(log'[u]) >= Len(log[u])
              /\ d \in run[u].subs => d \in run'[u].subs /\ log'[u] = log[u]
      BY <2>15, <2>17, TurnsHold
    <3>5. \A u \in Turn : d \in run'[u].subs => d \in run[u].subs
      BY <2>15
    <3>6. ViewInv(d)'
      BY <3>2, <3>3, <3>4, <3>5, ViewStays
    <3>7. QED
      BY <3>1, <3>6
  <2>18. ConnInv(c)'
    BY <2>5, <2>12 DEF ConnInv
  <2>19. ViewInv(c)'
    <3>1. Whole(v.seen) /\ Len(v.seen) = 0 /\ Len(log'[t]) = 1
      BY <2>4, <2>6, <2>11 DEF Whole
    <3>2. row'[t].status # "absent" /\ \A u \in Turn : c \notin run'[u].subs
      BY <2>2, <2>11, <2>15
    <3>3. Len(v.seen) <= Len(log'[t])
      BY <3>1
    <3>4. QED
      BY <2>4, <2>5, <2>12, <3>1, <3>2, <3>3 DEF ViewInv
  <2>20. QED
    BY <2>13, <2>14, <2>17, <2>18, <2>19 DEF IInv
<1>4. QED
  BY <1>2, <1>3 DEF StartCreates

\* A handler stops its forwarder and returns; the rows may be settled with that.
LEMMA StopsKeeps ==
    ASSUME IInv, NEW c \in Connection, StopsForwarding(c),
           row' \in [Turn -> Row],
           \A u \in Turn : /\ TurnInv(row'[u], stored[u], answers[u], log[u], run[u])
                           /\ row[u].status # "absent" => row'[u].status # "absent",
           UNCHANGED <<stored, answers, log, replies, faults>>
    PROVE  IInv'
<1>1. run' = Unsubscribed(c) /\ view' = [view EXCEPT ![c] = NoView] /\ conn' = [conn EXCEPT ![c] = Closed]
  BY DEF StopsForwarding
<1>2. /\ run' \in [Turn -> Run]
      /\ \A u \in Turn : /\ run'[u].at = run[u].at /\ run'[u].flushed = run[u].flushed
                         /\ run'[u].subs = run[u].subs \ {c}
                         /\ run[u] = NoRun => run'[u] = NoRun
  BY <1>1, UnsubscribedFacts
<1>3. /\ view' \in [Connection -> View] /\ view'[c] = NoView
      /\ conn' \in [Connection -> Conn] /\ conn'[c] = Closed
      /\ \A d \in Connection \ {c} : view'[d] = view[d] /\ conn'[d] = conn[d]
  BY <1>1, NoViewFacts, ClosedFacts DEF IInv, TypeOK
<1>4. TypeOK'
  BY <1>2, <1>3 DEF IInv, TypeOK
<1>5. TurnsInv'
  <2>1. ASSUME NEW u \in Turn
        PROVE  TurnInv(row'[u], stored[u], answers[u], log[u], run'[u])
    BY <1>2, TurnInvSubs
  <2>2. QED
    BY <2>1 DEF TurnsInv
<1>6. \A u \in Turn : Live(u)' => Live(u)
  BY <1>2 DEF Live
<1>7. Onward
  BY <1>6 DEF Onward
<1>8. ASSUME NEW d \in Connection, d # c
      PROVE  ConnInv(d)' /\ ViewInv(d)'
  <2>1. ConnInv(d)'
    BY <1>3, <1>7, <1>8, ConnStays
  <2>2. view'[d] = view[d] /\ conn'[d].turn = conn[d].turn
    BY <1>3, <1>8
  <2>3. \A u \in Turn : row[u].status # "absent" /\ Live(u)' =>
            /\ Live(u) /\ Len(log'[u]) >= Len(log[u])
            /\ d \in run[u].subs => d \in run'[u].subs /\ log'[u] = log[u]
    BY <1>2, <1>6, <1>8, TurnsHold
  <2>4. \A u \in Turn : d \in run'[u].subs => d \in run[u].subs
    BY <1>2
  <2>5. ViewInv(d)'
    BY <2>2, <2>3, <2>4, ViewStays
  <2>6. QED
    BY <2>1, <2>5
<1>9. ConnInv(c)' /\ ViewInv(c)'
  <2>1. \A u \in Turn : c \notin run'[u].subs
    BY <1>2
  <2>2. QED
    BY <1>3, <2>1, NoViewFacts, ClosedIsSafe, IdleViewIsSafe
<1>10. QED
  BY <1>4, <1>5, <1>8, <1>9 DEF IInv

LEMMA CancelSettlesKeeps ==
    ASSUME IInv, NEW c \in Connection, CancelSettles(c)
    PROVE  IInv'
<1> DEFINE t == conn[c].turn
<1>1. Past(t) /\ t \in Turn
  BY DEF CancelSettles, IInv, ConnInv, Past
<1>2. /\ row' = [row EXCEPT ![t].status = "cancelled"] /\ StopsForwarding(c)
      /\ UNCHANGED <<stored, answers, log, replies, faults>>
  BY DEF CancelSettles
<1> HIDE DEF t
<1>3. /\ row' \in [Turn -> Row]
      /\ \A u \in Turn : /\ TurnInv(row'[u], stored[u], answers[u], log[u], run[u])
                         /\ row[u].status # "absent" => row'[u].status # "absent"
  BY <1>1, <1>2, PastRowSettles
<1>4. QED
  BY <1>2, <1>3, StopsKeeps

-----------------------------------------------------------------------------
(* Views. *)

\* The view of c moves; what of the rest changes disturbs nobody else.
LEMMA OneViewMoves ==
    ASSUME IInv, NEW c \in Connection, NEW w \in View, view' = [view EXCEPT ![c] = w],
           UNCHANGED <<conn, stored, answers, log, replies, faults>>,
           row' \in [Turn -> Row],
           \A u \in Turn : /\ TurnInv(row'[u], stored[u], answers[u], log[u], run[u])
                           /\ row[u].status # "absent" => row'[u].status # "absent",
           run' \in [Turn -> Run],
           \A u \in Turn : /\ run'[u].at = run[u].at /\ run'[u].flushed = run[u].flushed
                           /\ run[u] = NoRun => run'[u] = NoRun
                           /\ \A d \in Connection \ {c} : d \in run'[u].subs <=> d \in run[u].subs,
           ViewInv(c)'
    PROVE  IInv'
<1>1. view' \in [Connection -> View] /\ \A d \in Connection \ {c} : view'[d] = view[d]
  BY DEF IInv, TypeOK
<1>2. TypeOK'
  BY <1>1 DEF IInv, TypeOK
<1>3. TurnsInv'
  <2>1. ASSUME NEW u \in Turn
        PROVE  TurnInv(row'[u], stored[u], answers[u], log[u], run'[u])
    BY TurnInvSubs
  <2>2. QED
    BY <2>1 DEF TurnsInv
<1>4. \A u \in Turn : Live(u)' => Live(u)
  BY DEF Live
<1>5. Onward
  BY <1>4 DEF Onward
<1>6. \A d \in Connection : ConnInv(d)'
  BY <1>5, ConnStays
<1>7. ASSUME NEW d \in Connection, d # c
      PROVE  ViewInv(d)'
  <2>1. view'[d] = view[d] /\ conn'[d].turn = conn[d].turn
    BY <1>1, <1>7
  <2>2. \A u \in Turn : row[u].status # "absent" /\ Live(u)' =>
            /\ Live(u) /\ Len(log'[u]) >= Len(log[u])
            /\ d \in run[u].subs => d \in run'[u].subs /\ log'[u] = log[u]
    BY <1>4, <1>7, TurnsHold
  <2>3. \A u \in Turn : d \in run'[u].subs => d \in run[u].subs
    BY <1>7
  <2>4. QED
    BY <2>1, <2>2, <2>3, ViewStays
<1>8. QED
  BY <1>2, <1>3, <1>6, <1>7 DEF IInv

LEMMA ReadBacklogKeeps ==
    ASSUME IInv, NEW c \in Connection, ReadBacklog(c)
    PROVE  IInv'
<1> DEFINE v == view[c]
           t == v.turn
           w == [Yields(v, stored[t]) EXCEPT !.at = "attaching"]
<1>1. v \in View /\ ViewInv(c) /\ v.at = "begun"
  BY DEF ReadBacklog, IInv, TypeOK
<1>2. /\ t \in Turn /\ row[t].status # "absent" /\ t = conn[c].turn
      /\ Whole(v.seen) /\ Len(v.seen) = 0 /\ v.queue = <<>>
      /\ \A u \in Turn : c \notin run[u].subs
  BY <1>1 DEF ViewInv
<1>3. stored[t] \in Seq(Event) /\ Len(stored[t]) \in Nat
  BY <1>2, TurnsHold
<1>4. /\ w \in View /\ w.at = "attaching" /\ w.turn = t /\ w.queue = v.queue /\ Whole(w.seen)
      /\ Len(w.seen) = Len(stored[t])
  <2>1. /\ w \in View /\ w.at = "attaching" /\ w.turn = v.turn /\ w.queue = v.queue /\ Whole(w.seen)
        /\ Len(w.seen) = IF Len(stored[t]) >= Len(v.seen) THEN Len(stored[t]) ELSE Len(v.seen)
    BY <1>1, <1>2, <1>3, YieldsFacts
  <2> HIDE DEF w
  <2>2. QED
    BY <1>2, <1>3, <2>1
<1>5. view' = [view EXCEPT ![c] = w] /\ UNCHANGED <<row, stored, answers, log, run, replies, conn, faults>>
  BY DEF ReadBacklog
<1> HIDE DEF w
<1>6. view'[c] = w
  BY <1>5 DEF IInv, TypeOK
<1>7. Live(t) => Len(w.seen) <= Len(log[t])
  BY <1>2, <1>4, TurnsHold DEF TurnInv, Recorded, Live
<1>8. ViewInv(c)'
  BY <1>2, <1>4, <1>5, <1>6, <1>7 DEF ViewInv, Live
<1>9. row' \in [Turn -> Row] /\ run' \in [Turn -> Run]
  BY <1>5 DEF IInv, TypeOK
<1>10. \A u \in Turn : TurnInv(row[u], stored[u], answers[u], log[u], run[u])
  BY TurnsHold
<1>11. QED
  BY <1>4, <1>5, <1>8, <1>9, <1>10, OneViewMoves

LEMMA AttachKeeps ==
    ASSUME IInv, NEW c \in Connection, Attach(c)
    PROVE  IInv'
<1> DEFINE v == view[c]
           t == v.turn
           w == [Yields(v, log[t]) EXCEPT !.at = "live"]
           y == [run[t] EXCEPT !.subs = @ \cup {c}]
<1>1. v \in View /\ ViewInv(c) /\ v.at = "attaching" /\ Live(t)
  BY DEF Attach, IInv, TypeOK
<1>2. /\ t \in Turn /\ row[t].status # "absent" /\ t = conn[c].turn
      /\ Whole(v.seen) /\ Len(v.seen) <= Len(log[t]) /\ v.queue = <<>>
      /\ \A u \in Turn : c \notin run[u].subs
  BY <1>1 DEF ViewInv
<1>3. log[t] \in Seq(Event) /\ Len(log[t]) \in Nat /\ run[t] \in Run
  BY <1>2, TurnsHold
<1>4. /\ w \in View /\ w.at = "live" /\ w.turn = t /\ w.queue = v.queue /\ Whole(w.seen)
      /\ Len(w.seen) = Len(log[t])
  <2>1. Len(v.seen) \in Nat
    BY <1>1, ViewIsRead
  <2>2. /\ w \in View /\ w.at = "live" /\ w.turn = v.turn /\ w.queue = v.queue /\ Whole(w.seen)
        /\ Len(w.seen) = IF Len(log[t]) >= Len(v.seen) THEN Len(log[t]) ELSE Len(v.seen)
    BY <1>1, <1>2, <1>3, YieldsFacts
  <2> HIDE DEF w
  <2>3. QED
    BY <1>2, <1>3, <2>1, <2>2
<1>5. y \in Run /\ y.at = run[t].at /\ y.flushed = run[t].flushed /\ y.subs = run[t].subs \cup {c}
  <2>1. run[t].subs \cup {c} \in SUBSET Connection
    BY <1>3, RunIsRead
  <2>2. y \in Run
    BY <1>3, <2>1 DEF Run
  <2>3. y.subs = run[t].subs \cup {c}
    BY <1>3 DEF Run
  <2>4. y.at = run[t].at
    BY <1>3 DEF Run
  <2>5. y.flushed = run[t].flushed
    BY <1>3 DEF Run
  <2> HIDE DEF y
  <2>6. QED
    BY <2>2, <2>3, <2>4, <2>5
<1>6. /\ view' = [view EXCEPT ![c] = w] /\ run' = [run EXCEPT ![t] = y]
      /\ UNCHANGED <<row, stored, answers, log, replies, conn, faults>>
  BY DEF Attach
<1> HIDE DEF w, y
<1>7. view'[c] = w /\ run'[t] = y /\ run' \in [Turn -> Run] /\ \A u \in Turn \ {t} : run'[u] = run[u]
  BY <1>2, <1>5, <1>6 DEF IInv, TypeOK
<1>8. ViewInv(c)'
  <2>1. w.queue = <<>> /\ Len(w.queue) = 0
    BY <1>2, <1>4
  <2>2. InOrder(w) /\ \A i \in 1..Len(w.queue) : w.queue[i] # End
    BY <2>1 DEF InOrder
  <2>3. /\ Len(w.seen) + Len(w.queue) = Len(log[t]) /\ Len(w.seen) <= Len(log[t])
    BY <1>3, <1>4, <2>1
  <2>4. c \in run'[t].subs /\ \A u \in Turn : c \in run'[u].subs => u = t
    BY <1>2, <1>5, <1>7
  <2>5. row'[t].status # "absent" /\ t = conn'[c].turn /\ log'[t] = log[t]
    BY <1>2, <1>6
  <2>6. QED
    BY <1>2, <1>4, <1>7, <2>2, <2>3, <2>4, <2>5, SubscriberIsSafe
<1>9. \A u \in Turn : /\ run'[u].at = run[u].at /\ run'[u].flushed = run[u].flushed
                      /\ run[u] = NoRun => run'[u] = NoRun
                      /\ \A d \in Connection \ {c} : d \in run'[u].subs <=> d \in run[u].subs
  <2>1. run[t] # NoRun
    BY <1>1 DEF Live, NoRun
  <2>2. QED
    BY <1>5, <1>7, <2>1
<1>10. row' \in [Turn -> Row]
  BY <1>6 DEF IInv, TypeOK
<1>11. \A u \in Turn : /\ TurnInv(row'[u], stored[u], answers[u], log[u], run[u])
                       /\ row[u].status # "absent" => row'[u].status # "absent"
  BY <1>6, TurnsHold
<1>12. QED
  BY <1>4, <1>6, <1>7, <1>8, <1>9, <1>10, <1>11, OneViewMoves

\* A subscription whose generator has returned.
LEMMA EndsItsView ==
    ASSUME IInv, NEW c \in Connection, NEW w \in View, w.at = "ended", Whole(w.seen),
           view' = [view EXCEPT ![c] = w], UNCHANGED <<conn, stored, answers, log, run, replies, faults>>,
           row' \in [Turn -> Row],
           \A u \in Turn : /\ TurnInv(row'[u], stored[u], answers[u], log[u], run[u])
                           /\ row[u].status # "absent" => row'[u].status # "absent",
           \A u \in Turn : c \notin run[u].subs
    PROVE  IInv'
<1>1. view'[c] = w /\ run' \in [Turn -> Run]
  BY DEF IInv, TypeOK
<1>2. ViewInv(c)'
  BY <1>1, IdleViewIsSafe
<1>3. QED
  BY <1>1, <1>2, OneViewMoves

LEMMA CatchUpKeeps ==
    ASSUME IInv, NEW c \in Connection, CatchUp(c)
    PROVE  IInv'
<1> DEFINE v == view[c]
           t == v.turn
           u1 == Yields(v, stored[t])
           w == [u1 EXCEPT !.at = "orphan"]
<1>1. v \in View /\ ViewInv(c) /\ v.at = "attaching" /\ ~Live(t)
  BY DEF CatchUp, IInv, TypeOK
<1>2. /\ t \in Turn /\ row[t].status # "absent" /\ t = conn[c].turn /\ Whole(v.seen)
      /\ \A u \in Turn : c \notin run[u].subs
  BY <1>1 DEF ViewInv
<1>3. stored[t] \in Seq(Event)
  BY <1>2, TurnsHold
<1>4. w \in View /\ w.at = "orphan" /\ w.turn = t /\ Whole(w.seen) /\ u1 \in View
  BY <1>1, <1>2, <1>3, YieldsFacts
<1>5. UNCHANGED <<row, stored, answers, log, run, replies, conn, faults>>
  BY DEF CatchUp
<1>6. row' \in [Turn -> Row] /\ run' \in [Turn -> Run]
  BY <1>5 DEF IInv, TypeOK
<1>7. \A u \in Turn : TurnInv(row[u], stored[u], answers[u], log[u], run[u])
  BY TurnsHold
<1>8. CASE view' = [view EXCEPT ![c] = w]
  <2> HIDE DEF w
  <2>1. view'[c] = w
    BY <1>8 DEF IInv, TypeOK
  <2>2. ViewInv(c)'
    BY <1>1, <1>2, <1>4, <1>5, <2>1 DEF ViewInv, Live
  <2>3. QED
    BY <1>4, <1>5, <1>6, <1>7, <1>8, <2>2, OneViewMoves
<1>9. CASE view' = [view EXCEPT ![c] = Ended(u1, TRUE)]
  <2> DEFINE e == Ended(u1, TRUE)
  <2> HIDE DEF u1
  <2>1. e \in View /\ e.at = "ended" /\ Whole(e.seen)
    BY <1>4, NoViewFacts
  <2> HIDE DEF e
  <2>2. QED
    BY <1>2, <1>5, <1>6, <1>7, <1>9, <2>1, EndsItsView DEF e
<1>10. QED
  BY <1>8, <1>9 DEF CatchUp

LEMMA FailOrphanKeeps ==
    ASSUME IInv, NEW c \in Connection, FailOrphan(c)
    PROVE  IInv'
<1> DEFINE v == view[c]
           t == v.turn
           e == Ended(v, TRUE)
<1>1. v \in View /\ ViewInv(c) /\ v.at = "orphan"
  BY DEF FailOrphan, IInv, TypeOK
<1>2. t \in Turn /\ Past(t) /\ \A u \in Turn : c \notin run[u].subs
  BY <1>1 DEF ViewInv, Past
<1>3. e \in View /\ e.at = "ended" /\ Whole(e.seen)
  <2> HIDE DEF v
  <2>1. QED
    BY <1>1, NoViewFacts
<1>4. /\ row' = [row EXCEPT ![t].status = "failed"] /\ view' = [view EXCEPT ![c] = e]
      /\ UNCHANGED <<stored, answers, log, run, replies, conn, faults>>
  BY DEF FailOrphan
<1> HIDE DEF t, e
<1>5. /\ row' \in [Turn -> Row]
      /\ \A u \in Turn : /\ TurnInv(row'[u], stored[u], answers[u], log[u], run[u])
                         /\ row[u].status # "absent" => row'[u].status # "absent"
  BY <1>2, <1>4, PastRowSettles
<1>6. QED
  BY <1>2, <1>3, <1>4, <1>5, EndsItsView

\* The first of a queue in order is sent.
LEMMA NextFacts ==
    ASSUME NEW v \in View, Whole(v.seen), InOrder(v), v.queue # <<>>, Head(v.queue) # End,
           NEW w, w = [v EXCEPT !.queue = Tail(@), !.seen = Append(@, Head(v.queue).seq),
                                !.done = @ \/ Head(v.queue).type \in Settled]
    PROVE  /\ w \in View /\ w.at = v.at /\ w.turn = v.turn
           /\ Whole(w.seen) /\ InOrder(w)
           /\ Len(w.seen) = Len(v.seen) + 1 /\ Len(w.queue) = Len(v.queue) - 1
           /\ (\A i \in 1..Len(v.queue) : v.queue[i] # End)
                 => \A i \in 1..Len(w.queue) : w.queue[i] # End
           /\ Len(v.queue) >= 1 /\ Head(v.queue).seq = Len(v.seen) + 1
<1> DEFINE q == v.queue
           sn == v.seen
           n == Len(sn)
           h == Head(q)
           q2 == Tail(q)
           s2 == Append(sn, h.seq)
           b == v.done \/ h.type \in Settled
<1>1. q \in Seq(Item) /\ sn \in Seq(Nat) /\ n \in Nat /\ Len(q) \in Nat /\ q # <<>> /\ v.done \in BOOLEAN
  BY ViewIsRead
<1>2. Len(q) >= 1 /\ h = q[1] /\ h \in Item /\ 1 \in 1..Len(q)
  <2> HIDE DEF q
  <2>1. QED
    BY <1>1
<1>3. h.seq = n + 1 /\ h.seq \in Nat
  BY <1>1, <1>2 DEF InOrder
<1>4. /\ q2 \in Seq(Item) /\ Len(q2) = Len(q) - 1
      /\ \A i \in 1..Len(q2) : q2[i] = q[i + 1] /\ i + 1 \in 1..Len(q)
  <2> HIDE DEF q
  <2>1. QED
    BY <1>1, <1>2
<1>5. s2 \in Seq(Nat) /\ Len(s2) = n + 1 /\ s2[n + 1] = n + 1 /\ \A i \in 1..n : s2[i] = sn[i]
  <2> HIDE DEF sn, h
  <2>1. QED
    BY <1>1, <1>3
<1>6. Whole(s2)
  <2>1. \A i \in 1..n : sn[i] = i
    BY DEF Whole
  <2> HIDE DEF n, s2, sn
  <2>2. \A i \in 1..(n + 1) : i \in 1..n \/ i = n + 1
    BY <1>1
  <2>3. QED
    BY <1>5, <2>1, <2>2 DEF Whole
<1>7. b \in BOOLEAN
  OBVIOUS
<1>8. w = [[v EXCEPT !.queue = q2] EXCEPT !.seen = s2, !.done = b]
  <2>1. v.done \/ h.type \in Settled <=> b
    OBVIOUS
  <2>2. QED
    BY DEF View
<1> DEFINE v2 == [v EXCEPT !.queue = q2]
<1> HIDE DEF q2, s2, b
<1>9. v2 \in View /\ v2.queue = q2 /\ v2.at = v.at /\ v2.turn = v.turn
  <2>1. v2 \in View
    BY <1>4, ViewGetsQueue
  <2>2. v2.queue = q2 /\ v2.at = v.at /\ v2.turn = v.turn
    BY DEF View
  <2>3. QED
    BY <2>1, <2>2
<1> HIDE DEF v2
<1>10. w \in View /\ w.queue = q2 /\ w.seen = s2 /\ w.at = v.at /\ w.turn = v.turn
  <2>1. w = [v2 EXCEPT !.seen = s2, !.done = b]
    BY <1>8 DEF v2
  <2>2. w \in View
    <3>1. s2 \in Seq(Nat) /\ b \in BOOLEAN /\ v2 \in View
      BY <1>5, <1>7, <1>9
    <3>2. [v2 EXCEPT !.seen = s2, !.done = b] \in View
      BY <3>1, ViewGetsSeen
    <3>3. QED
      BY <2>1, <3>2
  <2>3. w.queue = v2.queue /\ w.seen = s2 /\ w.at = v2.at /\ w.turn = v2.turn
    BY <1>9, <2>1 DEF View
  <2>4. QED
    BY <1>9, <2>2, <2>3
<1>11. InOrder(w)
  <2>1. ASSUME NEW i \in 1..Len(q2), q2[i] # End
        PROVE  q2[i].seq = n + 1 + i
    <3>1. q2[i] = q[i + 1] /\ i + 1 \in 1..Len(q) /\ i \in Nat
      BY <1>4
    <3>2. q[i + 1].seq = n + (i + 1)
      BY <2>1, <3>1 DEF InOrder
    <3>3. n \in Nat /\ i \in Nat
      BY <1>1, <3>1
    <3> HIDE DEF n, q
    <3>4. n + (i + 1) = n + 1 + i
      BY <3>3
    <3>5. QED
      BY <3>1, <3>2, <3>4
  <2>2. QED
    BY <1>5, <1>10, <2>1 DEF InOrder
<1>12. (\A i \in 1..Len(q) : q[i] # End) => \A i \in 1..Len(q2) : q2[i] # End
  BY <1>4
<1>13. QED
  BY <1>2, <1>3, <1>4, <1>5, <1>6, <1>10, <1>11, <1>12

LEMMA ReceiveKeeps ==
    ASSUME IInv, NEW c \in Connection, Receive(c)
    PROVE  IInv'
<1> DEFINE v == view[c]
           t == v.turn
           item == Head(v.queue)
           b == v.done \/ row[v.turn].status # "running"
           e == Ended(v, b)
<1>1. v \in View /\ ViewInv(c) /\ v.at = "live" /\ v.queue # <<>>
  BY DEF Receive, IInv, TypeOK
<1>2. /\ t \in Turn /\ row[t].status # "absent" /\ t = conn[c].turn /\ Whole(v.seen) /\ InOrder(v)
      /\ \A u \in Turn : c \in run[u].subs => u = t
      /\ Live(t) => /\ c \in run[t].subs /\ Len(v.seen) <= Len(log[t])
                    /\ Len(v.seen) + Len(v.queue) = Len(log[t])
                    /\ \A i \in 1..Len(v.queue) : v.queue[i] # End
  BY <1>1 DEF ViewInv
<1>3. UNCHANGED <<row, stored, answers, log, run, replies, conn, faults>>
  BY DEF Receive
<1>4. row' \in [Turn -> Row] /\ run' \in [Turn -> Run]
  BY <1>3 DEF IInv, TypeOK
<1>5. \A u \in Turn : TurnInv(row[u], stored[u], answers[u], log[u], run[u])
  BY TurnsHold
<1>6. Len(v.seen) \in Nat /\ Len(v.queue) \in Nat /\ v.queue \in Seq(Item) /\ v.done \in BOOLEAN
      /\ Last(v) = Len(v.seen)
  BY <1>1, <1>2, ViewIsRead, LastIsLength
<1>7. CASE item = End
  <2>1. view' = [view EXCEPT ![c] = e]
    BY <1>7 DEF Receive
  <2>2. item = v.queue[1] /\ 1 \in 1..Len(v.queue)
    <3> HIDE DEF v
    <3>1. QED
      BY <1>1, <1>6
  <2>3. ~Live(t)
    BY <1>2, <1>7, <2>2
  <2>4. run[t].subs = {}
    BY <1>2, <1>5, <2>3 DEF Live, TurnInv, NoRun
  <2>5. \A u \in Turn : c \notin run[u].subs
    BY <1>2, <2>4
  <2>6. b \in BOOLEAN
    OBVIOUS
  <2> HIDE DEF v, b
  <2>7. e \in View /\ e.at = "ended" /\ Whole(e.seen)
    BY <1>1, <2>6, NoViewFacts
  <2> HIDE DEF e
  <2>8. QED
    BY <1>3, <1>4, <1>5, <2>1, <2>5, <2>7, EndsItsView
<1>8. CASE item # End
  <2> DEFINE w == [v EXCEPT !.queue = Tail(@), !.seen = Append(@, item.seq),
                            !.done = @ \/ item.type \in Settled]
  <2>1. /\ w \in View /\ w.at = v.at /\ w.turn = v.turn
        /\ Whole(w.seen) /\ InOrder(w)
        /\ Len(w.seen) = Len(v.seen) + 1 /\ Len(w.queue) = Len(v.queue) - 1
        /\ (\A i \in 1..Len(v.queue) : v.queue[i] # End)
              => \A i \in 1..Len(w.queue) : w.queue[i] # End
        /\ Len(v.queue) >= 1 /\ item.seq = Len(v.seen) + 1
    <3> HIDE DEF v
    <3>1. QED
      BY <1>1, <1>2, <1>8, NextFacts
  <2>2. ~(item.seq <= Last(v))
    BY <1>6, <2>1
  <2>3. view' = [view EXCEPT ![c] =
           [[v EXCEPT !.queue = Tail(@)] EXCEPT !.seen = Append(@, item.seq), !.done = @ \/ item.type \in Settled]]
    BY <1>8, <2>2 DEF Receive
  <2>4. [[v EXCEPT !.queue = Tail(@)] EXCEPT !.seen = Append(@, item.seq), !.done = @ \/ item.type \in Settled] = w
    BY <1>1 DEF View
  <2>5. view' = [view EXCEPT ![c] = w]
    BY <2>3, <2>4
  <2> HIDE DEF w
  <2>6. view'[c] = w
    BY <2>5 DEF IInv, TypeOK
  <2>7. Live(t) => /\ Len(w.seen) + Len(w.queue) = Len(log[t]) /\ Len(w.seen) <= Len(log[t])
                   /\ \A i \in 1..Len(w.queue) : w.queue[i] # End
    <3> DEFINE a == Len(v.seen)
               m == Len(v.queue)
               a2 == Len(w.seen)
               m2 == Len(w.queue)
    <3>1. a \in Nat /\ m \in Nat /\ m >= 1 /\ a2 = a + 1 /\ m2 = m - 1
      BY <1>6, <2>1
    <3>2. Live(t) => a + m = Len(log[t])
      BY <1>2
    <3> HIDE DEF a, m, a2, m2
    <3>3. Live(t) => a2 + m2 = Len(log[t]) /\ a2 <= Len(log[t])
      BY <3>1, <3>2
    <3>4. QED
      BY <1>2, <2>1, <3>3 DEF a2, m2
  <2>8. ViewInv(c)'
    BY <1>1, <1>2, <1>3, <2>1, <2>6, <2>7 DEF ViewInv, Live
  <2>9. QED
    BY <1>3, <1>4, <1>5, <2>1, <2>5, <2>8, OneViewMoves
<1>9. QED
  BY <1>7, <1>8

-----------------------------------------------------------------------------
(* A connection closes. *)

\* The store call that is under way when the task is cancelled.
LEMMA CallLandsFacts ==
    ASSUME IInv, NEW t \in Turn, Live(t), CallLands(t)
    PROVE  /\ row' \in [Turn -> Row] /\ stored' \in [Turn -> Seq(Event)] /\ answers' \in [Turn -> Nat]
           /\ \A u \in Turn \ {t} : row'[u] = row[u] /\ stored'[u] = stored[u] /\ answers'[u] = answers[u]
           /\ row'[t].status # "absent"
           /\ Recorded(stored'[t], log[t])
           /\ Kept(row'[t], stored'[t], answers'[t], log[t])
           /\ run[t].at = "titling" => row'[t] = row[t] /\ stored'[t] = stored[t] /\ answers'[t] = answers[t]
<1>1. /\ row \in [Turn -> Row] /\ stored \in [Turn -> Seq(Event)] /\ answers \in [Turn -> Nat]
      /\ row[t] \in Row /\ stored[t] \in Seq(Event) /\ answers[t] \in Nat /\ log[t] \in Seq(Event)
      /\ Len(stored[t]) \in Nat /\ Len(log[t]) \in Nat
  BY TurnsHold DEF IInv, TypeOK
<1>2. /\ row[t].status # "absent" /\ Recorded(stored[t], log[t])
      /\ Kept(row[t], stored[t], answers[t], log[t])
  BY LiveRows, TurnsHold DEF TurnInv, Live
<1>3. CASE UNCHANGED <<row, stored, answers>>
  BY <1>1, <1>2, <1>3
<1>4. CASE /\ run[t].at = "answering" /\ answers' = [answers EXCEPT ![t] = @ + 1]
           /\ UNCHANGED <<row, stored>>
  <2>1. answers'[t] = answers[t] + 1 /\ answers' \in [Turn -> Nat]
    BY <1>1, <1>4
  <2>2. Kept(row[t], stored[t], answers[t] + 1, log[t])
    BY <1>1, <1>2 DEF Kept
  <2>3. QED
    BY <1>1, <1>2, <1>4, <2>1, <2>2
<1>5. CASE run[t].at \in {"flushing", "failing"} /\ Stores(t) /\ UNCHANGED <<row, answers>>
  <2> DEFINE stor == stored[t]
             lg == log[t]
             s2 == Append(stor, lg[Len(stor) + 1])
  <2>1. stor \in Seq(Event) /\ lg \in Seq(Event) /\ Len(stor) < Len(lg)
        /\ \A n \in 1..Len(stor) : stor[n] = lg[n]
    BY <1>1, <1>2, <1>5, TurnsHold DEF TurnInv, Recorded
  <2>2. stored' = [stored EXCEPT ![t] = s2]
    BY <1>5 DEF Stores
  <2> HIDE DEF s2
  <2>3. /\ s2 \in Seq(Event) /\ Len(s2) = Len(stor) + 1 /\ Len(s2) <= Len(lg)
        /\ \A n \in 1..Len(s2) : s2[n] = lg[n]
        /\ s2 # <<>>
    <3> HIDE DEF stor, lg
    <3>1. QED
      BY <2>1, StoresFacts DEF s2
  <2>4. stored'[t] = s2 /\ stored' \in [Turn -> Seq(Event)]
    BY <1>1, <2>2, <2>3
  <2>5. Recorded(s2, lg)
    BY <1>2, <2>3 DEF Recorded
  <2>6. Kept(row[t], s2, answers[t], lg)
    <3>1. \A n \in 1..Len(stor) : n \in 1..Len(s2)
      <4> DEFINE a == Len(stor)
                 d == Len(s2)
      <4>1. a \in Nat /\ d = a + 1
        BY <1>1, <2>3
      <4> HIDE DEF a, d
      <4>2. \A n \in 1..a : n \in 1..d
        BY <4>1
      <4>3. QED
        BY <4>2 DEF a, d
    <3>2. QED
      BY <1>2, <2>3, <3>1 DEF Kept
  <2>7. QED
    BY <1>1, <1>2, <1>5, <2>2, <2>4, <2>5, <2>6
<1>6. CASE /\ run[t].at \in {"completing", "failed"}
           /\ row' = [row EXCEPT ![t].status = IF run[t].at = "failed" THEN "failed" ELSE "completed"]
           /\ UNCHANGED <<stored, answers>>
  <2> DEFINE st == IF run[t].at = "failed" THEN "failed" ELSE "completed"
             r == [row[t] EXCEPT !.status = st]
  <2>1. st \in Settled /\ st # "absent"
    BY DEF Settled
  <2>2. row' = [row EXCEPT ![t] = r]
    BY <1>6
  <2>3. st = "completed" => run[t].at = "completing"
    BY <1>6
  <2> HIDE DEF st
  <2>4. r \in Row /\ r.status = st
    BY <1>1, <2>1, RowIsSettled
  <2> HIDE DEF r
  <2>5. row'[t] = r /\ row' \in [Turn -> Row] /\ \A u \in Turn \ {t} : row'[u] = row[u]
    BY <1>1, <2>2, <2>4
  <2>6. Kept(r, stored[t], answers[t], log[t])
    <3>1. ASSUME st = "completed"
          PROVE  answers[t] >= 1 /\ Len(stored[t]) = Len(log[t]) /\ Len(log[t]) >= 1
      BY <1>2, <2>3, <3>1, TurnsHold DEF TurnInv, Recorded
    <3>2. st = "completed" => stored[t] # <<>>
      BY <1>1, <3>1
    <3>3. QED
      BY <2>4, <3>1, <3>2 DEF Kept
  <2>7. QED
    BY <1>1, <1>2, <1>6, <2>1, <2>4, <2>5, <2>6
<1>7. QED
  BY <1>3, <1>4, <1>5, <1>6 DEF CallLands

LEMMA CancelsTaskKeeps ==
    ASSUME IInv, NEW c \in Connection, CancelsTask(c), conn[c].at = "open", faults' = faults
    PROVE  IInv'
<1> DEFINE t == conn[c].turn
           k == [conn[c] EXCEPT !.at = "awaiting"]
<1>1. conn[c] \in Conn /\ t \in Turn /\ Live(t) /\ CallLands(t)
  BY ConnIsRead DEF CancelsTask, IInv, TypeOK
<1>2. run[t] \in Run /\ run \in [Turn -> Run] /\ log \in [Turn -> Seq(Event)] /\ log[t] \in Seq(Event)
      /\ replies \in [Turn -> 0..MaxReplies] /\ 0 \in 0..MaxReplies
      /\ TurnInv(row[t], stored[t], answers[t], log[t], run[t])
  <2>1. run \in [Turn -> Run] /\ log \in [Turn -> Seq(Event)] /\ replies \in [Turn -> 0..MaxReplies]
    BY DEF IInv, TypeOK
  <2>2. 0 \in 0..MaxReplies
    BY ConstantsAssumption
  <2> HIDE DEF t
  <2>3. TurnInv(row[t], stored[t], answers[t], log[t], run[t])
    BY <1>1, TurnsHold
  <2>4. QED
    BY <1>1, <2>1, <2>2, <2>3
<1>3. /\ row' \in [Turn -> Row] /\ stored' \in [Turn -> Seq(Event)] /\ answers' \in [Turn -> Nat]
      /\ \A u \in Turn \ {t} : row'[u] = row[u] /\ stored'[u] = stored[u] /\ answers'[u] = answers[u]
      /\ row'[t].status # "absent"
      /\ Recorded(stored'[t], log[t])
      /\ Kept(row'[t], stored'[t], answers'[t], log[t])
      /\ run[t].at = "titling" => row'[t] = row[t] /\ stored'[t] = stored[t] /\ answers'[t] = answers[t]
  BY <1>1, CallLandsFacts
<1>4. faults' \in 0..MaxFaults
  BY DEF IInv, TypeOK
<1> HIDE DEF t
<1>5. CASE run[t].at \in {"failing", "failed"}
  <2>1. /\ run' = [run EXCEPT ![t] = NoRun] /\ log' = [log EXCEPT ![t] = <<>>]
        /\ replies' = [replies EXCEPT ![t] = 0]
        /\ view' = [view EXCEPT ![c] = NoView] /\ conn' = [conn EXCEPT ![c] = Closed]
    BY <1>5 DEF CancelsTask, ForgetsReplies, t
  <2>2. NoRun \in Run /\ NoRun.at = "none" /\ NoRun.subs = {}
    BY DEF NoRun, Run
  <2>3. Shapes'
    <3>1. run' \in [Turn -> Run]
      BY <1>2, <2>1, <2>2
    <3>2. log' \in [Turn -> Seq(Event)]
      <4>1. <<>> \in Seq(Event)
        OBVIOUS
      <4>2. QED
        BY <1>2, <2>1, <4>1
    <3>3. replies' \in [Turn -> 0..MaxReplies]
      BY <1>2, <2>1
    <3>4. QED
      BY <1>3, <1>4, <3>1, <3>2, <3>3 DEF Shapes
  <2>4. run'[t] = NoRun /\ log'[t] = <<>> /\ \A u \in Turn \ {t} : run'[u] = run[u] /\ log'[u] = log[u]
    BY <1>1, <1>2, <2>1
  <2>5. OnlyTurn(t)
    BY <1>3, <2>4 DEF OnlyTurn
  <2>6. /\ view' \in [Connection -> View] /\ view'[c] = NoView
        /\ conn' \in [Connection -> Conn] /\ conn'[c] = Closed
        /\ \A d \in Connection \ {c} : view'[d] = view[d] /\ conn'[d] = conn[d]
    BY <2>1, NoViewFacts, ClosedFacts DEF IInv, TypeOK
  <2>7. TurnInv(row'[t], stored'[t], answers'[t], <<>>, NoRun)
    <3>1. Kept(row'[t], stored'[t], answers'[t], <<>>)
      BY <1>3 DEF Kept
    <3>2. QED
      BY <1>3, <3>1, TurnInvOver
  <2>8. TurnsInv' /\ Onward
    BY <1>1, <1>3, <2>4, <2>5, <2>7, TurnChanges, LiveTurnOnward
  <2>9. /\ \A u \in Turn : Live(u)' => u # t /\ Live(u)
        /\ \A u \in Turn, d \in Connection : d \in run'[u].subs => u # t /\ d \in run[u].subs
    BY <2>2, <2>4 DEF Live
  <2>10. ASSUME NEW d \in Connection, d # c
         PROVE  ConnInv(d)' /\ ViewInv(d)'
    <3>1. ConnInv(d)'
      BY <2>6, <2>8, <2>10, ConnStays
    <3>2. view'[d] = view[d] /\ conn'[d].turn = conn[d].turn
      BY <2>6, <2>10
    <3>3. \A u \in Turn : row[u].status # "absent" => row'[u].status # "absent"
      BY <2>8 DEF Onward
    <3>4. \A u \in Turn : Live(u)' =>
              /\ Live(u) /\ Len(log'[u]) >= Len(log[u])
              /\ d \in run[u].subs => d \in run'[u].subs /\ log'[u] = log[u]
      BY <2>4, <2>9, TurnsHold
    <3>5. ViewInv(d)'
      BY <2>9, <3>2, <3>3, <3>4, ViewStays
    <3>6. QED
      BY <3>1, <3>5
  <2>11. ConnInv(c)' /\ ViewInv(c)'
    <3>1. ViewInv(c)
      BY DEF IInv
    <3>2. \A u \in Turn : c \in run[u].subs => u = t
      BY <3>1 DEF ViewInv, t
    <3>3. \A u \in Turn : c \notin run'[u].subs
      BY <2>9, <3>2
    <3>4. QED
      BY <2>6, <3>3, NoViewFacts, ClosedIsSafe, IdleViewIsSafe
  <2>12. QED
    BY <2>3, <2>6, <2>8, <2>10, <2>11 DEF IInv, TypeOK, Shapes
<1>6. CASE run[t].at \notin {"failing", "failed"}
  <2>1. Interrupted(t) /\ conn' = [conn EXCEPT ![c] = k]
    BY <1>6 DEF CancelsTask, t
  <2>2. k \in Conn /\ k.at = "awaiting" /\ k.turn = conn[c].turn
    <3>1. k \in Conn
      BY <1>1 DEF Conn
    <3>2. k.at = "awaiting" /\ k.turn = conn[c].turn
      BY <1>1 DEF Conn
    <3>3. QED
      BY <3>1, <3>2
  <2> HIDE DEF k
  <2>3. HandlersWait
    <3>1. conn' \in [Connection -> Conn] /\ conn'[c] = k /\ \A d \in Connection \ {c} : conn'[d] = conn[d]
      BY <2>1, <2>2 DEF IInv, TypeOK
    <3>2. QED
      BY <2>2, <3>1 DEF HandlersWait
  <2>4. CASE /\ run[t].at \in Working /\ Publish(t, <<"cancelled">>) /\ ForgetsReplies(t)
             /\ run' = [run EXCEPT ![t].at = IF run[t].flushed THEN Keeping(t) ELSE "cancelling",
                                   ![t].flushed = TRUE]
    <3> DEFINE at == IF run[t].flushed THEN Keeping(t) ELSE "cancelling"
               y == [run[t] EXCEPT !.at = at, !.flushed = TRUE]
               l2 == log[t] \o <<"cancelled">>
    <3>1. at \in {"cancelling", "keeping", "cancelled"} /\ at \in Stages
      BY KeepingFacts DEF Stages
    <3>2. run' = [run EXCEPT ![t] = y]
      BY <2>4
    <3> HIDE DEF at
    <3>3. y \in Run /\ y.at = at /\ y.subs = run[t].subs /\ y.flushed
      BY <1>2, <3>1, RunGoesFlushed
    <3> HIDE DEF y
    <3>4. "cancelled" \in Event /\ <<"cancelled">> \in Seq(Event) /\ l2 \in Seq(Event)
      BY <1>2, NamesOfEvents, LogGrows
    <3>5. log' = [log EXCEPT ![t] = l2] /\ replies' \in [Turn -> 0..MaxReplies]
      BY <1>2, <2>4 DEF Publish, ForgetsReplies
    <3>6. TurnInv(row'[t], stored'[t], answers'[t], l2, y)
      <4>1. stored'[t] \in Seq(Event) /\ answers'[t] \in Nat
        BY <1>1, <1>3
      <4>2. QED
        BY <1>2, <1>3, <3>1, <3>3, <3>4, <4>1, TurnInvSpeaks
    <3> HIDE DEF l2
    <3>7. /\ run'[t] = y /\ run' \in [Turn -> Run] /\ log'[t] = l2 /\ log' \in [Turn -> Seq(Event)]
          /\ \A u \in Turn \ {t} : run'[u] = run[u] /\ log'[u] = log[u]
      BY <1>1, <1>2, <3>2, <3>3, <3>4, <3>5
    <3>8. Shapes' /\ OnlyTurn(t)
      BY <1>3, <1>4, <3>5, <3>7 DEF Shapes, OnlyTurn
    <3>9. QED
      BY <1>1, <1>3, <2>3, <2>4, <3>3, <3>4, <3>6, <3>7, <3>8, Speaks
  <2>5. CASE run[t].at = "titling" /\ GoesTo(t, Keeping(t)) /\ UNCHANGED <<log, replies, view>>
    <3> DEFINE at == Keeping(t)
               y == [run[t] EXCEPT !.at = at]
    <3>1. at \in {"keeping", "cancelled"} /\ at \in Stages
      BY KeepingFacts DEF Stages
    <3>2. run' = [run EXCEPT ![t] = y]
      BY <2>5 DEF GoesTo
    <3> HIDE DEF at
    <3>3. y \in Run /\ y.at = at /\ y.subs = run[t].subs /\ y.flushed = run[t].flushed
      BY <1>2, <3>1, RunGoes
    <3> HIDE DEF y
    <3>4. TurnInv(row'[t], stored'[t], answers'[t], log[t], y)
      BY <1>2, <1>3, <2>5, <3>1, <3>3 DEF TurnInv, Working
    <3>5. /\ run'[t] = y /\ run' \in [Turn -> Run] /\ \A u \in Turn \ {t} : run'[u] = run[u]
      BY <1>1, <1>2, <3>2, <3>3
    <3>6. Shapes' /\ OnlyTurn(t)
      BY <1>2, <1>3, <1>4, <2>5, <3>5 DEF Shapes, OnlyTurn
    <3>7. QED
      BY <1>1, <1>3, <2>3, <2>5, <3>3, <3>4, <3>5, <3>6, Advances
  <2>6. QED
    BY <2>1, <2>4, <2>5 DEF Interrupted
<1>7. QED
  BY <1>5, <1>6

LEMMA DisconnectKeeps ==
    ASSUME IInv, NEW c \in Connection, Disconnect(c)
    PROVE  IInv'
<1>1. conn[c].at = "open" /\ faults' = faults /\ conn[c] \in Conn
  BY DEF Disconnect, IInv, TypeOK
<1>2. \A u \in Turn : TurnInv(row[u], stored[u], answers[u], log[u], run[u])
  BY TurnsHold
<1>3. CASE CancelsTask(c)
  BY <1>1, <1>3, CancelsTaskKeeps
<1>4. CASE StopsForwarding(c) /\ UNCHANGED <<row, stored, answers, log, replies>>
  <2>1. row' \in [Turn -> Row]
    BY <1>4 DEF IInv, TypeOK
  <2>2. QED
    BY <1>1, <1>2, <1>4, <2>1, StopsKeeps
<1>5. CASE /\ ~Live(conn[c].turn) /\ conn[c].turn # NoTurn /\ row[conn[c].turn].status = "running"
           /\ conn' = [conn EXCEPT ![c].at = "settling"]
           /\ UNCHANGED <<row, stored, answers, log, run, replies, view>>
  <2> DEFINE k == [conn[c] EXCEPT !.at = "settling"]
  <2>1. k \in Conn
    BY <1>1 DEF Conn
  <2>2. k.at = "settling" /\ k.turn = conn[c].turn
    BY <1>1 DEF Conn
  <2>3. conn' = [conn EXCEPT ![c] = k]
    BY <1>5
  <2> HIDE DEF k
  <2>4. conn'[c] = k
    BY <2>3 DEF IInv, TypeOK
  <2>5. conn[c].turn \in Turn
    BY <1>1, <1>5, ConnIsRead
  <2>6. ConnInv(c)'
    BY <1>5, <2>2, <2>4, <2>5 DEF ConnInv, Past, Live
  <2>7. QED
    BY <1>1, <1>5, <2>1, <2>2, <2>3, <2>6, HandlerGoes
<1>6. QED
  BY <1>3, <1>4, <1>5 DEF Disconnect, FindsNoTask

-----------------------------------------------------------------------------
(* The theorems. *)

LEMMA CrashKeeps ==
    ASSUME IInv, Crash
    PROVE  IInv'
<1>1. /\ run' = [t \in Turn |-> NoRun] /\ log' = [t \in Turn |-> <<>>]
      /\ replies' = [t \in Turn |-> 0] /\ view' = [c \in Connection |-> NoView]
      /\ \A c \in Connection : conn'[c] \in {Off, Closed}
      /\ conn' \in [Connection -> Conn] /\ faults' \in 0..MaxFaults
      /\ UNCHANGED <<row, stored, answers>>
  BY ClosedFacts, ConstantsAssumption DEF Crash, IInv, TypeOK
<1>2. NoRun \in Run /\ NoRun.subs = {} /\ 0 \in 0..MaxReplies
  BY ConstantsAssumption DEF NoRun, Run
<1>3. TypeOK'
  BY <1>1, <1>2, NoViewFacts DEF IInv, TypeOK
<1>4. TurnsInv'
  <2>1. ASSUME NEW t \in Turn
        PROVE  TurnInv(row[t], stored[t], answers[t], <<>>, NoRun)
    <3>1. row[t].status = "absent" => stored[t] = <<>>
      BY TurnsHold DEF TurnInv
    <3>2. Kept(row[t], stored[t], answers[t], <<>>)
      BY TurnsHold DEF TurnInv, Kept
    <3>3. QED
      BY <3>1, <3>2 DEF TurnInv, NoRun, Working
  <2>2. QED
    BY <1>1, <2>1 DEF TurnsInv
<1>5. \A c \in Connection : ConnInv(c)' /\ ViewInv(c)'
  BY <1>1, <1>2, NoViewFacts, ClosedIsSafe, IdleViewIsSafe
<1>6. QED
  BY <1>3, <1>4, <1>5 DEF IInv

LEMMA InitialInvariant == Init => IInv
<1> SUFFICES ASSUME Init PROVE IInv
  OBVIOUS
<1>1. Absent \in Row /\ Absent.status = "absent" /\ NoRun \in Run /\ NoRun.subs = {}
  BY DEF Absent, Row, NoRun, Run
<1>2. 0 \in 0..MaxReplies /\ 0 \in 0..MaxFaults
  BY ConstantsAssumption
<1>3. TypeOK
  BY <1>1, <1>2, NoViewFacts, ClosedFacts DEF Init, TypeOK
<1>4. TurnsInv
  BY <1>1 DEF Init, TurnsInv, TurnInv, Kept, NoRun, Working
<1>5. \A c \in Connection : ConnInv(c)
  BY ClosedFacts DEF Init, ConnInv
<1>6. \A c \in Connection : ViewInv(c)
  BY <1>1, NoViewFacts DEF Init, ViewInv
<1>7. QED
  BY <1>3, <1>4, <1>5, <1>6 DEF IInv

LEMMA RunStepKeeps ==
    ASSUME IInv, NEW t \in Turn, RunStep(t)
    PROVE  IInv'
BY QuietKeeps, StreamsKeeps, AddsAnswerKeeps, RecordsEventKeeps, CompletesKeeps, TitlesKeeps,
   RunFailsKeeps, RecordsOutcomeKeeps, KeepsPartialKeeps DEF RunStep

LEMMA StepKeepsInvariant == IInv /\ [Next]_vars => IInv'
<1> SUFFICES ASSUME IInv, [Next]_vars PROVE IInv'
  OBVIOUS
<1>1. CASE UNCHANGED vars
  <2>1. UNCHANGED <<row, stored, answers, log, run, replies, conn, view, faults>>
    BY <1>1 DEF vars
  <2>2. replies' \in [Turn -> 0..MaxReplies]
    BY <2>1 DEF IInv, TypeOK
  <2>3. QED
    BY <2>1, <2>2, RepliesKeep
<1>2. CASE LearnerStep
  BY <1>2, DisconnectKeeps, StartListsKeeps, ReplyKeeps DEF LearnerStep
<1>3. ASSUME NEW c \in Connection, ConnStep(c)
      PROVE  IInv'
  BY <1>3, StartRecoversKeeps, StartCreatesKeeps, CancelSettlesKeeps DEF ConnStep
<1>4. ASSUME NEW c \in Connection, ViewStep(c)
      PROVE  IInv'
  BY <1>4, ReadBacklogKeeps, AttachKeeps, CatchUpKeeps, FailOrphanKeeps, ReceiveKeeps DEF ViewStep
<1>5. CASE \E t \in Turn : RunStep(t) \/ StoreFails(t)
  BY <1>5, RunStepKeeps, StoreFailsKeeps
<1>6. CASE Crash
  BY <1>6, CrashKeeps
<1>7. QED
  BY <1>1, <1>2, <1>3, <1>4, <1>5, <1>6 DEF Next

\* IInv is an invariant of the runtime.
THEOREM Invariance == Spec => []IInv
<1>1. Init => IInv
  BY InitialInvariant
<1>2. IInv /\ [Next]_vars => IInv'
  BY StepKeepsInvariant
<1>3. QED
  BY <1>1, <1>2, PTL DEF Spec

\* The variables keep their types.
THEOREM TypeCorrect == Spec => []TypeOK
<1>1. IInv => TypeOK
  BY DEF IInv
<1>2. QED
  BY <1>1, Invariance, PTL

\* A client that follows a live turn is sent every event of it once and in order,
\* wherever the turn was when it joined (the three sources of subscribe_turn).
THEOREM StreamsHold == Spec => []StreamsAreWhole
<1>1. IInv => StreamsAreWhole
  BY InvariantImplies
<1>2. QED
  BY <1>1, Invariance, PTL

\* A turn recorded as completed has its answer and all of its output events: the
\* order of the writes in _run_turn, whatever is cancelled or fails between them.
THEOREM CompletionsArePersisted == Spec => []CompletedIsPersisted
<1>1. IInv => CompletedIsPersisted
  BY InvariantImplies
<1>2. QED
  BY <1>1, Invariance, PTL

\* Nobody settles the row of a turn that works: start_turn and subscribe_turn take
\* no live turn for an orphan.
THEOREM WorkIsLeftAlone == Spec => []WorkingTurnsRun
<1>1. IInv => WorkingTurnsRun
  BY InvariantImplies
<1>2. QED
  BY <1>1, Invariance, PTL

-----------------------------------------------------------------------------
(* How runs end. *)

\* A run that goes on with a step of its own ends only with its row settled.
LEMMA RunStepEnds ==
    ASSUME IInv, NEW u \in Turn, RunStep(u), NEW t \in Turn, Live(t), ~Live(t)'
    PROVE  row'[t].status # "running"
<1>1. run \in [Turn -> Run] /\ row \in [Turn -> Row] /\ run[t] \in Run /\ row[t] \in Row /\ run[u] \in Run
  BY TurnsHold DEF IInv, TypeOK
<1>2. ASSUME NEW at \in Stages \ {"none"}, run' = [run EXCEPT ![u].at = at]
      PROVE  FALSE
  <2> DEFINE y == [run[u] EXCEPT !.at = at]
  <2>1. y.at = at
    BY <1>1, <1>2, RunGoes
  <2>2. run' = [run EXCEPT ![u] = y]
    BY <1>2
  <2> HIDE DEF y
  <2>3. run'[t] = IF u = t THEN y ELSE run[t]
    BY <1>1, <2>2
  <2>4. QED
    BY <1>2, <2>1, <2>3 DEF Live
<1>3. ASSUME NEW at \in Stages \ {"none"}, run' = [run EXCEPT ![u].at = at, ![u].flushed = TRUE]
      PROVE  FALSE
  <2> DEFINE y == [run[u] EXCEPT !.at = at, !.flushed = TRUE]
  <2>1. y.at = at
    BY <1>1, <1>3, RunGoesFlushed
  <2>2. run' = [run EXCEPT ![u] = y]
    BY <1>3
  <2> HIDE DEF y
  <2>3. run'[t] = IF u = t THEN y ELSE run[t]
    BY <1>1, <2>2
  <2>4. QED
    BY <1>3, <2>1, <2>3 DEF Live
<1>4. run' # run
  BY DEF Live
<1>5. \A at \in {"asking", "streaming", "answering", "recording", "completing", "failed",
                 "titling", "cancelled", "keeping", "flushing", "failing"} : at \in Stages \ {"none"}
  BY DEF Stages
<1>6. CASE Asks(u) \/ TakesReply(u) \/ StreamEnds(u) \/ AddsAnswer(u) \/ Completes(u) \/ KeepsPartial(u)
  BY <1>2, <1>5, <1>6 DEF Asks, TakesReply, StreamEnds, AddsAnswer, Completes, KeepsPartial, GoesTo
<1>7. CASE Streams(u)
  BY <1>4, <1>7 DEF Streams
<1>8. CASE RecordsConversation(u) \/ RunFails(u)
  <2>1. RunFails(u) => \E at \in {"failed", "failing"} :
                           run' = [run EXCEPT ![u].at = at, ![u].flushed = TRUE]
    BY DEF RunFails, Fails
  <2>2. QED
    BY <1>3, <1>5, <1>8, <2>1 DEF RecordsConversation
<1>9. CASE RecordsEvent(u)
  <2>1. \E at \in {"completing", "failed", "keeping", "cancelled"} :
            run' = run \/ run' = [run EXCEPT ![u].at = at]
    BY <1>9, KeepingFacts DEF RecordsEvent, GoesTo
  <2>2. QED
    BY <1>2, <1>4, <1>5, <2>1
<1>10. CASE Titles(u) \/ RecordsFailure(u) \/ RecordsCancellation(u)
  <2>1. run' = [run EXCEPT ![u] = NoRun]
    BY <1>10 DEF Titles, RecordsFailure, RecordsCancellation, Finish
  <2>2. u = t
    BY <1>1, <2>1 DEF Live
  <2>3. CASE Titles(u)
    BY <2>2, <2>3, TurnsHold DEF Titles, TurnInv, Settled
  <2>4. CASE RecordsFailure(u)
    <3>1. row' = [row EXCEPT ![t] = [row[t] EXCEPT !.status = "failed"]]
      BY <2>2, <2>4 DEF RecordsFailure
    <3>2. [row[t] EXCEPT !.status = "failed"].status = "failed"
      BY <1>1, RowIsSettled DEF Settled
    <3>3. QED
      BY <1>1, <3>1, <3>2
  <2>5. CASE RecordsCancellation(u)
    <3>1. row' = [row EXCEPT ![t] = [row[t] EXCEPT !.status = "cancelled"]]
      BY <2>2, <2>5 DEF RecordsCancellation
    <3>2. [row[t] EXCEPT !.status = "cancelled"].status = "cancelled"
      BY <1>1, RowIsSettled DEF Settled
    <3>3. QED
      BY <1>1, <3>1, <3>2
  <2>6. QED
    BY <1>10, <2>3, <2>4, <2>5
<1>11. QED
  BY <1>6, <1>7, <1>8, <1>9, <1>10 DEF RunStep

LEMMA UnsubscribingEndsNothing ==
    ASSUME IInv, NEW c \in Connection, run' = Unsubscribed(c), NEW t \in Turn, Live(t)
    PROVE  Live(t)'
BY UnsubscribedFacts DEF Live

\* A closing connection ends a run at once only when that is recording a failure.
LEMMA DisconnectEnds ==
    ASSUME IInv, NEW c \in Connection, Disconnect(c), NEW t \in Turn, Live(t), ~Live(t)'
    PROVE  run[t].at \in {"failing", "failed"}
<1> DEFINE u == conn[c].turn
<1>1. run \in [Turn -> Run]
  BY DEF IInv, TypeOK
<1>2. run' # run /\ run' # Unsubscribed(c)
  BY UnsubscribingEndsNothing DEF Live
<1>3. CancelsTask(c)
  BY <1>2 DEF Disconnect, FindsNoTask, StopsForwarding
<1>4. CASE run[u].at \in {"failing", "failed"}
  <2>1. run' = [run EXCEPT ![u] = NoRun]
    BY <1>3, <1>4 DEF CancelsTask
  <2>2. u = t
    BY <1>1, <2>1 DEF Live
  <2>3. QED
    BY <1>4, <2>2
<1>5. CASE run[u].at \notin {"failing", "failed"}
  <2>1. Interrupted(u) /\ u \in Turn
    <3>1. conn[c] \in Conn
      BY DEF IInv, TypeOK
    <3>2. QED
      BY <1>3, <1>5, <3>1, ConnIsRead DEF CancelsTask
  <2> HIDE DEF u
  <2>2. run[u] \in Run /\ "cancelling" \in Stages /\ Keeping(u) \in Stages /\ Keeping(u) # "none"
    BY <2>1, TurnsHold, KeepingFacts DEF Stages
  <2>3. \E y \in Run : y.at # "none" /\ run' = [run EXCEPT ![u] = y]
    <3>1. CASE run' = [run EXCEPT ![u].at = Keeping(u)]
      <4>1. [run[u] EXCEPT !.at = Keeping(u)] \in Run /\ [run[u] EXCEPT !.at = Keeping(u)].at # "none"
        BY <2>2, RunGoes
      <4>2. QED
        BY <3>1, <4>1
    <3>2. ASSUME NEW at \in {Keeping(u), "cancelling"},
                 run' = [run EXCEPT ![u].at = at, ![u].flushed = TRUE]
          PROVE  \E y \in Run : y.at # "none" /\ run' = [run EXCEPT ![u] = y]
      <4> DEFINE y == [run[u] EXCEPT !.at = at, !.flushed = TRUE]
      <4>1. at \in Stages /\ at # "none"
        BY <2>2
      <4>2. y \in Run /\ y.at # "none"
        BY <2>2, <4>1, RunGoesFlushed
      <4>3. run' = [run EXCEPT ![u] = y]
        BY <3>2
      <4>4. QED
        BY <4>2, <4>3
    <3>3. \/ run' = [run EXCEPT ![u].at = Keeping(u)]
          \/ \E at \in {Keeping(u), "cancelling"} :
                 run' = [run EXCEPT ![u].at = at, ![u].flushed = TRUE]
      BY <2>1 DEF Interrupted, GoesTo
    <3>4. QED
      BY <3>1, <3>2, <3>3
  <2>4. QED
    BY <1>1, <2>3 DEF Live
<1>6. QED
  BY <1>4, <1>5

\* The runs of the other turns, and of all turns in the other steps.
LEMMA StartCreatesEndsNothing ==
    ASSUME IInv, NEW c \in Connection, StartCreates(c), NEW t \in Turn, Live(t)
    PROVE  Live(t)'
<1>1. CASE UNCHANGED run
  BY <1>1 DEF Live
<1>2. ASSUME NEW u \in Turn, run' = [Unsubscribed(c) EXCEPT ![u].at = "streaming"]
      PROVE  Live(t)'
  <2> DEFINE y == [Unsubscribed(c)[u] EXCEPT !.at = "streaming"]
  <2>1. Unsubscribed(c) \in [Turn -> Run] /\ Unsubscribed(c)[t].at = run[t].at
    BY UnsubscribedFacts
  <2>2. y.at = "streaming"
    BY <2>1, RunGoes DEF Stages
  <2>3. run' = [Unsubscribed(c) EXCEPT ![u] = y]
    BY <1>2
  <2> HIDE DEF y
  <2>4. run'[t] = IF u = t THEN y ELSE Unsubscribed(c)[t]
    BY <2>1, <2>3
  <2>5. QED
    BY <2>1, <2>2, <2>4 DEF Live
<1>3. QED
  BY <1>1, <1>2 DEF StartCreates

LEMMA AttachEndsNothing ==
    ASSUME IInv, NEW c \in Connection, Attach(c), NEW t \in Turn, Live(t)
    PROVE  Live(t)'
<1> DEFINE u == view[c].turn
           y == [run[u] EXCEPT !.subs = @ \cup {c}]
<1>1. run \in [Turn -> Run] /\ u \in Turn
  BY DEF Attach, IInv, TypeOK, ViewInv
<1>2. y.at = run[u].at
  BY <1>1 DEF Run
<1>3. run' = [run EXCEPT ![u] = y]
  BY DEF Attach
<1> HIDE DEF u, y
<1>4. run'[t] = IF u = t THEN y ELSE run[t]
  BY <1>1, <1>3
<1>5. QED
  BY <1>2, <1>4 DEF Live

\* A run ends with its row settled, when nothing fails and its client does not leave
\* while its failure is being recorded: the three ways out of _run_turn.
THEOREM RunsSettle == Spec => RunsSettleTheirRows
<1>1. ASSUME IInv, [Next]_vars, NEW t \in Turn, Live(t), ~Live(t)', faults' = faults,
             row'[t].status = "running"
      PROVE  \E c \in Connection : Disconnect(c) /\ run[t].at \in {"failing", "failed"}
  <2>1. run' # run
    BY <1>1 DEF Live
  <2>2. faults \in Nat
    BY <1>1, ConstantsAssumption DEF IInv, TypeOK
  <2>3. ~Crash /\ \A u \in Turn : ~StoreFails(u)
    BY <1>1, <2>2 DEF Crash, StoreFails
  <2>4. \A u \in Turn : ~RunStep(u) /\ ~Reply(u)
    BY <1>1, <2>1, RunStepEnds DEF Reply
  <2>5. \A c \in Connection : /\ ~ConnStep(c) /\ ~ViewStep(c)
                              /\ \A s \in Session : ~StartLists(c, s)
    <3>1. ASSUME NEW c \in Connection, ConnStep(c)
          PROVE  FALSE
      BY <1>1, <2>1, <3>1, StartCreatesEndsNothing, UnsubscribingEndsNothing
         DEF ConnStep, StartRecovers, CancelSettles, StopsForwarding
    <3>2. ASSUME NEW c \in Connection, ViewStep(c)
          PROVE  FALSE
      BY <1>1, <2>1, <3>2, AttachEndsNothing DEF ViewStep, ReadBacklog, CatchUp, FailOrphan, Receive
    <3>3. QED
      BY <2>1, <3>1, <3>2 DEF StartLists
  <2>6. PICK c \in Connection : Disconnect(c)
    <3>1. Next
      BY <1>1, <2>1 DEF vars
    <3>2. QED
      BY <2>3, <2>4, <2>5, <3>1 DEF Next, LearnerStep
  <2>7. QED
    BY <1>1, <2>6, DisconnectEnds
<1>2. IInv /\ [Next]_vars =>
          [\A t \in Turn :
              Live(t) /\ ~Live(t)' /\ faults' = faults /\ row'[t].status = "running" =>
                  \E c \in Connection : Disconnect(c) /\ run[t].at \in {"failing", "failed"}]_vars
  BY <1>1
<1>3. QED
  BY <1>2, Invariance, PTL DEF Spec, RunsSettleTheirRows

=============================================================================
