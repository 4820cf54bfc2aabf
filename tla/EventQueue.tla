----------------------------- MODULE EventQueue -----------------------------
(***************************************************************************)
(* What the trigger-event queue of xop::TaskScheduler promises its         *)
(* callers: accepted events are run one at a time, each at most once and   *)
(* in the order in which they were accepted.  An event may be lost, but    *)
(* only while the queue is full up to the event just being taken.          *)
(***************************************************************************)
EXTENDS Naturals, Sequences

CONSTANTS Event, Capacity

VARIABLES queue, ran, lost

vars == <<queue, ran, lost>>

Init == queue = <<>> /\ ran = <<>> /\ lost = {}

\* Each event is one call of AddTriggerEvent, so it is accepted or lost once.
Fresh(e) == /\ e \notin lost
            /\ \A i \in DOMAIN queue : queue[i] # e
            /\ \A i \in DOMAIN ran : ran[i] # e

Accept(e) ==
  /\ Fresh(e) /\ Len(queue) < Capacity
  /\ queue' = Append(queue, e)
  /\ UNCHANGED <<ran, lost>>

Lose(e) ==
  /\ Fresh(e) /\ Len(queue) >= Capacity - 1
  /\ lost' = lost \cup {e}
  /\ UNCHANGED <<queue, ran>>

Run ==
  /\ queue # <<>>
  /\ ran' = Append(ran, Head(queue)) /\ queue' = Tail(queue)
  /\ UNCHANGED lost

Next == Run \/ \E e \in Event : Accept(e) \/ Lose(e)

Spec == Init /\ [][Next]_vars
=============================================================================
