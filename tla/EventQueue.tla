----------------------------- MODULE EventQueue -----------------------------
(***************************************************************************)
(* What the in-memory event bus promises the code that publishes to it: a  *)
(* bounded first-in first-out queue that is drained one event at a time,   *)
(* refuses an event it does not keep, and forgets the events it still      *)
(* holds only once it has been closed.                                     *)
(***************************************************************************)
EXTENDS Naturals, Sequences

CONSTANTS Events,     \* the events that may ever be published
          Capacity    \* how many events the queue holds

VARIABLES queue,      \* the events waiting, oldest first
          current,    \* the set of at most one event being dispatched
          open        \* whether the queue still delivers

vars == <<queue, current, open>>

Init == queue = <<>> /\ current = {} /\ open = TRUE

Enqueue(e) ==
    /\ Len(queue) < Capacity
    /\ queue' = Append(queue, e)
    /\ UNCHANGED <<current, open>>

Dequeue ==
    /\ queue # <<>>
    /\ current = {}
    /\ current' = {Head(queue)}
    /\ queue' = Tail(queue)
    /\ UNCHANGED open

Complete ==
    /\ current # {}
    /\ current' = {}
    /\ UNCHANGED <<queue, open>>

\* Closing is only visible to the consumer between two events.
Close ==
    /\ open
    /\ current = {}
    /\ open' = FALSE
    /\ UNCHANGED <<queue, current>>

Next ==
    \/ \E e \in Events : Enqueue(e)
    \/ open /\ (Dequeue \/ Complete)
    \/ Close

Spec == Init /\ [][Next]_vars
=============================================================================
