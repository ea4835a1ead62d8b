---------------------------- MODULE EventBusProofs ----------------------------
(***************************************************************************)
(* Proofs about the event bus and what runs beside it.  EventBus, for any  *)
(* number of publishers, handlers, kinds of events and any capacity: its   *)
(* types, that the handlers take turns, and that it implements EventQueue. *)
(* SecretsDebounce: its types.  TcpConnections: that Stop leaves no        *)
(* connection behind.  MCEventBus: the types of all of them together.      *)
(***************************************************************************)
EXTENDS MCEventBus, PreviewProofs, SequenceTheorems, TLAPS

-----------------------------------------------------------------------------
(* The inductive invariant                                                 *)

NoRepeats(s) == \A i, j \in 1..Len(s) : s[i] = s[j] => i = j

\* Between two events the loop holds nothing.
LoopShape ==
    /\ loop.at \in {"off", "select", "done"}
          => loop.event = Idle /\ loop.copy = <<>> /\ loop.next = 1
    /\ loop.at \in {"dispatch", "wait"} => loop.event \in Events
    /\ loop.at = "wait" => loop.next =< Len(loop.copy)

\* A handler is subscribed once, so it is once in the copy.
NoneTwice == NoRepeats(handlers) /\ NoRepeats(loop.copy)

\* What was published is in one place: with its publisher, in the channel, or taken.
OnePlace ==
    /\ \A p \in Publishers : publishing[p].id =< published
    /\ \A i \in 1..Len(eventChan) : eventChan[i].id =< published
    /\ \A p, q \in Publishers :
          publishing[p].id = publishing[q].id => p = q \/ publishing[p] = Idle
    /\ \A p \in Publishers, i \in 1..Len(eventChan) : publishing[p].id # eventChan[i].id
    /\ \A i, j \in 1..Len(eventChan) : eventChan[i].id = eventChan[j].id => i = j

Taken(id) ==
    /\ id =< published
    /\ \A p \in Publishers : publishing[p].id # id
    /\ \A i \in 1..Len(eventChan) : eventChan[i].id # id

TakenOnce ==
    /\ loop.event # Idle => Taken(loop.event.id)
    /\ \A g \in goroutines : Taken(g.event.id)

\* The handlers the loop has come to, in the copy for the event at hand.
Reached(i) == i < loop.next \/ (i = loop.next /\ loop.at = "wait")

\* One goroutine for a handler and an event, and those of the event at hand belong to
\* handlers the loop has come to.
OneEach ==
    /\ \A g, h \in goroutines : g.handler = h.handler /\ g.event = h.event => g = h
    /\ \A g \in goroutines : g.event = loop.event =>
          \E i \in 1..Len(loop.copy) : loop.copy[i] = g.handler /\ Reached(i)

LiveIsAwaited == \A g \in goroutines : ~ g.cancelled => Awaited(g)

ReachedIsOffered ==
    \A i \in 1..Len(loop.copy) :
        Reached(i) /\ CanHandle(loop.copy[i], loop.event)
            => <<loop.copy[i], loop.event.id>> \in offered

TurnsInv ==
    /\ TypeOK
    /\ LoopShape
    /\ NoneTwice
    /\ OnePlace
    /\ TakenOnce
    /\ OneEach
    /\ LiveIsAwaited
    /\ ReachedIsOffered

-----------------------------------------------------------------------------
(* Types                                                                   *)

LEMMA IdleIsNoEvent == Idle \notin Events /\ \A e \in Events : e # Idle /\ e.id \in Nat /\ e.id > 0
  BY EventBusAssumption DEF Events, Idle

\* Unsubscribe leaves a sequence of handlers in their order.
LEMMA RemoveAtType ==
  ASSUME NEW S, NEW s \in Seq(S), NEW i \in 1..Len(s)
  PROVE  /\ RemoveAt(s, i) \in Seq(S)
         /\ Len(RemoveAt(s, i)) = Len(s) - 1
         /\ \A j \in 1..(Len(s) - 1) : RemoveAt(s, i)[j] = s[IF j < i THEN j ELSE j + 1]
<1> DEFINE before == SubSeq(s, 1, i - 1)
           after  == SubSeq(s, i + 1, Len(s))
<1>0. Len(s) \in Nat /\ i \in Nat /\ i =< Len(s)
  BY LenProperties
<1>1. s \in [1..Len(s) -> S] /\ Len(s) \in Nat
  BY LenProperties
<1>2. /\ before \in Seq(S) /\ Len(before) = i - 1
      /\ \A j \in 1..(i - 1) : before[j] = s[j]
  <2>1. \A j \in 1..(i - 1) : s[j] \in S
    BY <1>1
  <2> HIDE DEF before
  <2> QED
    BY <1>1, <2>1, SubSeqProperties, 1 \in Int, i - 1 \in Int DEF before
<1>3. /\ after \in Seq(S) /\ Len(after) = Len(s) - i
      /\ \A j \in 1..(Len(s) - i) : after[j] = s[i + j]
  <2>1. \A j \in (i + 1)..Len(s) : s[j] \in S
    BY <1>1
  <2>2. i + 1 \in Int /\ Len(s) \in Int
    BY <1>1
  <2>3. /\ after \in Seq(S)
        /\ Len(after) = IF i + 1 <= Len(s) THEN Len(s) - (i + 1) + 1 ELSE 0
        /\ \A j \in 1..(Len(s) - (i + 1) + 1) : after[j] = s[(i + 1) + j - 1]
    BY <2>1, <2>2, SubSeqProperties
  <2>4. Len(after) = Len(s) - i
    <3>1. CASE i = Len(s)
      BY <1>1, <2>3, <3>1
    <3>2. CASE i # Len(s)
      <4>1. i + 1 <= Len(s) /\ Len(s) - (i + 1) + 1 = Len(s) - i
        BY <1>0, <3>2
      <4> QED
        BY <2>3, <4>1
    <3> QED
      BY <3>1, <3>2
  <2>5. ASSUME NEW j \in 1..(Len(s) - i) PROVE after[j] = s[i + j]
    <3>1. j \in 1..(Len(s) - (i + 1) + 1) /\ (i + 1) + j - 1 = i + j
      BY <1>1
    <3> QED
      BY <2>3, <3>1
  <2> QED
    BY <2>3, <2>4, <2>5
<1> HIDE DEF before, after
<1>4. /\ before \o after \in Seq(S)
      /\ Len(before \o after) = Len(s) - 1
      /\ \A j \in 1..(Len(s) - 1) :
            (before \o after)[j] = IF j < i THEN before[j] ELSE after[j - (i - 1)]
  <2>1. /\ before \o after \in Seq(S)
        /\ Len(before \o after) = Len(before) + Len(after)
        /\ \A j \in 1..(Len(before) + Len(after)) :
              (before \o after)[j] = IF j <= Len(before) THEN before[j]
                                      ELSE after[j - Len(before)]
    BY <1>2, <1>3, ConcatProperties
  <2> QED
    BY <1>1, <1>2, <1>3, <2>1
<1>5. RemoveAt(s, i) = before \o after
  BY DEF RemoveAt, before, after
<1>6. ASSUME NEW j \in 1..(Len(s) - 1)
      PROVE  (before \o after)[j] = s[IF j < i THEN j ELSE j + 1]
  <2>1. CASE j < i
    BY <1>1, <1>2, <1>4, <2>1
  <2>2. CASE ~ (j < i)
    <3>1. j - (i - 1) \in 1..(Len(s) - i) /\ i + (j - (i - 1)) = j + 1
      BY <1>1, <2>2
    <3> QED
      BY <1>3, <1>4, <2>2, <3>1
  <2> QED
    BY <2>1, <2>2
<1> QED
  BY <1>4, <1>5, <1>6

LEMMA CancelType ==
  ASSUME NEW g \in Goroutines
  PROVE  [g EXCEPT !.cancelled = TRUE] \in Goroutines
  BY DEF Goroutines

LEMMA TypeInit == Init => TypeOK
<1> SUFFICES ASSUME Init PROVE TypeOK
  OBVIOUS
<1>1. \A S : <<>> \in Seq(S) /\ Len(<<>>) = 0
  BY EmptySeq
<1>2. Idle \in Events \cup {Idle}
  OBVIOUS
<1>3. loop \in Loops
  BY <1>1, <1>2 DEF Init, Loops, LoopPlaces
<1>4. eventChan \in Seq(Events) /\ Len(eventChan) =< BufferSize /\ handlers \in Seq(Handlers)
  BY <1>1, EventBusAssumption DEF Init
<1>5. loop.next \in 1..(Len(loop.copy) + 1)
  BY <1>1 DEF Init
<1>6. publishing \in [Publishers -> Events \cup {Idle}]
  BY <1>2 DEF Init
<1>7. published \in 0..MaxEvents
  BY EventBusAssumption DEF Init
<1> QED
  BY <1>3, <1>4, <1>5, <1>6, <1>7 DEF Init, TypeOK

\* How the loop goes on within an event, and between two.
LEMMA LoopGoes ==
  ASSUME TypeOK, NEW at \in LoopPlaces, NEW n \in 1..(Len(loop.copy) + 1),
         loop' = [loop EXCEPT !.at = at, !.next = n]
  PROVE  /\ loop' \in Loops /\ loop'.next \in 1..(Len(loop'.copy) + 1)
         /\ loop'.at = at /\ loop'.next = n
         /\ loop'.copy = loop.copy /\ loop'.event = loop.event
<1>1. loop \in Loops /\ n \in Nat
  BY LenProperties DEF TypeOK, Loops
<1> QED
  BY <1>1 DEF Loops

LEMMA LoopNumbers ==
  ASSUME TypeOK
  PROVE  /\ loop.copy \in Seq(Handlers) /\ Len(loop.copy) \in Nat
         /\ loop.next \in Nat /\ loop.at \in LoopPlaces
<1>1. loop.copy \in Seq(Handlers)
  BY DEF TypeOK, Loops
<1> QED
  BY <1>1, LenProperties DEF TypeOK, Loops

LEMMA TypeNext == TypeOK /\ LoopShape /\ [Next]_vars => TypeOK'
<1> SUFFICES ASSUME TypeOK, LoopShape, [Next]_vars PROVE TypeOK'
  OBVIOUS
<1>0. /\ loop.copy \in Seq(Handlers) /\ Len(loop.copy) \in Nat
      /\ loop.next \in Nat /\ loop.at \in LoopPlaces
  BY LoopNumbers
<1> USE EventBusAssumption DEF TypeOK
<1>1. ASSUME NEW h \in Handlers, Subscribe(h) PROVE TypeOK'
  BY <1>1 DEF Subscribe
<1>2. ASSUME NEW h \in Handlers, Unsubscribe(h) PROVE TypeOK'
  BY <1>2, RemoveAtType DEF Unsubscribe
<1>3. CASE Start
  BY <1>3 DEF Start, Loops, LoopPlaces
<1>4. CASE Stop
  BY <1>4, CancelType DEF Stop
<1>5. ASSUME NEW p \in Publishers, NEW k \in Kinds, Publish(p, k) PROVE TypeOK'
  BY <1>5 DEF Publish, Events
<1>6. ASSUME NEW p \in Publishers, PublishSend(p) PROVE TypeOK'
  BY <1>6 DEF PublishSend, Return
<1>7. ASSUME NEW p \in Publishers, PublishStopped(p) \/ PublishDrop(p) PROVE TypeOK'
  BY <1>7 DEF PublishStopped, PublishDrop, Return
<1>8. CASE Receive
  <2>1. eventChan' \in Seq(Events) /\ Len(eventChan') =< BufferSize /\ Head(eventChan) \in Events
    BY <1>8, HeadTailProperties, LenProperties DEF Receive
  <2>2. loop' \in Loops
    BY <1>8, <2>1 DEF Receive, Loops, LoopPlaces
  <2>3. loop'.next \in 1..(Len(loop'.copy) + 1)
    BY <1>8, LenProperties DEF Receive
  <2> QED
    BY <1>8, <2>1, <2>2, <2>3 DEF Receive
<1>9. CASE Exit
  BY <1>9 DEF Exit, Loops, LoopPlaces
<1>10. CASE SkipHandler
  <2>1. loop' = [loop EXCEPT !.at = "dispatch", !.next = loop.next + 1]
    BY <1>10 DEF SkipHandler, Loops
  <2>2. loop.next + 1 \in 1..(Len(loop.copy) + 1)
    BY <1>0, <1>10 DEF SkipHandler
  <2> QED
    BY <1>10, <2>1, <2>2, LoopGoes DEF SkipHandler, LoopPlaces
<1>11. CASE StartHandler
  <2> DEFINE h == loop.copy[loop.next]
             started == [handler |-> h, event |-> loop.event, returned |-> FALSE,
                         cancelled |-> cancelled]
  <2>1. loop.next \in 1..Len(loop.copy)
    BY <1>0, <1>11 DEF StartHandler
  <2>2. h \in Handlers /\ loop.event \in Events /\ loop.event.id \in 1..MaxEvents
    BY <1>0, <1>11, <2>1, ElementOfSeq DEF StartHandler, LoopShape, Events
  <2>3. started \in Goroutines
    BY <2>2 DEF Goroutines
  <2>4. loop' = [loop EXCEPT !.at = "wait", !.next = loop.next]
    BY <1>11 DEF StartHandler, Loops
  <2>5. loop' \in Loops /\ loop'.next \in 1..(Len(loop'.copy) + 1)
    BY <2>4, LoopGoes DEF LoopPlaces
  <2>6. goroutines' = goroutines \cup {started} /\ offered' = offered \cup {<<h, loop.event.id>>}
    BY <1>11 DEF StartHandler
  <2>7. <<h, loop.event.id>> \in Handlers \X (1..MaxEvents)
    BY <2>2
  <2> HIDE DEF h, started
  <2> QED
    BY <1>11, <2>3, <2>5, <2>6, <2>7 DEF StartHandler
<1>12. CASE EventDone
  <2>1. <<>> \in Seq(Handlers) /\ Len(<<>>) = 0
    BY EmptySeq
  <2>2. loop' \in Loops
    BY <1>12, <2>1 DEF EventDone, Loops, LoopPlaces
  <2>3. loop'.copy = <<>> /\ loop'.next = 1
    BY <1>12 DEF EventDone, Loops
  <2> QED
    BY <1>12, <2>1, <2>2, <2>3 DEF EventDone
<1>13. ASSUME NEW g \in goroutines, HandlerReturns(g) PROVE TypeOK'
  BY <1>13 DEF HandlerReturns, Goroutines
<1>14. ASSUME NextHandler, loop.at = "wait"
       PROVE  loop' \in Loops /\ loop'.next \in 1..(Len(loop'.copy) + 1)
  <2>1. loop.next + 1 \in 1..(Len(loop.copy) + 1)
    BY <1>0, <1>14 DEF LoopShape
  <2> QED
    BY <1>14, <2>1, LoopGoes DEF NextHandler, LoopPlaces
<1>15. ASSUME NEW g \in goroutines, HandlerDone(g) PROVE TypeOK'
  BY <1>14, <1>15 DEF HandlerDone, Awaited
<1>16. ASSUME NEW g \in goroutines, HandlerTimeout(g) PROVE TypeOK'
  BY <1>14, <1>16, CancelType DEF HandlerTimeout, Awaited
<1>17. CASE UNCHANGED vars
  BY <1>17 DEF vars
<1> QED
  BY <1>1, <1>2, <1>3, <1>4, <1>5, <1>6, <1>7, <1>8, <1>9, <1>10, <1>11, <1>12,
     <1>13, <1>15, <1>16, <1>17 DEF Next

-----------------------------------------------------------------------------
(* The loop and the handlers that are subscribed                           *)

LEMMA ShapeNext == TypeOK /\ LoopShape /\ [Next]_vars => LoopShape'
<1> SUFFICES ASSUME TypeOK, LoopShape, [Next]_vars PROVE LoopShape'
  OBVIOUS
<1>0. loop \in Loops /\ Len(loop.copy) \in Nat /\ loop.next \in Nat
  BY LoopNumbers DEF TypeOK
<1>1. CASE UNCHANGED loop
  BY <1>1 DEF LoopShape
<1>2. CASE Start \/ Exit
  BY <1>0, <1>2 DEF Start, Exit, LoopShape, Loops
<1>3. CASE Receive
  <2>1. Head(eventChan) \in Events
    BY <1>3, HeadTailProperties DEF Receive, TypeOK
  <2> QED
    BY <1>3, <2>1 DEF Receive, LoopShape
<1>4. CASE SkipHandler
  BY <1>0, <1>4 DEF SkipHandler, LoopShape, Loops
<1>5. CASE StartHandler
  BY <1>0, <1>5 DEF StartHandler, LoopShape, Loops
<1>6. CASE EventDone
  BY <1>0, <1>6 DEF EventDone, LoopShape, Loops
<1>7. CASE loop.at = "wait" /\ NextHandler
  BY <1>0, <1>7 DEF NextHandler, LoopShape, Loops
<1> QED
  BY <1>1, <1>2, <1>3, <1>4, <1>5, <1>6, <1>7
     DEF Next, vars, Subscribe, Unsubscribe, Stop, Publish, PublishSend, PublishStopped,
         PublishDrop, HandlerReturns, HandlerDone, HandlerTimeout, Awaited

LEMMA NoRepeatsAppend ==
  ASSUME NEW S, NEW s \in Seq(S), NEW e \in S, NoRepeats(s), ~ Contains(s, e)
  PROVE  NoRepeats(Append(s, e))
  BY LenProperties DEF NoRepeats, Contains

LEMMA NoRepeatsRemoveAt ==
  ASSUME NEW S, NEW s \in Seq(S), NEW i \in 1..Len(s), NoRepeats(s)
  PROVE  NoRepeats(RemoveAt(s, i))
<1> DEFINE t == RemoveAt(s, i)
           from(j) == IF j < i THEN j ELSE j + 1
<1>1. Len(s) \in Nat /\ Len(t) = Len(s) - 1
  BY LenProperties, RemoveAtType
<1>2. \A j \in 1..Len(t) : t[j] = s[from(j)]
  BY <1>1, RemoveAtType
<1>3. \A j \in 1..Len(t) : from(j) \in 1..Len(s)
  BY <1>1
<1>4. \A j, k \in 1..Len(t) : from(j) = from(k) => j = k
  BY <1>1
<1> HIDE DEF from, t
<1>5. NoRepeats(t)
  BY <1>2, <1>3, <1>4 DEF NoRepeats
<1> QED
  BY <1>5 DEF t

LEMMA NoneTwiceNext == TypeOK /\ NoneTwice /\ [Next]_vars => NoneTwice'
<1> SUFFICES ASSUME TypeOK, NoneTwice, [Next]_vars PROVE NoneTwice'
  OBVIOUS
<1>0. loop \in Loops /\ handlers \in Seq(Handlers)
  BY DEF TypeOK
<1>1. ASSUME NEW h \in Handlers, Subscribe(h) PROVE NoneTwice'
  BY <1>0, <1>1, NoRepeatsAppend DEF Subscribe, NoneTwice
<1>2. ASSUME NEW h \in Handlers, Unsubscribe(h) PROVE NoneTwice'
  BY <1>0, <1>2, NoRepeatsRemoveAt DEF Unsubscribe, NoneTwice
<1>3. CASE handlers' = handlers /\ loop'.copy = loop.copy
  BY <1>3 DEF NoneTwice
<1>4. CASE Receive
  BY <1>4 DEF Receive, NoneTwice
<1>5. CASE EventDone
  <2>1. loop'.copy = <<>> /\ handlers' = handlers
    BY <1>0, <1>5 DEF EventDone, Loops
  <2> QED
    BY <2>1, EmptySeq DEF NoneTwice, NoRepeats
<1> QED
  BY <1>0, <1>1, <1>2, <1>3, <1>4, <1>5
     DEF Next, vars, Start, Stop, Publish, PublishSend, PublishStopped, PublishDrop, Exit,
         SkipHandler, StartHandler, HandlerReturns, HandlerDone, HandlerTimeout, NextHandler,
         Loops

-----------------------------------------------------------------------------
(* Where an event is                                                       *)

LEMMA PublishingType ==
  ASSUME TypeOK, NEW p \in Publishers
  PROVE  /\ publishing[p].id \in Nat
         /\ publishing[p] # Idle <=> publishing[p] \in Events
         /\ publishing[p] # Idle <=> publishing[p].id # 0
  BY IdleIsNoEvent DEF TypeOK, Idle

LEMMA QueuedType ==
  ASSUME TypeOK, NEW i \in 1..Len(eventChan)
  PROVE  eventChan[i] \in Events /\ eventChan[i].id \in Nat /\ eventChan[i].id > 0
  BY IdleIsNoEvent, ElementOfSeq DEF TypeOK

\* The channel gains an event at its end and loses one at its head.
LEMMA QueueAppend ==
  ASSUME TypeOK, NEW e \in Events
  PROVE  /\ Len(Append(eventChan, e)) = Len(eventChan) + 1
         /\ Len(eventChan) \in Nat
         /\ \A i \in 1..(Len(eventChan) + 1) :
               Append(eventChan, e)[i] = IF i =< Len(eventChan) THEN eventChan[i] ELSE e
  BY AppendProperties, LenProperties DEF TypeOK

LEMMA QueueTail ==
  ASSUME TypeOK, eventChan # <<>>
  PROVE  /\ Len(eventChan) \in Nat /\ Len(eventChan) > 0
         /\ Len(Tail(eventChan)) = Len(eventChan) - 1
         /\ Head(eventChan) = eventChan[1]
         /\ \A i \in 1..Len(Tail(eventChan)) : Tail(eventChan)[i] = eventChan[i + 1]
  BY HeadTailProperties, LenProperties DEF TypeOK

LEMMA OnePlaceNext == TypeOK /\ OnePlace /\ [Next]_vars => OnePlace'
<1> SUFFICES ASSUME TypeOK, OnePlace, [Next]_vars PROVE OnePlace'
  OBVIOUS
<1>0. published \in Nat /\ Idle.id = 0
  BY EventBusAssumption DEF TypeOK, Idle
<1>1. ASSUME NEW p \in Publishers, NEW k \in Kinds, Publish(p, k) PROVE OnePlace'
  <2>1. \A q \in Publishers :
           publishing'[q] = IF q = p THEN [id |-> published + 1, kind |-> k] ELSE publishing[q]
    BY <1>1 DEF Publish, TypeOK
  <2>2. eventChan' = eventChan /\ published' = published + 1
    BY <1>1 DEF Publish
  <2> QED
    BY <1>0, <2>1, <2>2, PublishingType, QueuedType DEF OnePlace
<1>2. ASSUME NEW p \in Publishers, PublishSend(p) PROVE OnePlace'
  <2>1. \A q \in Publishers : publishing'[q] = IF q = p THEN Idle ELSE publishing[q]
    BY <1>2 DEF PublishSend, Return, TypeOK
  <2>2. publishing[p] \in Events
    BY <1>2, PublishingType DEF PublishSend
  <2>3. /\ Len(eventChan') = Len(eventChan) + 1 /\ Len(eventChan) \in Nat
        /\ \A i \in 1..(Len(eventChan) + 1) :
              eventChan'[i] = IF i =< Len(eventChan) THEN eventChan[i] ELSE publishing[p]
    BY <1>2, <2>2, QueueAppend DEF PublishSend
  <2>4. published' = published
    BY <1>2 DEF PublishSend
  <2>5. publishing[p] # Idle
    BY <1>2 DEF PublishSend
  <2> DEFINE n == Len(eventChan) + 1
  <2>6. \A i \in 1..n : (i \in 1..Len(eventChan) /\ eventChan'[i] = eventChan[i])
                         \/ (i = n /\ eventChan'[i] = publishing[p])
    BY <2>3
  <2>7. Len(eventChan') = n
    BY <2>3
  <2> HIDE DEF n
  <2>8. \A i \in 1..n : eventChan'[i].id =< published'
    BY <2>4, <2>6 DEF OnePlace
  <2>9. \A q \in Publishers, i \in 1..n : publishing'[q].id # eventChan'[i].id
    BY <1>0, <2>1, <2>2, <2>5, <2>6, PublishingType, QueuedType DEF OnePlace
  <2>10. \A i, j \in 1..n : eventChan'[i].id = eventChan'[j].id => i = j
    BY <2>6 DEF OnePlace
  <2>11. \A q, r \in Publishers :
            publishing'[q].id = publishing'[r].id => q = r \/ publishing'[q] = Idle
    BY <1>0, <2>1, PublishingType DEF OnePlace
  <2>12. \A q \in Publishers : publishing'[q].id =< published'
    BY <1>0, <2>1, <2>4 DEF OnePlace
  <2> QED
    BY <2>7, <2>8, <2>9, <2>10, <2>11, <2>12 DEF OnePlace
<1>3. ASSUME NEW p \in Publishers, PublishStopped(p) \/ PublishDrop(p) PROVE OnePlace'
  <2>1. \A q \in Publishers : publishing'[q] = IF q = p THEN Idle ELSE publishing[q]
    BY <1>3 DEF PublishStopped, PublishDrop, Return, TypeOK
  <2>2. eventChan' = eventChan /\ published' = published
    BY <1>3 DEF PublishStopped, PublishDrop
  <2> QED
    BY <1>0, <2>1, <2>2, PublishingType, QueuedType DEF OnePlace
<1>4. CASE Receive
  <2>1. /\ Len(eventChan) \in Nat /\ Len(eventChan') = Len(eventChan) - 1
        /\ \A i \in 1..Len(eventChan') : eventChan'[i] = eventChan[i + 1]
    BY <1>4, QueueTail DEF Receive
  <2>2. publishing' = publishing /\ published' = published
    BY <1>4 DEF Receive
  <2>3. \A i \in 1..Len(eventChan') : i + 1 \in 1..Len(eventChan)
    BY <2>1
  <2>4. \A i, j \in 1..Len(eventChan') : i + 1 = j + 1 => i = j
    BY <2>1
  <2>5. \A i, j \in 1..Len(eventChan') : eventChan'[i].id = eventChan'[j].id => i = j
    BY <2>1, <2>3, <2>4 DEF OnePlace
  <2>6. \A i \in 1..Len(eventChan') :
           /\ eventChan'[i].id =< published'
           /\ \A q \in Publishers : publishing'[q].id # eventChan'[i].id
    BY <2>1, <2>2, <2>3, SMTT(30) DEF OnePlace
  <2> QED
    BY <2>2, <2>5, <2>6 DEF OnePlace
<1>5. CASE UNCHANGED <<eventChan, publishing, published>>
  BY <1>5 DEF OnePlace
<1> QED
  BY <1>1, <1>2, <1>3, <1>4, <1>5
     DEF Next, vars, Subscribe, Unsubscribe, Start, Stop, Exit, SkipHandler, StartHandler,
         EventDone, HandlerReturns, HandlerDone, HandlerTimeout

\* What is taken stays taken.
LEMMA TakenStays ==
  ASSUME TypeOK, OnePlace, [Next]_vars, NEW id \in Nat \ {0}, Taken(id)
  PROVE  Taken(id)'
<1>0. published \in Nat /\ Idle.id = 0
  BY EventBusAssumption DEF TypeOK, Idle
<1>1. ASSUME NEW p \in Publishers, NEW k \in Kinds, Publish(p, k) PROVE Taken(id)'
  <2>1. \A q \in Publishers :
           publishing'[q] = IF q = p THEN [id |-> published + 1, kind |-> k] ELSE publishing[q]
    BY <1>1 DEF Publish, TypeOK
  <2> QED
    BY <1>0, <1>1, <2>1 DEF Publish, Taken
<1>2. ASSUME NEW p \in Publishers, PublishSend(p) PROVE Taken(id)'
  <2>1. \A q \in Publishers : publishing'[q] = IF q = p THEN Idle ELSE publishing[q]
    BY <1>2 DEF PublishSend, Return, TypeOK
  <2>2. publishing[p] \in Events
    BY <1>2, PublishingType DEF PublishSend
  <2>3. /\ Len(eventChan') = Len(eventChan) + 1 /\ Len(eventChan) \in Nat
        /\ \A i \in 1..(Len(eventChan) + 1) :
              eventChan'[i] = IF i =< Len(eventChan) THEN eventChan[i] ELSE publishing[p]
    BY <1>2, <2>2, QueueAppend DEF PublishSend
  <2> QED
    BY <1>0, <1>2, <2>1, <2>3 DEF PublishSend, Taken
<1>3. ASSUME NEW p \in Publishers, PublishStopped(p) \/ PublishDrop(p) PROVE Taken(id)'
  <2>1. \A q \in Publishers : publishing'[q] = IF q = p THEN Idle ELSE publishing[q]
    BY <1>3 DEF PublishStopped, PublishDrop, Return, TypeOK
  <2> QED
    BY <1>0, <1>3, <2>1 DEF PublishStopped, PublishDrop, Taken
<1>4. CASE Receive
  <2>1. /\ Len(eventChan) \in Nat /\ Len(eventChan') = Len(eventChan) - 1
        /\ \A i \in 1..Len(eventChan') : eventChan'[i] = eventChan[i + 1]
    BY <1>4, QueueTail DEF Receive
  <2>2. \A i \in 1..Len(eventChan') : i + 1 \in 1..Len(eventChan)
    BY <2>1
  <2> QED
    BY <1>4, <2>1, <2>2 DEF Receive, Taken
<1>5. CASE UNCHANGED <<eventChan, publishing, published>>
  BY <1>5 DEF Taken
<1> QED
  BY <1>1, <1>2, <1>3, <1>4, <1>5
     DEF Next, vars, Subscribe, Unsubscribe, Start, Stop, Exit, SkipHandler, StartHandler,
         EventDone, HandlerReturns, HandlerDone, HandlerTimeout

\* What the loop takes has been published once.
LEMMA ReceiveTakes ==
  ASSUME TypeOK, OnePlace, Receive
  PROVE  /\ loop'.event = Head(eventChan) /\ loop'.event \in Events
         /\ Taken(loop.event.id)'
<1>1. /\ Len(eventChan) \in Nat /\ Len(eventChan) > 0
      /\ Len(eventChan') = Len(eventChan) - 1
      /\ Head(eventChan) = eventChan[1]
      /\ \A i \in 1..Len(eventChan') : eventChan'[i] = eventChan[i + 1]
  BY QueueTail DEF Receive
<1>2. loop'.event = eventChan[1] /\ eventChan[1] \in Events
  BY <1>1, QueuedType DEF Receive
<1>3. \A i \in 1..Len(eventChan') : i + 1 \in 1..Len(eventChan) /\ i + 1 # 1
  BY <1>1
<1>4. publishing' = publishing /\ published' = published /\ 1 \in 1..Len(eventChan)
  BY <1>1 DEF Receive
<1>5. eventChan[1].id =< published /\ \A p \in Publishers : publishing[p].id # eventChan[1].id
  BY <1>4 DEF OnePlace
<1>6. \A i \in 1..Len(eventChan') : eventChan'[i].id # eventChan[1].id
  BY <1>1, <1>3, <1>4 DEF OnePlace
<1> QED
  BY <1>1, <1>2, <1>4, <1>5, <1>6 DEF Taken

\* The goroutines of a step: the earlier ones, as they were or marked, or a new one of the
\* event at hand.
Inherited(g) == \E f \in goroutines : g.event = f.event /\ g.handler = f.handler

LEMMA GoroutineOrigin ==
  ASSUME TypeOK, [Next]_vars, NEW g \in goroutines'
  PROVE  \/ Inherited(g)
         \/ StartHandler /\ g.event = loop.event /\ g.handler = loop.copy[loop.next]
<1>0. goroutines \subseteq Goroutines
  BY DEF TypeOK
<1>1. CASE Stop
  BY <1>0, <1>1 DEF Stop, Inherited, Goroutines
<1>2. CASE StartHandler
  BY <1>2 DEF StartHandler, Inherited
<1>3. ASSUME NEW f \in goroutines, HandlerReturns(f) \/ HandlerDone(f) \/ HandlerTimeout(f)
      PROVE  Inherited(g)
  BY <1>0, <1>3 DEF HandlerReturns, HandlerDone, HandlerTimeout, Inherited, Goroutines
<1>4. CASE UNCHANGED goroutines
  BY <1>4 DEF Inherited
<1> QED
  BY <1>1, <1>2, <1>3, <1>4
     DEF Next, vars, Subscribe, Unsubscribe, Start, Exit, SkipHandler, EventDone, Receive,
         Publish, PublishSend, PublishStopped, PublishDrop

\* The loop moves within an event, takes one or lets it go.
LEMMA LoopEvent ==
  ASSUME TypeOK, LoopShape, [Next]_vars
  PROVE  \/ loop'.event = loop.event /\ loop'.copy = loop.copy
         \/ Receive
         \/ EventDone /\ loop'.event = Idle /\ loop'.copy = <<>>
<1>0. loop \in Loops
  BY DEF TypeOK
<1> QED
  BY <1>0
     DEF Next, vars, Subscribe, Unsubscribe, Start, Stop, Exit, SkipHandler, StartHandler,
         EventDone, HandlerReturns, HandlerDone, HandlerTimeout, NextHandler, Publish,
         PublishSend, PublishStopped, PublishDrop, Loops

LEMMA TakenOnceNext ==
  TypeOK /\ LoopShape /\ OnePlace /\ TakenOnce /\ [Next]_vars => TakenOnce'
<1> SUFFICES ASSUME TypeOK, LoopShape, OnePlace, TakenOnce, [Next]_vars PROVE TakenOnce'
  OBVIOUS
<1>0. \A id \in Nat \ {0} : Taken(id) => Taken(id)'
  BY TakenStays
<1>1. ASSUME loop.event # Idle PROVE loop.event.id \in Nat \ {0} /\ Taken(loop.event.id)
  BY <1>1, IdleIsNoEvent DEF TypeOK, Loops, TakenOnce
<1>2. ASSUME loop'.event # Idle PROVE Taken(loop.event.id)'
  <2>1. CASE loop'.event = loop.event
    <3>1. \A id : id = loop.event.id => (Taken(id)' => Taken(loop.event.id)')
      BY <2>1 DEF Taken
    <3> QED
      BY <1>0, <1>1, <1>2, <2>1, <3>1
  <2>2. CASE Receive
    BY <2>2, ReceiveTakes
  <2> QED
    BY <1>2, <2>1, <2>2, LoopEvent
<1>3. ASSUME NEW g \in goroutines' PROVE Taken(g.event.id)'
  <2>1. CASE Inherited(g)
    <3>1. PICK f \in goroutines : g.event = f.event
      BY <2>1 DEF Inherited
    <3>2. Taken(f.event.id) /\ f.event.id \in Nat \ {0}
      BY IdleIsNoEvent DEF TakenOnce, TypeOK, Goroutines
    <3> QED
      BY <1>0, <3>1, <3>2
  <2>2. CASE StartHandler /\ g.event = loop.event
    <3>1. loop.event # Idle
      BY <2>2, IdleIsNoEvent DEF StartHandler, LoopShape
    <3> QED
      BY <1>0, <1>1, <2>2, <3>1
  <2> QED
    BY <2>1, <2>2, GoroutineOrigin
<1> QED
  BY <1>2, <1>3 DEF TakenOnce

-----------------------------------------------------------------------------
(* The goroutines of the event at hand                                     *)

\* How far the loop has come in the event at hand.
LEMMA LoopReach ==
  ASSUME TypeOK, LoopShape, [Next]_vars, loop'.event = loop.event, loop'.copy = loop.copy,
         NEW i \in Nat, Reached(i)
  PROVE  Reached(i)'
<1>0. loop \in Loops /\ loop.next \in Nat
  BY LoopNumbers DEF TypeOK
<1>1. CASE Receive
  <2>1. loop.event = Idle /\ loop'.event \in Events
    BY <1>1, HeadTailProperties DEF Receive, LoopShape, TypeOK
  <2> QED
    BY <2>1, IdleIsNoEvent
<1>2. CASE EventDone
  <2>1. loop.event \in Events /\ loop'.event = Idle
    BY <1>0, <1>2 DEF EventDone, LoopShape, Loops
  <2> QED
    BY <2>1, IdleIsNoEvent
<1>3. CASE UNCHANGED loop
  BY <1>3 DEF Reached
<1>4. CASE Start \/ Exit
  BY <1>0, <1>4 DEF Start, Exit, Reached, Loops
<1>5. CASE SkipHandler
  BY <1>0, <1>5 DEF SkipHandler, Reached, Loops
<1>6. CASE StartHandler
  BY <1>0, <1>6 DEF StartHandler, Reached, Loops
<1>7. CASE NextHandler
  BY <1>0, <1>7 DEF NextHandler, Reached, Loops
<1> QED
  BY <1>1, <1>2, <1>3, <1>4, <1>5, <1>6, <1>7
     DEF Next, vars, Subscribe, Unsubscribe, Stop, Publish, PublishSend, PublishStopped,
         PublishDrop, HandlerReturns, HandlerDone, HandlerTimeout

\* The handler at hand has no goroutine yet for the event at hand.
LEMMA StartsFirst ==
  ASSUME TypeOK, NoneTwice, OneEach, StartHandler, NEW g \in goroutines,
         g.event = loop.event
  PROVE  g.handler # loop.copy[loop.next]
<1>1. PICK i \in 1..Len(loop.copy) : loop.copy[i] = g.handler /\ Reached(i)
  BY DEF OneEach
<1>2. i < loop.next /\ loop.next \in 1..Len(loop.copy)
  BY <1>1, LoopNumbers DEF StartHandler, Reached, TypeOK
<1>3. i # loop.next
  BY <1>2, LoopNumbers
<1> QED
  BY <1>1, <1>2, <1>3 DEF NoneTwice, NoRepeats

LEMMA OneEachNext ==
  /\ TypeOK /\ LoopShape /\ NoneTwice /\ OnePlace /\ TakenOnce /\ OneEach
  /\ [Next]_vars
  => OneEach'
<1> SUFFICES ASSUME TypeOK, LoopShape, NoneTwice, OnePlace, TakenOnce, OneEach, [Next]_vars
             PROVE  OneEach'
  OBVIOUS
<1>0. loop \in Loops /\ goroutines \subseteq Goroutines
  BY DEF TypeOK
<1>1. ASSUME NEW g \in goroutines', NEW h \in goroutines',
             g.handler = h.handler, g.event = h.event
      PROVE  g = h
  <2>1. CASE Stop
    <3>1. PICK f \in goroutines : g = [f EXCEPT !.cancelled = TRUE]
      BY <2>1 DEF Stop
    <3>2. PICK k \in goroutines : h = [k EXCEPT !.cancelled = TRUE]
      BY <2>1 DEF Stop
    <3>3. /\ g.handler = f.handler /\ g.event = f.event
          /\ h.handler = k.handler /\ h.event = k.event
      BY <1>0, <3>1, <3>2 DEF Goroutines
    <3>4. f = k
      BY <1>1, <3>3 DEF OneEach
    <3> QED
      BY <3>1, <3>2, <3>4
  <2>2. CASE StartHandler
    <3>1. \A f \in goroutines : f.event = loop.event => f.handler # loop.copy[loop.next]
      BY <2>2, StartsFirst
    <3> DEFINE started == [handler |-> loop.copy[loop.next], event |-> loop.event,
                           returned |-> FALSE, cancelled |-> cancelled]
    <3>2. goroutines' = goroutines \cup {started}
      BY <2>2 DEF StartHandler
    <3>3. started.handler = loop.copy[loop.next] /\ started.event = loop.event
      OBVIOUS
    <3> HIDE DEF started
    <3> QED
      BY <1>1, <3>1, <3>2, <3>3 DEF OneEach
  <2>3. ASSUME NEW f \in goroutines, HandlerReturns(f) PROVE g = h
    BY <1>0, <1>1, <2>3 DEF HandlerReturns, OneEach, Goroutines
  <2>4. ASSUME NEW f \in goroutines, HandlerDone(f) PROVE g = h
    BY <1>1, <2>4 DEF HandlerDone, OneEach
  <2>5. ASSUME NEW f \in goroutines, HandlerTimeout(f) PROVE g = h
    BY <1>0, <1>1, <2>5 DEF HandlerTimeout, OneEach, Goroutines
  <2>6. CASE UNCHANGED goroutines
    BY <1>1, <2>6 DEF OneEach
  <2> QED
    BY <2>1, <2>2, <2>3, <2>4, <2>5, <2>6
       DEF Next, vars, Subscribe, Unsubscribe, Start, Exit, SkipHandler, EventDone, Receive,
           Publish, PublishSend, PublishStopped, PublishDrop
<1>2. ASSUME NEW g \in goroutines', g.event = loop'.event
      PROVE  \E i \in 1..Len(loop'.copy) : loop'.copy[i] = g.handler /\ Reached(i)'
  <2>1. CASE Receive
    <3>1. eventChan # <<>> /\ loop'.event = eventChan[1] /\ 1 \in 1..Len(eventChan)
      BY <2>1, QueueTail DEF Receive
    <3>2. g \in goroutines
      BY <2>1 DEF Receive
    <3>3. Taken(g.event.id)
      BY <3>2 DEF TakenOnce
    <3> QED
      BY <1>2, <3>1, <3>3 DEF Taken
  <2>2. CASE EventDone /\ loop'.event = Idle
    <3>1. g \in Goroutines
      BY <1>0, <2>2 DEF EventDone
    <3> QED
      BY <1>2, <2>2, <3>1, IdleIsNoEvent DEF Goroutines
  <2>3. CASE loop'.event = loop.event /\ loop'.copy = loop.copy /\ Inherited(g)
    <3>1. PICK f \in goroutines : g.event = f.event /\ g.handler = f.handler
      BY <2>3 DEF Inherited
    <3>2. PICK i \in 1..Len(loop.copy) : loop.copy[i] = f.handler /\ Reached(i)
      BY <1>2, <2>3, <3>1 DEF OneEach
    <3>3. i \in Nat
      BY LoopNumbers
    <3> QED
      BY <2>3, <3>1, <3>2, <3>3, LoopReach
  <2>4. CASE StartHandler /\ g.handler = loop.copy[loop.next]
    <3>1. /\ loop.next \in 1..Len(loop.copy)
          /\ loop'.copy = loop.copy /\ loop'.next = loop.next /\ loop'.at = "wait"
      BY <1>0, <2>4, LoopNumbers DEF StartHandler, Loops, TypeOK
    <3> QED
      BY <2>4, <3>1 DEF Reached
  <2> QED
    BY <2>1, <2>2, <2>3, <2>4, LoopEvent, GoroutineOrigin
<1> QED
  BY <1>1, <1>2 DEF OneEach

LEMMA LiveNext ==
  TypeOK /\ LoopShape /\ OneEach /\ LiveIsAwaited /\ [Next]_vars => LiveIsAwaited'
<1> SUFFICES ASSUME TypeOK, LoopShape, OneEach, LiveIsAwaited, [Next]_vars
             PROVE  LiveIsAwaited'
  OBVIOUS
<1>0. loop \in Loops /\ goroutines \subseteq Goroutines
  BY DEF TypeOK
<1>1. CASE Stop
  BY <1>0, <1>1 DEF Stop, LiveIsAwaited, Goroutines
<1>2. CASE StartHandler
  <2> DEFINE started == [handler |-> loop.copy[loop.next], event |-> loop.event,
                         returned |-> FALSE, cancelled |-> cancelled]
  <2>1. goroutines' = goroutines \cup {started}
    BY <1>2 DEF StartHandler
  <2>2. /\ loop'.at = "wait" /\ loop'.event = loop.event /\ loop'.copy = loop.copy
        /\ loop'.next = loop.next
    BY <1>0, <1>2 DEF StartHandler, Loops
  <2>3. \A g : g = started => Awaited(g)'
    BY <2>2 DEF Awaited
  <2>4. \A g \in goroutines : g.cancelled
    BY <1>2 DEF StartHandler, LiveIsAwaited, Awaited
  <2> HIDE DEF started
  <2>5. ASSUME NEW g \in goroutines', ~ g.cancelled PROVE Awaited(g)'
    BY <2>1, <2>3, <2>4, <2>5
  <2> QED
    BY <2>5 DEF LiveIsAwaited
<1>3. ASSUME NEW g \in goroutines, HandlerReturns(g) PROVE LiveIsAwaited'
  BY <1>0, <1>3 DEF HandlerReturns, LiveIsAwaited, Awaited, Goroutines
<1>4. ASSUME NEW g \in goroutines, HandlerDone(g) \/ HandlerTimeout(g) PROVE LiveIsAwaited'
  <2>1. Awaited(g)
    BY <1>4 DEF HandlerDone, HandlerTimeout
  <2>2. \A h \in goroutines : h # g => h.cancelled
    BY <2>1 DEF LiveIsAwaited, OneEach, Awaited
  <2>3. \A h \in goroutines' : h.cancelled
    BY <1>0, <1>4, <2>2 DEF HandlerDone, HandlerTimeout, Goroutines
  <2> QED
    BY <2>3 DEF LiveIsAwaited
<1>5. CASE Start \/ Exit \/ SkipHandler \/ EventDone \/ Receive
  <2>1. goroutines' = goroutines /\ \A g \in goroutines : g.cancelled
    BY <1>5 DEF Start, Exit, SkipHandler, EventDone, Receive, LiveIsAwaited, Awaited
  <2> QED
    BY <2>1 DEF LiveIsAwaited
<1>6. CASE UNCHANGED <<goroutines, loop>>
  BY <1>6 DEF LiveIsAwaited, Awaited
<1> QED
  BY <1>1, <1>2, <1>3, <1>4, <1>5, <1>6
     DEF Next, vars, Subscribe, Unsubscribe, Publish, PublishSend, PublishStopped, PublishDrop

LEMMA OfferedNext ==
  TypeOK /\ LoopShape /\ ReachedIsOffered /\ [Next]_vars => ReachedIsOffered'
<1> SUFFICES ASSUME TypeOK, LoopShape, ReachedIsOffered, [Next]_vars
             PROVE  ReachedIsOffered'
  OBVIOUS
<1>0. /\ loop \in Loops /\ loop.next \in Nat /\ Len(loop.copy) \in Nat
      /\ loop.copy \in Seq(Handlers)
  BY LoopNumbers DEF TypeOK
<1>1. CASE Receive
  BY <1>1, LenProperties DEF Receive, ReachedIsOffered, Reached, TypeOK
<1>2. CASE EventDone
  <2>1. loop'.copy = <<>>
    BY <1>0, <1>2 DEF EventDone, Loops
  <2> QED
    BY <2>1, EmptySeq DEF ReachedIsOffered
<1>3. CASE StartHandler
  <2>1. /\ loop'.at = "wait" /\ loop'.event = loop.event /\ loop'.copy = loop.copy
        /\ loop'.next = loop.next
    BY <1>0, <1>3 DEF StartHandler, Loops
  <2>2. offered' = offered \cup {<<loop.copy[loop.next], loop.event.id>>}
    BY <1>3 DEF StartHandler
  <2> QED
    BY <1>0, <2>1, <2>2 DEF ReachedIsOffered, Reached, CanHandle
<1>4. CASE SkipHandler
  <2>1. /\ loop'.at = "dispatch" /\ loop'.event = loop.event /\ loop'.copy = loop.copy
        /\ loop'.next = loop.next + 1 /\ offered' = offered
    BY <1>0, <1>4 DEF SkipHandler, Loops
  <2>2. ~ CanHandle(loop.copy[loop.next], loop.event)
    BY <1>4 DEF SkipHandler
  <2>3. \A i \in 1..Len(loop.copy) : Reached(i)' => Reached(i) \/ i = loop.next
    BY <1>0, <2>1 DEF Reached
  <2> QED
    BY <2>1, <2>2, <2>3 DEF ReachedIsOffered, CanHandle
<1>5. CASE loop.at = "wait" /\ NextHandler /\ offered' = offered
  <2>1. /\ loop'.at = "dispatch" /\ loop'.event = loop.event /\ loop'.copy = loop.copy
        /\ loop'.next = loop.next + 1
    BY <1>0, <1>5 DEF NextHandler, Loops
  <2>2. \A i \in 1..Len(loop.copy) : Reached(i)' => Reached(i)
    BY <1>0, <1>5, <2>1 DEF Reached
  <2> QED
    BY <1>5, <2>1, <2>2 DEF ReachedIsOffered, CanHandle
<1>6. CASE (Start \/ Exit) /\ offered' = offered
  <2>1. loop'.copy = <<>>
    BY <1>0, <1>6 DEF Start, Exit, LoopShape, Loops
  <2> QED
    BY <2>1, EmptySeq DEF ReachedIsOffered
<1>7. CASE UNCHANGED <<loop, offered>>
  BY <1>7 DEF ReachedIsOffered, Reached, CanHandle
<1> QED
  BY <1>1, <1>2, <1>3, <1>4, <1>5, <1>6, <1>7
     DEF Next, vars, Subscribe, Unsubscribe, Start, Stop, Exit, Publish, PublishSend,
         PublishStopped, PublishDrop, HandlerReturns, HandlerDone, HandlerTimeout, Awaited

-----------------------------------------------------------------------------
(* The theorems                                                            *)

LEMMA TurnsInit == Init => TurnsInv
<1> SUFFICES ASSUME Init PROVE TurnsInv
  OBVIOUS
<1>1. TypeOK /\ Len(<<>>) = 0
  BY TypeInit, EmptySeq
<1> QED
  BY <1>1, EventBusAssumption
     DEF TurnsInv, Init, LoopShape, NoneTwice, NoRepeats, OnePlace, TakenOnce, OneEach,
         LiveIsAwaited, ReachedIsOffered, Idle

LEMMA TurnsNext == TurnsInv /\ [Next]_vars => TurnsInv'
  BY TypeNext, ShapeNext, NoneTwiceNext, OnePlaceNext, TakenOnceNext, OneEachNext, LiveNext,
     OfferedNext DEF TurnsInv

\* The bus keeps its types, whoever publishes, subscribes, stops it or never returns: the
\* channel holds at most BufferSize events, and the loop is between two events or holds one.
THEOREM Typing == Spec => []TypeOK
<1>1. TurnsInv => TypeOK
  BY DEF TurnsInv
<1> QED
  BY TurnsInit, TurnsNext, <1>1, PTL DEF Spec

\* An event the loop lets go has been offered to every handler of its copy.
LEMMA LeavesOffered ==
  ASSUME TurnsInv, [Next]_vars, loop.event # Idle, loop'.event # loop.event,
         NEW i \in 1..Len(loop.copy), CanHandle(loop.copy[i], loop.event)
  PROVE  <<loop.copy[i], loop.event.id>> \in offered
<1>0. TypeOK /\ LoopShape /\ ReachedIsOffered
  BY DEF TurnsInv
<1>1. CASE Receive
  BY <1>0, <1>1 DEF Receive, LoopShape
<1>2. CASE EventDone
  <2>1. i < loop.next
    BY <1>0, <1>2, LoopNumbers DEF EventDone
  <2> QED
    BY <1>0, <2>1 DEF ReachedIsOffered, Reached
<1> QED
  BY <1>0, <1>1, <1>2, LoopEvent

\* Handlers take turns, however many there are, whatever they accept and however often one
\* of them is given up on: only the one the loop waits for runs with a live context, and no
\* event is left before every handler in the copy that accepts it was started on it.
THEOREM Turns == Spec => HandlersTakeTurns
<1>1. TurnsInv => LiveIsAwaited
  BY DEF TurnsInv
<1>2. TurnsInv /\ [Next]_vars =>
        [loop.event # Idle /\ loop'.event # loop.event =>
             \A i \in 1..Len(loop.copy) :
                 CanHandle(loop.copy[i], loop.event) =>
                     <<loop.copy[i], loop.event.id>> \in offered]_vars
  BY LeavesOffered
<1> QED
  BY TurnsInit, TurnsNext, <1>1, <1>2, PTL DEF Spec, HandlersTakeTurns, LiveIsAwaited

-----------------------------------------------------------------------------
(* The refinement                                                          *)

LEMMA PromiseInit == Init => Promise!Init
  BY DEF Init, Promise!Init

\* Each step of the bus is one of the queue, or none.
LEMMA PromiseNext == TurnsInv /\ [Next]_vars => [Promise!Next]_(Promise!vars)
<1> SUFFICES ASSUME TurnsInv, [Next]_vars PROVE [Promise!Next]_(Promise!vars)
  OBVIOUS
<1>0. TypeOK /\ LoopShape /\ loop \in Loops
  BY DEF TurnsInv, TypeOK
<1>1. ASSUME NEW p \in Publishers, PublishSend(p) PROVE Promise!Next
  <2>1. publishing[p] \in Events
    BY <1>0, <1>1, PublishingType DEF PublishSend
  <2>2. Promise!Enqueue(publishing[p])
    BY <1>1 DEF PublishSend, Promise!Enqueue
  <2> QED
    BY <2>1, <2>2 DEF Promise!Next
<1>2. CASE Receive
  <2>1. loop.event = Idle /\ loop.at = "select" /\ loop'.at = "dispatch"
    BY <1>0, <1>2 DEF Receive, LoopShape
  <2>2. loop'.event = Head(eventChan) /\ Head(eventChan) \in Events
    BY <1>0, <1>2, HeadTailProperties DEF Receive, TypeOK
  <2>3. Promise!Dequeue
    BY <1>2, <2>1, <2>2, IdleIsNoEvent DEF Receive, Promise!Dequeue
  <2> QED
    BY <2>1, <2>3 DEF Promise!Next
<1>3. CASE EventDone
  <2>1. loop.event # Idle /\ loop'.event = Idle /\ loop.at # "done" /\ loop'.at = "select"
    BY <1>0, <1>3, IdleIsNoEvent DEF EventDone, LoopShape, Loops
  <2>2. Promise!Complete
    BY <1>3, <2>1 DEF EventDone, Promise!Complete
  <2> QED
    BY <2>1, <2>2 DEF Promise!Next
<1>4. CASE Exit
  <2>1. loop.at # "done" /\ loop'.at = "done" /\ loop.event = Idle /\ loop'.event = Idle
    BY <1>0, <1>4 DEF Exit, LoopShape, Loops
  <2>2. Promise!Close
    BY <1>4, <2>1 DEF Exit, Promise!Close
  <2> QED
    BY <2>2 DEF Promise!Next
<1>5. CASE /\ eventChan' = eventChan /\ loop'.event = loop.event
           /\ (loop'.at = "done") = (loop.at = "done")
  BY <1>5 DEF Promise!vars
<1>6. CASE Start \/ SkipHandler \/ StartHandler
  BY <1>0, <1>5, <1>6 DEF Start, SkipHandler, StartHandler, Loops
<1>7. ASSUME NEW g \in goroutines, HandlerDone(g) \/ HandlerTimeout(g)
      PROVE  [Promise!Next]_(Promise!vars)
  BY <1>0, <1>5, <1>7 DEF HandlerDone, HandlerTimeout, Awaited, NextHandler, Loops
<1> QED
  BY <1>1, <1>2, <1>3, <1>4, <1>5, <1>6, <1>7
     DEF Next, vars, Subscribe, Unsubscribe, Stop, Publish, PublishStopped, PublishDrop,
         HandlerReturns

\* The bus is the queue it promises to be: first in first out, never more than its capacity,
\* one event at a time, none lost while it is open - for every number of publishers and
\* handlers, and whichever of them time out or are refused.
THEOREM Refinement == Spec => ImplementsEventQueue
<1> QED
  BY TurnsInit, TurnsNext, PromiseInit, PromiseNext, PTL DEF Spec, Promise!Spec, ImplementsEventQueue

-----------------------------------------------------------------------------
(* SecretsDebounce: types                                                  *)

\* A generation is one more than the one before it, and 0 after a claim: there are never
\* more of them than events were delivered.
DebounceInv ==
    /\ DebounceTypeOK
    /\ events <= changes
    /\ generation <= changes - events

LEMMA DebounceNumbers ==
  ASSUME DebounceTypeOK
  PROVE  /\ MaxChanges \in Nat /\ changes \in Nat /\ events \in Nat /\ deployed \in Nat
         /\ current \in Nat /\ generation \in Nat
         /\ changes <= MaxChanges /\ deployed <= changes
BY DebounceAssumption DEF DebounceTypeOK

\* A goroutine's timer goes to its next place, and keeps its generation.
LEMMA MovesTyped ==
  ASSUME DebounceTypeOK, NEW t \in Timers,
         NEW at \in {"unmade", "armed", "fired", "waits", "claimed", "deploys", "over"},
         Moves(t, at)
  PROVE  timer' \in [Timers -> [at : {"unmade", "armed", "fired", "waits", "claimed",
                                      "deploys", "over"}, gen : 0..MaxChanges]]
BY DEF DebounceTypeOK, Moves

LEMMA DebounceInvNext ==
  ASSUME DebounceInv, [DebounceNext]_debounceVars
  PROVE  DebounceInv'
<1>t. DebounceTypeOK /\ events <= changes /\ generation <= changes - events
  BY DEF DebounceInv
<1>n. /\ MaxChanges \in Nat /\ changes \in Nat /\ events \in Nat /\ deployed \in Nat
      /\ current \in Nat /\ generation \in Nat
      /\ changes <= MaxChanges /\ deployed <= changes
  BY <1>t, DebounceNumbers
<1>1. CASE SecretsChange
  BY <1>1, <1>t, <1>n DEF SecretsChange, DebounceInv, DebounceTypeOK
<1>2. CASE Handle
  <2>1. generation + 1 \in 0..MaxChanges /\ events - 1 \in 0..MaxChanges
    BY <1>2, <1>t, <1>n DEF Handle
  <2>2. PICK t \in Timers :
          /\ current' = t
          /\ timer' = [s \in Timers |->
                IF s = t THEN [at |-> "armed", gen |-> generation + 1]
                ELSE IF s = current /\ timer[s].at = "armed"
                     THEN [timer[s] EXCEPT !.at = "over"]
                     ELSE timer[s]]
    BY <1>2 DEF Handle
  <2>3. timer' \in [Timers -> [at : {"unmade", "armed", "fired", "waits", "claimed",
                                     "deploys", "over"}, gen : 0..MaxChanges]]
    BY <1>t, <2>1, <2>2 DEF DebounceTypeOK
  <2>4. current' \in 0..MaxChanges
    BY <1>n, <2>2 DEF Timers
  <2> QED
    BY <1>2, <1>t, <1>n, <2>1, <2>3, <2>4 DEF Handle, DebounceInv, DebounceTypeOK
<1>3. ASSUME NEW t \in Timers, TimerStep(t) PROVE DebounceInv'
  <2>1. timer' \in [Timers -> [at : {"unmade", "armed", "fired", "waits", "claimed",
                                     "deploys", "over"}, gen : 0..MaxChanges]]
    BY <1>3, <1>t, MovesTyped
    DEF TimerStep, TimerFires, ChecksContext, Claims, NoRoute, DeployReadsSecrets, DeployEnds
  <2>2. failed' \in BOOLEAN /\ UNCHANGED <<changes, events, handler>>
    BY <1>3, <1>t DEF TimerStep, TimerFires, ChecksContext, Claims, NoRoute,
                      DeployReadsSecrets, DeployEnds, DebounceTypeOK
  <2>3. deployed' \in {deployed, changes} /\ current' \in {0, current}
        /\ generation' \in {0, generation}
    BY <1>3 DEF TimerStep, TimerFires, ChecksContext, Claims, NoRoute, DeployReadsSecrets,
                DeployEnds
  <2> QED
    BY <1>t, <1>n, <2>1, <2>2, <2>3 DEF DebounceInv, DebounceTypeOK
<1>4. CASE StopCancels
  BY <1>4, <1>t, <1>n DEF StopCancels, DebounceInv, DebounceTypeOK
<1>5. CASE StopClears
  <2>1. timer' \in [Timers -> [at : {"unmade", "armed", "fired", "waits", "claimed",
                                     "deploys", "over"}, gen : 0..MaxChanges]]
    BY <1>5, <1>t DEF StopClears, DebounceTypeOK
  <2> QED
    BY <1>5, <1>t, <1>n, <2>1 DEF StopClears, DebounceInv, DebounceTypeOK
<1>6. CASE UNCHANGED debounceVars
  BY <1>6, <1>t, <1>n DEF debounceVars, DebounceInv, DebounceTypeOK
<1> QED
  BY <1>1, <1>2, <1>3, <1>4, <1>5, <1>6 DEF DebounceNext

LEMMA DebounceInvInit == DebounceInit => DebounceInv
<1> SUFFICES ASSUME DebounceInit PROVE DebounceInv
  OBVIOUS
<1>1. 0 \in 0..MaxChanges /\ changes = 0 /\ events = 0 /\ generation = 0
  BY DebounceAssumption DEF DebounceInit
<1>2. timer \in [Timers -> [at : {"unmade", "armed", "fired", "waits", "claimed",
                                  "deploys", "over"}, gen : 0..MaxChanges]]
  BY <1>1 DEF DebounceInit
<1>3. /\ deployed \in 0..changes /\ current \in 0..MaxChanges
      /\ handler \in {"runs", "cancelled", "stopped"}
  BY <1>1 DEF DebounceInit
<1>4. failed \in BOOLEAN
  BY DEF DebounceInit
<1> QED
  BY <1>1, <1>2, <1>3, <1>4 DEF DebounceInv, DebounceTypeOK

-----------------------------------------------------------------------------
(* TcpConnections: types, and what a stop leaves                           *)

\* What the counter counts: everything but what the loop has just accepted.
Counted == {c \in TcpClients : tcp[c].at \notin {"outside", "accepted"}}

Unmade == {s \in Servers : server[s] = "unmade"}

\* The mutex is the manager's or the stopper's, while one of them is inside.
ReplacesAlone ==
    /\ replaceMu = "manager" <=> manager.at \in {"installs", "takes", "shuts"}
    /\ replaceMu = "stopper" <=> stopper.at = "shuts"
    /\ manager.at = "installs" \/ (manager.op = "replace" /\ manager.at = "locks") =>
          Unmade # {}
    /\ manager.at = "shuts" => manager.old \in Servers /\ server[manager.old] # "unmade"
    /\ stopper.at = "shuts" => stopper.old \in Servers /\ server[stopper.old] # "unmade"
    /\ installed # 0 => server[installed] # "unmade"

\* The order of stop(): nothing is accepted behind the loop, nothing installed behind the
\* flag, and nothing is left when it says so.
StopsInOrder ==
    /\ stopper.at # "idle" => closed
    /\ stopper.at \notin {"idle", "unbinds"} => ~ bound /\ accepting # "new"
    /\ stopper.at \in {"locks", "shuts", "drains", "forces", "stopped"} => accepting = "over"
    /\ stopper.at \in {"shuts", "drains", "forces", "stopped"} => installed = 0
    /\ stopper.at = "stopped" => Working = {}

TcpInv == TcpTypeOK /\ ReplacesAlone /\ StopsInOrder

TcpPlaces == Handling \cup Handled \cup {"outside", "accepted", "over", "reserved"}

Connection == [at : TcpPlaces, client : BOOLEAN, backend : {"none", "open", "closed"},
               closing : BOOLEAN, via : 0..MaxServers]

LEMMA CountedIsFinite ==
  /\ IsFiniteSet(Counted) /\ Cardinality(Counted) \in Nat
  /\ Counted = {c \in Working : tcp[c].at # "accepted"}
<1>1. Counted \in SUBSET TcpClients
  BY DEF Counted
<1>2. Counted = {c \in Working : tcp[c].at # "accepted"}
  BY DEF Counted, Working
<1> QED
  BY <1>1, <1>2, FS_Subset, FS_CardinalityType, TcpAssumption

LEMMA OutsideIsTyped ==
  /\ Outside \in Connection /\ Outside.at = "outside"
  /\ Resting.at = "idle" /\ Resting.op = "none" /\ Resting.old = 0 /\ 0 \in 0..MaxServers
BY TcpAssumption DEF Outside, Connection, TcpPlaces, Resting

LEMMA GoesTyped ==
  ASSUME tcp \in [TcpClients -> Connection], NEW c \in TcpClients, NEW at \in TcpPlaces,
         Goes(c, at)
  PROVE  /\ tcp' \in [TcpClients -> Connection]
         /\ tcp'[c].at = at
         /\ \A d \in TcpClients \ {c} : tcp'[d] = tcp[d]
<1>1. [tcp[c] EXCEPT !.at = at] \in Connection /\ [tcp[c] EXCEPT !.at = at].at = at
  BY DEF Connection
<1>2. tcp' = [tcp EXCEPT ![c] = [tcp[c] EXCEPT !.at = at]]
  BY DEF Goes
<1> QED
  BY <1>1, <1>2

LEMMA CompletesTyped ==
  ASSUME tcp \in [TcpClients -> Connection], NEW c \in TcpClients, Completes(c)
  PROVE  /\ tcp' \in [TcpClients -> Connection]
         /\ tcp'[c].at = "outside" /\ counted' = counted - 1
         /\ \A d \in TcpClients \ {c} : tcp'[d] = tcp[d]
BY OutsideIsTyped DEF Completes

\* What a step of one connection does to the counter.
Tallies(c) ==
    \/ (tcp[c].at \in {"outside", "accepted"}) = (tcp'[c].at \in {"outside", "accepted"})
       /\ counted' = counted
    \/ /\ tcp[c].at = "accepted" /\ tcp'[c].at \notin {"outside", "accepted"}
       /\ counted' = counted + 1
    \/ /\ tcp[c].at \notin {"outside", "accepted"} /\ tcp'[c].at \in {"outside", "accepted"}
       /\ counted' = counted - 1

\* One that keeps the books, and comes from the loop if it comes at all, keeps everything.
LEMMA ConnectionStep ==
  ASSUME TcpInv, NEW c \in TcpClients, HandleOnly, Tallies(c),
         tcp' \in [TcpClients -> Connection], \A d \in TcpClients \ {c} : tcp'[d] = tcp[d],
         tcp[c].at # "outside" \/ accepting = "runs"
  PROVE  TcpInv'
<1>t. TcpTypeOK /\ ReplacesAlone /\ StopsInOrder
  BY DEF TcpInv
<1>c. IsFiniteSet(Counted) /\ Cardinality(Counted) \in Nat /\ counted = Cardinality(Counted)
  BY <1>t, CountedIsFinite DEF TcpTypeOK
<1>1. counted' = Cardinality(Counted')
  <2>1. CASE (tcp[c].at \in {"outside", "accepted"}) = (tcp'[c].at \in {"outside", "accepted"})
             /\ counted' = counted
    <3>1. Counted' = Counted
      BY <2>1 DEF Counted
    <3> QED
      BY <2>1, <3>1, <1>c
  <2>2. CASE /\ tcp[c].at = "accepted" /\ tcp'[c].at \notin {"outside", "accepted"}
             /\ counted' = counted + 1
    <3>1. Counted' = Counted \cup {c} /\ c \notin Counted
      BY <2>2 DEF Counted
    <3> QED
      BY <2>2, <3>1, <1>c, FS_AddElement
  <2>3. CASE /\ tcp[c].at \notin {"outside", "accepted"}
             /\ tcp'[c].at \in {"outside", "accepted"}
             /\ counted' = counted - 1
    <3>1. Counted' = Counted \ {c} /\ c \in Counted
      BY <2>3 DEF Counted
    <3> QED
      BY <2>3, <3>1, <1>c, FS_RemoveElement
  <2> QED
    BY <2>1, <2>2, <2>3 DEF Tallies
<1>2. counted' = Cardinality({d \in Working : tcp[d].at # "accepted"})'
  <2>1. Counted' = {d \in Working : tcp[d].at # "accepted"}'
    BY DEF Counted, Working
  <2> QED
    BY <1>1, <2>1
<1>3. TcpTypeOK'
  <2>1. (TcpTypeOK!1)'
    BY DEF Connection, TcpPlaces
  <2>2. (TcpTypeOK!2)'
    BY <1>2
  <2>3. bound' \in BOOLEAN /\ closed' \in BOOLEAN /\ ctxDone' \in BOOLEAN
    BY <1>t DEF TcpTypeOK, HandleOnly
  <2> QED
    BY <1>t, <2>1, <2>2, <2>3 DEF TcpTypeOK, HandleOnly
<1>4. ReplacesAlone'
  BY <1>t DEF ReplacesAlone, Unmade, HandleOnly
<1>5. StopsInOrder'
  <2>1. stopper.at = "stopped" => Working' = {}
    <3> SUFFICES ASSUME stopper.at = "stopped" PROVE Working' = {}
      OBVIOUS
    <3>1. Working = {} /\ accepting = "over"
      BY <1>t DEF StopsInOrder
    <3>2. tcp[c].at = "outside"
      BY <3>1 DEF Working
    <3> QED
      BY <3>1, <3>2
  <2> QED
    BY <2>1, <1>t DEF StopsInOrder, HandleOnly
<1> QED
  BY <1>3, <1>4, <1>5 DEF TcpInv

\* Every step of a connection of its own.
LEMMA ConnectionInv ==
  ASSUME TcpInv, NEW c \in TcpClients,
         \/ AcceptsConnection(c) \/ HandlerStep(c) \/ CopyEnds(c) \/ QueueStep(c)
         \/ Hijacks(c) \/ ServeEnds(c) \/ ClosesStale(c)
  PROVE  TcpInv'
<1>t. /\ TcpTypeOK /\ tcp \in [TcpClients -> Connection] /\ tcp[c] \in Connection
      /\ installed \in 0..MaxServers
  BY DEF TcpInv, TcpTypeOK, Connection, TcpPlaces
<1>p. /\ {"over", "reserved", "sniffs", "dials", "dialled", "copies", "routes", "queued",
          "held", "served", "hijacked", "outside", "accepted"} \subseteq TcpPlaces
  BY DEF TcpPlaces, Handling, Handled
<1>e. ASSUME NEW x \in Connection, tcp' = [tcp EXCEPT ![c] = x]
      PROVE  /\ tcp' \in [TcpClients -> Connection] /\ tcp'[c] = x
             /\ \A d \in TcpClients \ {c} : tcp'[d] = tcp[d]
  BY <1>e, <1>t
<1>1. CASE AcceptsConnection(c)
  <2>1. [[tcp[c] EXCEPT !.at = "accepted"] EXCEPT !.client = TRUE] \in Connection
        /\ [[tcp[c] EXCEPT !.at = "accepted"] EXCEPT !.client = TRUE].at = "accepted"
    BY <1>t, <1>p DEF Connection
  <2>2. tcp' = [tcp EXCEPT ![c] = [[tcp[c] EXCEPT !.at = "accepted"] EXCEPT !.client = TRUE]]
    BY <1>1, <1>t DEF AcceptsConnection
  <2>3. tcp[c].at = "outside" /\ tcp'[c].at = "accepted" /\ UNCHANGED counted
    BY <1>1, <1>e, <2>1, <2>2, OutsideIsTyped DEF AcceptsConnection
  <2>4. Tallies(c) /\ HandleOnly
    BY <1>1, <2>3 DEF AcceptsConnection, Tallies, HandleOnly
  <2> QED
    BY <1>1, <1>e, <2>1, <2>2, <2>4, ConnectionStep DEF AcceptsConnection
<1>2. CASE Reserves(c)
  <2>1. PICK at \in {"reserved", "over"} : Goes(c, at)
    BY <1>2 DEF Reserves
  <2>2. Tallies(c) /\ HandleOnly /\ tcp[c].at # "outside"
    BY <1>2, <1>t, <1>p, <2>1, GoesTyped DEF Reserves, Tallies
  <2> QED
    BY <1>t, <1>p, <2>1, <2>2, GoesTyped, ConnectionStep
\* The connection is counted, and is over or goes on.
<1>g. ASSUME HandleOnly, tcp[c].at \notin {"outside", "accepted"},
             \/ Completes(c)
             \/ /\ UNCHANGED counted
                /\ \E at \in TcpPlaces \ {"outside", "accepted"} : Goes(c, at)
      PROVE  TcpInv'
  <2>1. CASE Completes(c)
    <3>1. Tallies(c)
      BY <1>g, <1>t, <2>1, CompletesTyped DEF Tallies
    <3> QED
      BY <1>g, <1>t, <2>1, <3>1, CompletesTyped, ConnectionStep
  <2>2. ASSUME NEW at \in TcpPlaces \ {"outside", "accepted"}, Goes(c, at), UNCHANGED counted
        PROVE  TcpInv'
    <3>1. Tallies(c)
      BY <1>g, <1>t, <2>2, GoesTyped DEF Tallies
    <3> QED
      BY <1>g, <1>t, <2>2, <3>1, GoesTyped, ConnectionStep
  <2> QED
    BY <1>g, <2>1, <2>2
\* It goes on with something else changed as well.
<1>x. ASSUME HandleOnly, tcp[c].at \notin {"outside", "accepted"}, UNCHANGED counted,
             NEW x \in Connection, tcp' = [tcp EXCEPT ![c] = x],
             x.at \notin {"outside", "accepted"}
      PROVE  TcpInv'
  <2>1. Tallies(c)
    BY <1>x, <1>e DEF Tallies
  <2> QED
    BY <1>x, <1>e, <2>1, ConnectionStep
<1>3. CASE Refuses(c)
  BY <1>3, <1>g DEF Refuses
<1>4. CASE Tracks(c)
  BY <1>4, <1>g, <1>p DEF Tracks
<1>5. CASE Sniffs(c)
  <2>1. [[tcp[c] EXCEPT !.at = "routes"] EXCEPT !.via = installed] \in Connection
        /\ [[tcp[c] EXCEPT !.at = "routes"] EXCEPT !.via = installed].at = "routes"
    BY <1>t, <1>p DEF Connection
  <2>2. CASE tcp' = [tcp EXCEPT ![c].at = "routes", ![c].via = installed] /\ UNCHANGED counted
    <3>1. tcp' = [tcp EXCEPT ![c] = [[tcp[c] EXCEPT !.at = "routes"] EXCEPT !.via = installed]]
      BY <2>2, <1>t
    <3> QED
      BY <1>5, <1>x, <2>1, <2>2, <3>1 DEF Sniffs
  <2> QED
    BY <1>5, <1>g, <1>p, <2>2 DEF Sniffs
<1>6. CASE Dials(c)
  <2>1. [[tcp[c] EXCEPT !.at = "dialled"] EXCEPT !.backend = "open"] \in Connection
        /\ [[tcp[c] EXCEPT !.at = "dialled"] EXCEPT !.backend = "open"].at = "dialled"
    BY <1>t, <1>p DEF Connection
  <2>2. CASE tcp' = [tcp EXCEPT ![c].at = "dialled", ![c].backend = "open"]
             /\ UNCHANGED counted
    <3>1. tcp' = [tcp EXCEPT ![c] = [[tcp[c] EXCEPT !.at = "dialled"] EXCEPT !.backend = "open"]]
      BY <2>2, <1>t
    <3> QED
      BY <1>6, <1>x, <2>1, <2>2, <3>1 DEF Dials
  <2> QED
    BY <1>6, <1>g, <1>p, <2>2 DEF Dials
<1>7. CASE SetsBackend(c)
  <2> DEFINE next == [[tcp[c] EXCEPT !.at = "copies"]
                        EXCEPT !.backend = IF tcp[c].closing THEN "closed" ELSE @]
  <2>1. next \in Connection /\ next.at = "copies"
    BY <1>t, <1>p DEF Connection
  <2>2. tcp' = [tcp EXCEPT ![c] = next]
    BY <1>7, <1>t DEF SetsBackend
  <2> HIDE DEF next
  <2> QED
    BY <1>7, <1>x, <2>1, <2>2 DEF SetsBackend
<1>8. CASE CopyEnds(c)
  BY <1>8, <1>g DEF CopyEnds
<1>9. CASE Routes(c)
  BY <1>9, <1>g, <1>p DEF Routes
<1>10. CASE TakesQueued(c)
  BY <1>10, <1>g, <1>p DEF TakesQueued
<1>11. CASE ServesHeld(c)
  BY <1>11, <1>g, <1>p DEF ServesHeld
<1>12. CASE Hijacks(c)
  <2>1. [[tcp[c] EXCEPT !.at = "hijacked"] EXCEPT !.via = 0] \in Connection
        /\ [[tcp[c] EXCEPT !.at = "hijacked"] EXCEPT !.via = 0].at = "hijacked"
    BY <1>t, <1>p, OutsideIsTyped DEF Connection
  <2>2. tcp' = [tcp EXCEPT ![c] = [[tcp[c] EXCEPT !.at = "hijacked"] EXCEPT !.via = 0]]
    BY <1>12, <1>t DEF Hijacks
  <2> QED
    BY <1>12, <1>x, <2>1, <2>2 DEF Hijacks
<1>13. CASE ServeEnds(c)
  BY <1>13, <1>g DEF ServeEnds
<1>14. CASE ClosesStale(c)
  <2>1. Shut(tcp[c]) \in Connection /\ Shut(tcp[c]).at = tcp[c].at
    BY <1>t DEF Shut, Connection
  <2>2. tcp' = [tcp EXCEPT ![c] = Shut(tcp[c])]
    BY <1>14, <1>t DEF ClosesStale
  <2>3. tcp[c].at \notin {"outside", "accepted"}
    BY <1>14 DEF ClosesStale, Tracked, Handling, Handled
  <2> QED
    BY <1>14, <1>x, <2>1, <2>2, <2>3 DEF ClosesStale
<1> QED
  BY <1>1, <1>2, <1>3, <1>4, <1>5, <1>6, <1>7, <1>8, <1>9, <1>10, <1>11, <1>12, <1>13, <1>14
  DEF HandlerStep, QueueStep

\* What a server closes was counted.
LEMMA WithoutKeeps ==
  ASSUME TcpInv, NEW s, NEW places, places \subseteq Handled, Without(s, places)
  PROVE  (TcpTypeOK!1)' /\ (TcpTypeOK!2)' /\ (Working = {} => Working' = {})
<1> DEFINE gone == {c \in TcpClients : tcp[c].via = s /\ tcp[c].at \in places}
<1>t. /\ tcp \in [TcpClients -> Connection] /\ IsFiniteSet(Counted)
      /\ Cardinality(Counted) \in Nat /\ counted = Cardinality(Counted)
  BY CountedIsFinite DEF TcpInv, TcpTypeOK, Connection, TcpPlaces
<1>1. /\ tcp' = [c \in TcpClients |-> IF c \in gone THEN Outside ELSE tcp[c]]
      /\ counted' = counted - Cardinality(gone)
  BY DEF Without
<1>2. gone \in SUBSET Counted
  BY DEF Counted, Handled
<1> HIDE DEF gone
<1>3. tcp' \in [TcpClients -> Connection]
  BY <1>t, <1>1, OutsideIsTyped
<1>4. Counted' = Counted \ gone
  BY <1>1, OutsideIsTyped DEF Counted
<1>5. Cardinality(Counted \ gone) = Cardinality(Counted) - Cardinality(gone)
  <2>1. /\ gone \in SUBSET Counted /\ Counted \ gone \in SUBSET Counted
        /\ (Counted \ gone) \cup gone = Counted /\ (Counted \ gone) \cap gone = {}
    BY <1>2
  <2>2. IsFiniteSet(gone) /\ IsFiniteSet(Counted \ gone)
    BY <1>t, <2>1, FS_Subset
  <2>3. Cardinality(gone) \in Nat /\ Cardinality(Counted \ gone) \in Nat
    BY <2>2, FS_CardinalityType
  <2>4. Cardinality(Counted) = Cardinality(Counted \ gone) + Cardinality(gone) - Cardinality({})
    BY <2>1, <2>2, FS_Union
  <2> QED
    BY <1>t, <2>3, <2>4, FS_EmptySet
<1>6. Counted' = {c \in Working : tcp[c].at # "accepted"}'
  BY DEF Counted, Working
<1>7. Working = {} => Working' = {}
  BY <1>1, OutsideIsTyped DEF Working
<1>8. (TcpTypeOK!1)'
  BY <1>3 DEF Connection, TcpPlaces
<1>9. (TcpTypeOK!2)'
  BY <1>t, <1>1, <1>4, <1>5, <1>6
<1> QED
  BY <1>7, <1>8, <1>9

\* A step that leaves the connections alone leaves their types and their number alone.
LEMMA ConnectionsStay ==
  ASSUME TcpTypeOK, UNCHANGED <<tcp, counted>>
  PROVE  (TcpTypeOK!1)' /\ (TcpTypeOK!2)' /\ Working' = Working
<1>1. Working' = Working /\ {c \in Working : tcp[c].at # "accepted"}'
                              = {c \in Working : tcp[c].at # "accepted"}
  BY DEF Working
<1> QED
  BY <1>1 DEF TcpTypeOK

ManagerRecord == [at : {"idle", "locks", "installs", "takes", "shuts"},
                  op : {"none", "replace", "remove"}, old : 0..MaxServers]
StopperRecord == [at : {"idle", "unbinds", "awaits loop", "locks", "shuts", "drains",
                        "forces", "stopped", "gave up"},
                  op : {"none"}, old : 0..MaxServers]

\* What the rest of the types say.
LEMMA TcpRest ==
  ASSUME TcpTypeOK
  PROVE  /\ accepting \in {"new", "runs", "over"}
         /\ bound \in BOOLEAN /\ closed \in BOOLEAN /\ ctxDone \in BOOLEAN
         /\ installed \in 0..MaxServers /\ installed \in Nat /\ MaxServers \in Nat
         /\ server \in [Servers -> {"unmade", "serves", "drains", "down"}]
         /\ replaceMu \in {"free", "manager", "stopper"}
         /\ manager \in ManagerRecord
         /\ stopper \in StopperRecord
         /\ Resting \in ManagerRecord
<1>1. /\ bound \in BOOLEAN /\ closed \in BOOLEAN /\ ctxDone \in BOOLEAN
      /\ installed \in 0..MaxServers /\ accepting \in {"new", "runs", "over"}
      /\ server \in [Servers -> {"unmade", "serves", "drains", "down"}]
      /\ replaceMu \in {"free", "manager", "stopper"}
  BY DEF TcpTypeOK
<1>2. installed \in Nat /\ MaxServers \in Nat
  BY <1>1, TcpAssumption
<1>3. /\ manager \in ManagerRecord
      /\ stopper \in StopperRecord
  BY DEF TcpTypeOK, ManagerRecord, StopperRecord
<1>4. Resting \in ManagerRecord
  BY OutsideIsTyped DEF Resting, ManagerRecord
<1> QED
  BY <1>1, <1>2, <1>3, <1>4

\* The types from their parts.
LEMMA TcpTyped ==
  ASSUME (TcpTypeOK!1)', (TcpTypeOK!2)',
         accepting' \in {"new", "runs", "over"},
         bound' \in BOOLEAN, closed' \in BOOLEAN, ctxDone' \in BOOLEAN,
         installed' \in 0..MaxServers,
         server' \in [Servers -> {"unmade", "serves", "drains", "down"}],
         replaceMu' \in {"free", "manager", "stopper"},
         manager' \in ManagerRecord, stopper' \in StopperRecord
  PROVE  TcpTypeOK'
BY DEF TcpTypeOK, ManagerRecord, StopperRecord

LEMMA ManagerGoes ==
  ASSUME NEW m \in ManagerRecord,
         NEW at \in {"idle", "locks", "installs", "takes", "shuts"},
         NEW o \in 0..MaxServers, NEW op \in {"none", "replace", "remove"}
  PROVE  /\ [m EXCEPT !.at = at] \in ManagerRecord
         /\ [m EXCEPT !.at = at].at = at /\ [m EXCEPT !.at = at].op = m.op
         /\ [m EXCEPT !.at = at, !.old = o] \in ManagerRecord
         /\ [m EXCEPT !.at = at, !.old = o].at = at /\ [m EXCEPT !.at = at, !.old = o].old = o
         /\ [m EXCEPT !.at = at, !.op = op] \in ManagerRecord
         /\ [m EXCEPT !.at = at, !.op = op].at = at /\ [m EXCEPT !.at = at, !.op = op].op = op
BY DEF ManagerRecord

LEMMA StopperMoves ==
  ASSUME NEW m \in StopperRecord,
         NEW at \in {"idle", "unbinds", "awaits loop", "locks", "shuts", "drains", "forces",
                     "stopped", "gave up"},
         NEW o \in 0..MaxServers
  PROVE  /\ [m EXCEPT !.at = at] \in StopperRecord /\ [m EXCEPT !.at = at].at = at
         /\ [m EXCEPT !.at = at, !.old = o] \in StopperRecord
         /\ [m EXCEPT !.at = at, !.old = o].at = at /\ [m EXCEPT !.at = at, !.old = o].old = o
BY DEF StopperRecord

\* The loop, the calls of stop and its steps before the lock, the end of its context.
LEMMA LoopInv ==
  ASSUME TcpInv, Starts \/ LoopEnds \/ CallStop \/ Unbinds \/ AwaitsLoop \/ Forces \/ CtxEnds
  PROVE  TcpInv'
<1>t. TcpTypeOK /\ ReplacesAlone /\ StopsInOrder
  BY DEF TcpInv
<1>r. /\ accepting \in {"new", "runs", "over"}
      /\ bound \in BOOLEAN /\ closed \in BOOLEAN /\ ctxDone \in BOOLEAN
      /\ installed \in 0..MaxServers /\ installed \in Nat /\ MaxServers \in Nat
      /\ server \in [Servers -> {"unmade", "serves", "drains", "down"}]
      /\ replaceMu \in {"free", "manager", "stopper"}
      /\ manager \in ManagerRecord /\ stopper \in StopperRecord /\ Resting \in ManagerRecord
  BY <1>t, TcpRest
<1>s. (TcpTypeOK!1)' /\ (TcpTypeOK!2)' /\ Working' = Working
  BY <1>t, ConnectionsStay
  DEF Starts, LoopEnds, CallStop, Unbinds, AwaitsLoop, Forces, CtxEnds
<1>u. UNCHANGED <<installed, server, replaceMu, manager>>
  BY DEF Starts, LoopEnds, CallStop, Unbinds, AwaitsLoop, Forces, CtxEnds
<1>m. \/ UNCHANGED stopper
      \/ \E at \in {"unbinds", "awaits loop", "locks", "stopped", "gave up"} :
            stopper' = [stopper EXCEPT !.at = at]
  BY DEF Starts, LoopEnds, CallStop, Unbinds, AwaitsLoop, Forces, CtxEnds, StopperGoes
<1>1. stopper' \in StopperRecord /\ (UNCHANGED stopper \/ stopper'.at # "shuts")
  <2>1. ASSUME NEW at \in {"unbinds", "awaits loop", "locks", "stopped", "gave up"},
               stopper' = [stopper EXCEPT !.at = at]
        PROVE  stopper' \in StopperRecord /\ stopper'.at = at
    BY <1>r, <2>1 DEF StopperRecord
  <2> QED
    BY <1>r, <1>m, <2>1
<1>2. accepting' \in {"new", "runs", "over"}
  BY <1>r DEF Starts, LoopEnds, CallStop, Unbinds, AwaitsLoop, Forces, CtxEnds
<1>3. bound' \in BOOLEAN /\ closed' \in BOOLEAN /\ ctxDone' \in BOOLEAN
  BY <1>r DEF Starts, LoopEnds, CallStop, Unbinds, AwaitsLoop, Forces, CtxEnds
<1>4. TcpTypeOK'
  BY <1>r, <1>s, <1>u, <1>1, <1>2, <1>3, TcpTyped
<1>5. ReplacesAlone'
  <2>1. CASE UNCHANGED stopper
    BY <1>t, <1>u, <2>1 DEF ReplacesAlone, Unmade
  <2>2. CASE ~ UNCHANGED stopper
    <3>1. stopper'.at # "shuts"
      BY <1>1, <2>2
    <3>2. stopper.at # "shuts"
      BY <1>t, <2>2
      DEF Starts, LoopEnds, CallStop, Unbinds, AwaitsLoop, Forces, CtxEnds, StopsInOrder
    <3> QED
      BY <1>t, <1>u, <3>1, <3>2 DEF ReplacesAlone, Unmade
  <2> QED
    BY <2>1, <2>2
<1>6. StopsInOrder'
  <2>1. CASE Starts \/ LoopEnds \/ CtxEnds
    <3>1. UNCHANGED <<stopper, closed, bound>> /\ accepting' \in {accepting, "runs", "over"}
          /\ (accepting' = "runs" => ~ closed \/ accepting = "runs")
      BY <2>1 DEF Starts, LoopEnds, CtxEnds
    <3> QED
      BY <1>t, <1>s, <1>u, <3>1 DEF StopsInOrder
  <2>2. CASE CallStop
    <3>1. closed' = TRUE /\ stopper'.at = "unbinds"
      BY <1>r, <2>2, StopperMoves, OutsideIsTyped DEF CallStop
    <3> QED
      BY <3>1 DEF StopsInOrder
  <2>3. CASE Unbinds
    <3>1. stopper'.at = "awaits loop" /\ bound' = FALSE /\ accepting' # "new" /\ closed'
      BY <1>t, <1>r, <2>3, StopperMoves, OutsideIsTyped DEF Unbinds, StopsInOrder
    <3> QED
      BY <3>1 DEF StopsInOrder
  <2>4. CASE AwaitsLoop
    <3>1. stopper'.at \in {"locks", "gave up"} /\ (stopper'.at = "locks" => accepting = "over")
      <4>1. CASE accepting = "over" /\ stopper' = [stopper EXCEPT !.at = "locks"]
        BY <1>r, <4>1, StopperMoves, OutsideIsTyped
      <4>2. CASE stopper' = [stopper EXCEPT !.at = "gave up"]
        BY <1>r, <4>2, StopperMoves, OutsideIsTyped
      <4> QED
        BY <2>4, <4>1, <4>2 DEF AwaitsLoop, StopperGoes
    <3> QED
      BY <1>t, <1>s, <2>4, <3>1 DEF AwaitsLoop, StopsInOrder
  <2>5. CASE Forces
    <3>1. stopper'.at \in {"stopped", "gave up"} /\ (stopper'.at = "stopped" => Working = {})
      <4>1. CASE Working = {} /\ stopper' = [stopper EXCEPT !.at = "stopped"]
        BY <1>r, <4>1, StopperMoves, OutsideIsTyped
      <4>2. CASE stopper' = [stopper EXCEPT !.at = "gave up"]
        BY <1>r, <4>2, StopperMoves, OutsideIsTyped
      <4> QED
        BY <2>5, <4>1, <4>2 DEF Forces, StopperGoes
    <3> QED
      BY <1>t, <1>s, <2>5, <3>1 DEF Forces, StopsInOrder
  <2> QED
    BY <2>1, <2>2, <2>3, <2>4, <2>5
<1> QED
  BY <1>4, <1>5, <1>6 DEF TcpInv

\* Somebody closes the listener, or the server, that he has under the mutex.
LEMMA ServerShuts ==
  ASSUME TcpInv, NEW s \in Servers, server[s] # "unmade", ClosesListener(s) \/ ShutsDown(s)
  PROVE  /\ (TcpTypeOK!1)' /\ (TcpTypeOK!2)' /\ (Working = {} => Working' = {})
         /\ server' \in [Servers -> {"unmade", "serves", "drains", "down"}]
         /\ Unmade' = Unmade
         /\ \A u \in Servers : server'[u] = "unmade" <=> server[u] = "unmade"
<1>1. /\ server' \in [Servers -> {"unmade", "serves", "drains", "down"}]
      /\ \A u \in Servers : server'[u] = "unmade" <=> server[u] = "unmade"
  BY DEF ClosesListener, ShutsDown, TcpInv, TcpTypeOK
<1>2. Unmade' = Unmade
  BY <1>1 DEF Unmade
<1>3. (TcpTypeOK!1)' /\ (TcpTypeOK!2)' /\ (Working = {} => Working' = {})
  BY WithoutKeeps DEF ClosesListener, ShutsDown, Handled
<1> QED
  BY <1>1, <1>2, <1>3

\* There is a first one among the servers that are not made yet.
LEMMA FirstUnmade ==
  ASSUME Unmade # {}
  PROVE  \E s \in Servers : server[s] = "unmade" /\ \A t \in 1..(s - 1) : server[t] # "unmade"
<1>1. Unmade \subseteq Nat
  BY TcpAssumption DEF Unmade, Servers
<1>2. PICK s \in Unmade : \A t \in Unmade : ~ (<<t, s>> \in OpToRel(<, Nat))
  BY <1>1, NatLessThanWellFounded, WFMin
<1>3. \A t \in Unmade : ~ (t < s)
  BY <1>1, <1>2 DEF OpToRel
<1>4. ASSUME NEW t \in 1..(s - 1) PROVE server[t] # "unmade"
  BY <1>3, <1>4, TcpAssumption DEF Unmade, Servers
<1> QED
  BY <1>4 DEF Unmade

\* A refresh of the server by the manager.
LEMMA ManagerInv ==
  ASSUME TcpInv,
         (\E op \in {"replace", "remove"} : CallRefresh(op)) \/ ManagerStep
  PROVE  TcpInv'
<1>t. TcpTypeOK /\ ReplacesAlone /\ StopsInOrder
  BY DEF TcpInv
<1>r. /\ accepting \in {"new", "runs", "over"}
      /\ bound \in BOOLEAN /\ closed \in BOOLEAN /\ ctxDone \in BOOLEAN
      /\ installed \in 0..MaxServers /\ installed \in Nat /\ MaxServers \in Nat
      /\ server \in [Servers -> {"unmade", "serves", "drains", "down"}]
      /\ replaceMu \in {"free", "manager", "stopper"}
      /\ manager \in ManagerRecord /\ stopper \in StopperRecord /\ Resting \in ManagerRecord
  BY <1>t, TcpRest
<1>u. UNCHANGED <<accepting, bound, closed, stopper, ctxDone>>
  BY DEF CallRefresh, ManagerStep, ManagerLocks, Installs, ManagerTakes, ManagerShuts
<1>1. ASSUME NEW op \in {"replace", "remove"}, CallRefresh(op) PROVE TcpInv'
  <2>1. /\ manager' \in ManagerRecord /\ manager'.at = "locks" /\ manager'.op = op
    <3>1. manager' = [at |-> "locks", op |-> op, old |-> 0]
      BY <1>1 DEF CallRefresh, Resting
    <3>2. 0 \in 0..MaxServers
      BY TcpAssumption
    <3> QED
      BY <3>1, <3>2 DEF ManagerRecord
  <2>2. manager.at = "idle" /\ (op = "replace" => Unmade # {})
    BY <1>1, OutsideIsTyped DEF CallRefresh, Unmade
  <2>3. (TcpTypeOK!1)' /\ (TcpTypeOK!2)' /\ Working' = Working
        /\ UNCHANGED <<installed, server, replaceMu>>
    BY <1>1, <1>t, ConnectionsStay DEF CallRefresh
  <2>4. TcpTypeOK'
    BY <1>r, <1>u, <2>1, <2>3, TcpTyped
  <2>5. ReplacesAlone'
    BY <1>t, <1>u, <2>1, <2>2, <2>3 DEF ReplacesAlone, Unmade
  <2>6. StopsInOrder'
    BY <1>t, <1>u, <2>3 DEF StopsInOrder
  <2> QED
    BY <2>4, <2>5, <2>6 DEF TcpInv
<1>2. CASE ManagerLocks
  <2>1. \/ manager' = Resting /\ UNCHANGED replaceMu
        \/ /\ manager' = [manager EXCEPT !.at = IF manager.op = "replace" THEN "installs"
                                                 ELSE "takes"]
           /\ replaceMu' = "manager"
    BY <1>2 DEF ManagerLocks
  <2>2. manager.at = "locks" /\ replaceMu = "free"
    BY <1>2 DEF ManagerLocks
  <2>3. (TcpTypeOK!1)' /\ (TcpTypeOK!2)' /\ Working' = Working
        /\ UNCHANGED <<installed, server>>
    BY <1>2, <1>t, ConnectionsStay DEF ManagerLocks
  <2>4. CASE manager' = Resting /\ UNCHANGED replaceMu
    <3>1. TcpTypeOK'
      BY <1>r, <1>u, <2>3, <2>4, TcpTyped
    <3>2. ReplacesAlone'
      BY <1>t, <1>u, <2>2, <2>3, <2>4, OutsideIsTyped DEF ReplacesAlone, Unmade
    <3> QED
      BY <1>t, <1>u, <2>3, <3>1, <3>2 DEF TcpInv, StopsInOrder
  <2>5. CASE /\ manager' = [manager EXCEPT !.at = IF manager.op = "replace" THEN "installs"
                                                  ELSE "takes"]
             /\ replaceMu' = "manager"
    <3>1. /\ manager' \in ManagerRecord /\ manager'.at \in {"installs", "takes"}
          /\ manager'.at = "installs" => manager.op = "replace"
      BY <1>r, <2>5 DEF ManagerRecord
    <3>2. TcpTypeOK'
      BY <1>r, <1>u, <2>3, <2>5, <3>1, TcpTyped
    <3>3. ReplacesAlone'
      BY <1>t, <1>u, <2>2, <2>3, <2>5, <3>1 DEF ReplacesAlone, Unmade
    <3> QED
      BY <1>t, <1>u, <2>3, <3>2, <3>3 DEF TcpInv, StopsInOrder
  <2> QED
    BY <2>1, <2>4, <2>5
\* What it does when it has taken the old server out.
<1>m. ASSUME ManagerRests(installed), manager.at \in {"installs", "takes"}
      PROVE  /\ manager' \in ManagerRecord /\ replaceMu' \in {"free", "manager", "stopper"}
             /\ replaceMu' = "manager" <=> manager'.at \in {"installs", "takes", "shuts"}
             /\ replaceMu' = "stopper" <=> stopper.at = "shuts"
             /\ manager'.at \in {"idle", "shuts"}
             /\ manager'.at = "shuts" => manager'.old = installed /\ installed # 0
  <2>1. replaceMu = "manager" /\ stopper.at # "shuts"
    BY <1>t, <1>m DEF ReplacesAlone
  <2>2. CASE installed = 0
    BY <1>m, <1>r, <2>1, <2>2, OutsideIsTyped DEF ManagerRests
  <2>3. CASE installed # 0
    <3>1. /\ manager' = [manager EXCEPT !.at = "shuts", !.old = installed]
          /\ UNCHANGED replaceMu
      BY <1>m, <2>3 DEF ManagerRests
    <3>2. manager' \in ManagerRecord /\ manager'.at = "shuts" /\ manager'.old = installed
      BY <1>r, <3>1 DEF ManagerRecord
    <3> QED
      BY <2>1, <2>3, <3>1, <3>2
  <2> QED
    BY <2>2, <2>3
<1>3. CASE Installs
  <2>2. (TcpTypeOK!1)' /\ (TcpTypeOK!2)' /\ Working' = Working /\ manager.at = "installs"
    BY <1>3, <1>t, ConnectionsStay DEF Installs
  <2>3. CASE closed
    <3>1. manager' = Resting /\ replaceMu' = "free" /\ UNCHANGED <<installed, server>>
      BY <1>3, <2>3 DEF Installs
    <3>2. replaceMu = "manager"
      BY <1>t, <2>2 DEF ReplacesAlone
    <3>3. TcpTypeOK'
      BY <1>r, <1>u, <2>2, <3>1, TcpTyped
    <3>4. ReplacesAlone'
      BY <1>t, <1>u, <3>1, <3>2, OutsideIsTyped DEF ReplacesAlone, Unmade
    <3> QED
      BY <1>t, <1>u, <2>2, <3>1, <3>3, <3>4 DEF TcpInv, StopsInOrder
  <2>4. CASE ~ closed
    <3> DEFINE new == CHOOSE s \in Servers : /\ server[s] = "unmade"
                                             /\ \A t \in 1..(s - 1) : server[t] # "unmade"
    <3>1. new \in Servers /\ server[new] = "unmade"
      BY <1>t, <2>2, FirstUnmade DEF ReplacesAlone
    <3>2. /\ installed' = new /\ server' = [server EXCEPT ![new] = "serves"]
          /\ ManagerRests(installed)
      BY <1>3, <2>4 DEF Installs
    <3> HIDE DEF new
    <3>3. installed' \in 0..MaxServers
      BY <1>r, <3>1, <3>2 DEF Servers
    <3>4. /\ server' \in [Servers -> {"unmade", "serves", "drains", "down"}]
          /\ server'[new] = "serves"
          /\ \A u \in Servers \ {new} : server'[u] = server[u]
      BY <1>r, <3>1, <3>2
    <3>5. TcpTypeOK'
      BY <1>r, <1>u, <1>m, <2>2, <3>2, <3>3, <3>4, TcpTyped
    <3>6. ReplacesAlone'
      <4>1. replaceMu = "manager" /\ stopper.at # "shuts"
        BY <1>t, <2>2 DEF ReplacesAlone
      <4>2. installed # 0 => installed \in Servers /\ server'[installed] # "unmade"
        BY <1>t, <1>r, <3>1, <3>4 DEF ReplacesAlone, Servers
      <4> QED
        BY <1>u, <1>m, <2>2, <3>2, <3>4, <4>1, <4>2 DEF ReplacesAlone
    <3>7. StopsInOrder'
      BY <1>t, <1>u, <2>2, <2>4 DEF StopsInOrder
    <3> QED
      BY <3>5, <3>6, <3>7 DEF TcpInv
  <2> QED
    BY <2>3, <2>4
<1>4. CASE ManagerTakes
  <2>1. (TcpTypeOK!1)' /\ (TcpTypeOK!2)' /\ Working' = Working /\ manager.at = "takes"
        /\ installed' = 0 /\ ManagerRests(installed) /\ UNCHANGED server
    BY <1>4, <1>t, ConnectionsStay DEF ManagerTakes
  <2>2. TcpTypeOK'
    BY <1>r, <1>u, <1>m, <2>1, OutsideIsTyped, TcpTyped
  <2>3. ReplacesAlone'
    <3>1. replaceMu = "manager" /\ stopper.at # "shuts"
      BY <1>t, <2>1 DEF ReplacesAlone
    <3>2. installed # 0 => installed \in Servers /\ server[installed] # "unmade"
      BY <1>t, <1>r DEF ReplacesAlone, Servers
    <3> QED
      BY <1>u, <1>m, <2>1, <3>1, <3>2 DEF ReplacesAlone
  <2>4. StopsInOrder'
    BY <1>t, <1>u, <2>1 DEF StopsInOrder
  <2> QED
    BY <2>2, <2>3, <2>4 DEF TcpInv
<1>5. CASE ManagerShuts
  <2>1. /\ manager.at = "shuts" /\ manager.old \in Servers /\ server[manager.old] # "unmade"
        /\ replaceMu = "manager" /\ stopper.at # "shuts"
        /\ ClosesListener(manager.old) \/ ShutsDown(manager.old)
        /\ UNCHANGED installed
    BY <1>5, <1>t DEF ManagerShuts, ReplacesAlone
  <2>2. /\ (TcpTypeOK!1)' /\ (TcpTypeOK!2)' /\ (Working = {} => Working' = {})
        /\ server' \in [Servers -> {"unmade", "serves", "drains", "down"}]
        /\ Unmade' = Unmade
        /\ \A u \in Servers : server'[u] = "unmade" <=> server[u] = "unmade"
    BY <2>1, ServerShuts
  <2>3. \/ UNCHANGED <<manager, replaceMu>>
        \/ manager' = Resting /\ replaceMu' = "free"
    BY <1>5 DEF ManagerShuts
  <2>4. TcpTypeOK'
    BY <1>r, <1>u, <2>1, <2>2, <2>3, TcpTyped
  <2>5. ReplacesAlone'
    <3>1. installed # 0 => server'[installed] # "unmade"
      BY <1>t, <1>r, <2>2 DEF ReplacesAlone, Servers
    <3> QED
      BY <1>t, <1>u, <2>1, <2>2, <2>3, <3>1, OutsideIsTyped DEF ReplacesAlone
  <2>6. StopsInOrder'
    BY <1>t, <1>u, <2>1, <2>2 DEF StopsInOrder
  <2> QED
    BY <2>4, <2>5, <2>6 DEF TcpInv
<1> QED
  BY <1>1, <1>2, <1>3, <1>4, <1>5 DEF ManagerStep

\* stop() with the mutex, and the drain that follows.
LEMMA StopperInv ==
  ASSUME TcpInv, StopperLocks \/ StopperShuts \/ Drains
  PROVE  TcpInv'
<1>t. TcpTypeOK /\ ReplacesAlone /\ StopsInOrder
  BY DEF TcpInv
<1>r. /\ accepting \in {"new", "runs", "over"}
      /\ bound \in BOOLEAN /\ closed \in BOOLEAN /\ ctxDone \in BOOLEAN
      /\ installed \in 0..MaxServers /\ installed \in Nat /\ MaxServers \in Nat
      /\ server \in [Servers -> {"unmade", "serves", "drains", "down"}]
      /\ replaceMu \in {"free", "manager", "stopper"}
      /\ manager \in ManagerRecord /\ stopper \in StopperRecord /\ Resting \in ManagerRecord
  BY <1>t, TcpRest
<1>u. UNCHANGED <<accepting, bound, closed, manager, ctxDone>>
  BY DEF StopperLocks, StopperShuts, Drains
<1>a. ASSUME NEW at \in {"stopped", "forces", "drains"}, StopperGoes(at)
      PROVE  stopper' \in StopperRecord /\ stopper'.at = at
  BY <1>r, <1>a DEF StopperGoes, StopperRecord
<1>1. CASE StopperLocks
  <2>1. (TcpTypeOK!1)' /\ (TcpTypeOK!2)' /\ Working' = Working /\ UNCHANGED server
    BY <1>1, <1>t, ConnectionsStay DEF StopperLocks
  <2>2. stopper.at = "locks" /\ replaceMu = "free" /\ installed' = 0 /\ 0 \in 0..MaxServers
    BY <1>1, OutsideIsTyped DEF StopperLocks
  <2>3. /\ stopper' \in StopperRecord /\ replaceMu' \in {"free", "manager", "stopper"}
        /\ stopper'.at \in {"drains", "shuts"}
        /\ stopper'.at = "shuts" => stopper'.old = installed /\ installed # 0
        /\ replaceMu' = "manager" <=> manager.at \in {"installs", "takes", "shuts"}
        /\ replaceMu' = "stopper" <=> stopper'.at = "shuts"
    <3>1. manager.at \notin {"installs", "takes", "shuts"}
      BY <1>t, <2>2 DEF ReplacesAlone
    <3>2. CASE installed = 0
      BY <1>1, <1>a, <2>2, <3>1, <3>2 DEF StopperLocks
    <3>3. CASE installed # 0
      <4>1. /\ stopper' = [stopper EXCEPT !.at = "shuts", !.old = installed]
            /\ replaceMu' = "stopper"
        BY <1>1, <3>3 DEF StopperLocks
      <4>2. stopper' \in StopperRecord /\ stopper'.at = "shuts" /\ stopper'.old = installed
        BY <1>r, <4>1 DEF StopperRecord
      <4> QED
        BY <3>1, <3>3, <4>1, <4>2
    <3> QED
      BY <3>2, <3>3
  <2>4. TcpTypeOK'
    BY <1>r, <1>u, <2>1, <2>2, <2>3, TcpTyped
  <2>5. ReplacesAlone'
    <3>1. installed # 0 => installed \in Servers /\ server[installed] # "unmade"
      BY <1>t, <1>r DEF ReplacesAlone, Servers
    <3> QED
      BY <1>t, <1>u, <2>1, <2>2, <2>3, <3>1 DEF ReplacesAlone, Unmade
  <2>6. StopsInOrder'
    BY <1>t, <1>u, <2>2, <2>3 DEF StopsInOrder
  <2> QED
    BY <2>4, <2>5, <2>6 DEF TcpInv
<1>2. CASE StopperShuts
  <2>1. /\ stopper.at = "shuts" /\ stopper.old \in Servers /\ server[stopper.old] # "unmade"
        /\ replaceMu = "stopper" /\ manager.at \notin {"installs", "takes", "shuts"}
        /\ ClosesListener(stopper.old) \/ ShutsDown(stopper.old)
        /\ UNCHANGED installed
    BY <1>2, <1>t DEF StopperShuts, ReplacesAlone
  <2>2. /\ (TcpTypeOK!1)' /\ (TcpTypeOK!2)'
        /\ server' \in [Servers -> {"unmade", "serves", "drains", "down"}]
        /\ Unmade' = Unmade
        /\ \A u \in Servers : server'[u] = "unmade" <=> server[u] = "unmade"
    BY <2>1, ServerShuts
  <2>3. \/ UNCHANGED <<stopper, replaceMu>>
        \/ stopper' \in StopperRecord /\ stopper'.at = "drains" /\ replaceMu' = "free"
    BY <1>2, <1>a DEF StopperShuts
  <2>4. TcpTypeOK'
    BY <1>r, <1>u, <2>1, <2>2, <2>3, TcpTyped
  <2>5. ReplacesAlone'
    <3>1. installed # 0 => server'[installed] # "unmade"
      BY <1>t, <1>r, <2>2 DEF ReplacesAlone, Servers
    <3> QED
      BY <1>t, <1>u, <2>1, <2>2, <2>3, <3>1 DEF ReplacesAlone
  <2>6. StopsInOrder'
    BY <1>t, <1>u, <2>1, <2>3 DEF StopsInOrder
  <2> QED
    BY <2>4, <2>5, <2>6 DEF TcpInv
<1>3. CASE Drains
  <2>1. UNCHANGED <<counted, installed, server, replaceMu>> /\ stopper.at = "drains"
    BY <1>3 DEF Drains
  <2>2. stopper' \in StopperRecord /\ stopper'.at \in {"stopped", "forces"}
    BY <1>3, <1>a DEF Drains
  <2>3. (TcpTypeOK!1)' /\ (TcpTypeOK!2)' /\ Working' = Working
    <3>1. CASE UNCHANGED tcp
      BY <1>t, <2>1, <3>1, ConnectionsStay
    <3>2. CASE tcp' = [c \in TcpClients |-> IF c \in Tracked THEN Shut(tcp[c]) ELSE tcp[c]]
      <4>1. ASSUME NEW t \in Connection PROVE Shut(t) \in Connection /\ Shut(t).at = t.at
        BY DEF Shut, Connection
      <4>2. tcp \in [TcpClients -> Connection] /\ counted = Cardinality(Counted)
        BY <1>t DEF TcpTypeOK, Connection, TcpPlaces, Counted, Working
      <4>3. tcp' \in [TcpClients -> Connection]
        BY <3>2, <4>1, <4>2
      <4>4. \A c \in TcpClients : tcp'[c].at = tcp[c].at
        BY <3>2, <4>1, <4>2
      <4>5. Working' = Working /\ Counted' = Counted
        BY <4>4 DEF Working, Counted
      <4>6. (TcpTypeOK!1)'
        BY <4>3 DEF Connection, TcpPlaces
      <4>7. Counted' = {c \in Working : tcp[c].at # "accepted"}'
        BY DEF Counted, Working
      <4>8. (TcpTypeOK!2)'
        BY <2>1, <4>2, <4>5, <4>7
      <4> QED
        BY <4>5, <4>6, <4>8
    <3> QED
      BY <1>3, <3>1, <3>2 DEF Drains
  <2>4. stopper'.at = "stopped" => Working = {}
    BY <1>3, <1>a DEF Drains
  <2>5. TcpTypeOK'
    BY <1>r, <1>u, <2>1, <2>2, <2>3, TcpTyped
  <2>6. ReplacesAlone'
    BY <1>t, <1>u, <2>1, <2>2 DEF ReplacesAlone, Unmade
  <2>7. StopsInOrder'
    BY <1>t, <1>u, <2>1, <2>2, <2>3, <2>4 DEF StopsInOrder
  <2> QED
    BY <2>5, <2>6, <2>7 DEF TcpInv
<1> QED
  BY <1>1, <1>2, <1>3

LEMMA TcpInvInit == TcpInit => TcpInv
<1> SUFFICES ASSUME TcpInit PROVE TcpInv
  OBVIOUS
<1>1. 0 \in 0..MaxServers /\ Outside \in Connection
  BY OutsideIsTyped
<1>2. /\ manager = [at |-> "idle", op |-> "none", old |-> 0]
      /\ stopper = [at |-> "idle", op |-> "none", old |-> 0]
      /\ tcp = [c \in TcpClients |-> Outside] /\ Outside.at = "outside"
  BY OutsideIsTyped DEF TcpInit, Resting
<1>3. tcp \in [TcpClients -> Connection] /\ Working = {}
  BY <1>1, <1>2 DEF Working
<1>4. {c \in Working : tcp[c].at # "accepted"} = {}
  BY <1>3
<1>5. counted = Cardinality({c \in Working : tcp[c].at # "accepted"})
  BY <1>4, FS_EmptySet DEF TcpInit
<1>6. manager \in ManagerRecord /\ stopper \in StopperRecord
  BY <1>1, <1>2 DEF ManagerRecord, StopperRecord
<1>7. bound \in BOOLEAN /\ closed \in BOOLEAN /\ ctxDone \in BOOLEAN
  BY DEF TcpInit
<1>8. /\ accepting = "new" /\ installed = 0 /\ replaceMu = "free"
      /\ server \in [Servers -> {"unmade", "serves", "drains", "down"}]
  BY DEF TcpInit
<1>9. TcpTypeOK
  BY <1>1, <1>3, <1>5, <1>6, <1>7, <1>8
  DEF TcpTypeOK, Connection, TcpPlaces, ManagerRecord, StopperRecord
<1>10. ReplacesAlone /\ StopsInOrder
  BY <1>2, <1>8 DEF ReplacesAlone, StopsInOrder
<1> QED
  BY <1>9, <1>10 DEF TcpInv

LEMMA TcpInvNext ==
  ASSUME TcpInv, [TcpNext]_tcpVars
  PROVE  TcpInv'
<1>1. CASE UNCHANGED tcpVars
  <2>1. Working' = Working /\ Unmade' = Unmade
    BY <1>1 DEF tcpVars, Working, Unmade
  <2>2. ReplacesAlone' /\ StopsInOrder'
    BY <1>1, <2>1 DEF tcpVars, TcpInv, ReplacesAlone, StopsInOrder
  <2>3. (TcpTypeOK!1)' /\ (TcpTypeOK!2)'
    BY <1>1, ConnectionsStay DEF tcpVars, TcpInv
  <2>4. TcpTypeOK'
    BY <1>1, <2>3, TcpRest, TcpTyped DEF tcpVars, TcpInv
  <2> QED
    BY <2>2, <2>4 DEF TcpInv
<1> QED
  BY <1>1, LoopInv, ConnectionInv, ManagerInv, StopperInv DEF TcpNext, StopperStep

\* The counter is the number of the connections behind the limit, and whoever replaces or
\* removes a server has the mutex, for any number of connections and of servers
\* (adapters/in/traffic/tcp.go).
LEMMA TcpInvariant == TcpSpec => []TcpInv
<1>1. TcpInv /\ [TcpNext]_tcpVars => TcpInv'
  BY TcpInvNext
<1> QED
  BY <1>1, TcpInvInit, PTL DEF TcpSpec

\* When stop() has come to its end without giving up, no connection is left, counted or
\* served, no server is installed and the socket is closed - whatever was being accepted,
\* dialled, handed over, replaced or closed meanwhile (stop of adapters/in/traffic/tcp.go).
THEOREM StopLeavesNothing == TcpSpec => []NothingIsLeft
<1>1. TcpInv => NothingIsLeft
  <2> SUFFICES ASSUME TcpInv, Stopped PROVE Working = {} /\ counted = 0 /\ installed = 0 /\ ~ bound
    BY DEF NothingIsLeft
  <2>1. Working = {} /\ installed = 0 /\ ~ bound
    BY DEF TcpInv, StopsInOrder, Stopped
  <2>2. {c \in Working : tcp[c].at # "accepted"} = {}
    BY <2>1
  <2>3. counted = 0
    BY <2>2, FS_EmptySet DEF TcpInv, TcpTypeOK
  <2> QED
    BY <2>1, <2>3
<1> QED
  BY <1>1, TcpInvariant, PTL

-----------------------------------------------------------------------------
(* Together                                                                *)

\* Whichever part runs takes a step of its own, and the others stand still.
LEMMA PartsStep ==
  ASSUME [EventsNext]_allVars
  PROVE  /\ [Next]_vars /\ [DebounceNext]_debounceVars /\ [PreviewNext]_previewVars
         /\ [TcpNext]_tcpVars
BY DEF EventsNext, allVars

\* Every part keeps its types, for any number of publishers, handlers, changes, pushes,
\* connections and servers.
THEOREM EventsTyping == EventsSpec => []EventsTypeOK
<1>1. EventsInit => TurnsInv /\ DebounceInv /\ PreviewInv /\ TcpInv
  BY TurnsInit, DebounceInvInit, PreviewInvInit, TcpInvInit DEF EventsInit
<1>2. /\ TurnsInv /\ DebounceInv /\ PreviewInv /\ TcpInv
      /\ [EventsNext]_allVars
      => (TurnsInv /\ DebounceInv /\ PreviewInv /\ TcpInv)'
  <2> SUFFICES ASSUME TurnsInv, DebounceInv, PreviewInv, TcpInv, [EventsNext]_allVars
               PROVE  TurnsInv' /\ DebounceInv' /\ PreviewInv' /\ TcpInv'
    OBVIOUS
  <2> QED
    BY PartsStep, TurnsNext, DebounceInvNext, PreviewInvNext, TcpInvNext
<1>3. TurnsInv /\ DebounceInv /\ PreviewInv /\ TcpInv => EventsTypeOK
  BY DEF TurnsInv, DebounceInv, PreviewInv, TcpInv, EventsTypeOK
<1> QED
  BY <1>1, <1>2, <1>3, PTL DEF EventsSpec
=============================================================================
