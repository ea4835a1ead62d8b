------------------------------ MODULE EventBus ------------------------------
(***************************************************************************)
(* The in-memory event bus (adapters/out/eventbus/inmemory.go): any number *)
(* of goroutines publish into a bounded channel, one goroutine drains it   *)
(* and runs the subscribed handlers of each event one after the other, and *)
(* gives up waiting for a handler after a timeout.  A handler that is      *)
(* given up on keeps running with a cancelled context.                     *)
(*                                                                         *)
(* The event kinds, the payload and the logging are left out; an event is  *)
(* its number and its kind.                                                *)
(***************************************************************************)
EXTENDS Naturals, Sequences, FiniteSets, SequencesExt

CONSTANTS Publishers,   \* the goroutines that call Publish
          Handlers,     \* the handlers that can be subscribed
          Kinds,        \* the event types
          Accepts,      \* the event types a handler's CanHandle accepts
          BufferSize,   \* the capacity of eventChan
          MaxEvents     \* bound: how many times Publish is called

ASSUME EventBusAssumption ==
    /\ Accepts \in [Handlers -> SUBSET Kinds]
    /\ BufferSize \in Nat \ {0}
    /\ MaxEvents \in Nat

VARIABLES
    eventChan,   \* the buffered channel, oldest event first
    handlers,    \* bus.handlers, in the order they subscribed
    cancelled,   \* whether Stop has cancelled bus.ctx
    publishing,  \* per publisher, the event it is blocked on, or Idle
    loop,        \* the processing goroutine: its place, the event it holds, the
                 \* copied handler list and the index of the handler at hand
    goroutines,  \* the handler goroutines that have not returned
    published,   \* how many times Publish has been called
    offered      \* history: <<handler, event number>> of the handlers that started

vars == <<eventChan, handlers, cancelled, publishing, loop, goroutines,
          published, offered>>

Events     == [id : 1..MaxEvents, kind : Kinds]
Idle       == [id |-> 0]
Goroutines == [handler : Handlers, event : Events, returned : BOOLEAN,
               cancelled : BOOLEAN]
LoopPlaces == {"off", "select", "dispatch", "wait", "done"}
Loops      == [at : LoopPlaces, event : Events \cup {Idle}, copy : Seq(Handlers), next : Nat]

CanHandle(h, e) == e.kind \in Accepts[h]

TypeOK ==
    /\ eventChan \in Seq(Events) /\ Len(eventChan) =< BufferSize
    /\ handlers \in Seq(Handlers)
    /\ cancelled \in BOOLEAN
    /\ publishing \in [Publishers -> Events \cup {Idle}]
    /\ loop \in Loops
    /\ loop.next \in 1..(Len(loop.copy) + 1)
    /\ goroutines \subseteq Goroutines
    /\ published \in 0..MaxEvents
    /\ offered \subseteq Handlers \X (1..MaxEvents)

Init ==
    /\ eventChan = <<>>
    /\ handlers = <<>>
    /\ cancelled = FALSE
    /\ publishing = [p \in Publishers |-> Idle]
    /\ loop = [at |-> "off", event |-> Idle, copy |-> <<>>, next |-> 1]
    /\ goroutines = {}
    /\ published = 0
    /\ offered = {}

-----------------------------------------------------------------------------
(* Subscribe, Unsubscribe, Start and Stop                                  *)

Subscribe(h) ==
    /\ ~ Contains(handlers, h)      \* registerEventHandlers subscribes each once
    /\ handlers' = Append(handlers, h)
    /\ UNCHANGED <<eventChan, cancelled, publishing, loop, goroutines, published, offered>>

Unsubscribe(h) ==
    /\ \E i \in 1..Len(handlers) : handlers[i] = h /\ handlers' = RemoveAt(handlers, i)
    /\ UNCHANGED <<eventChan, cancelled, publishing, loop, goroutines, published, offered>>

Start ==
    /\ loop.at = "off"
    /\ loop' = [loop EXCEPT !.at = "select"]
    /\ UNCHANGED <<eventChan, handlers, cancelled, publishing, goroutines, published, offered>>

\* bus.cancel(): the contexts of the handlers that run derive from bus.ctx.
Stop ==
    /\ loop.at # "off"
    /\ ~ cancelled
    /\ cancelled' = TRUE
    /\ goroutines' = {[g EXCEPT !.cancelled = TRUE] : g \in goroutines}
    /\ UNCHANGED <<eventChan, handlers, publishing, loop, published, offered>>

-----------------------------------------------------------------------------
(* Publish: a select between the channel, the bus context and 5 seconds.   *)
(* When several are ready the select picks any of them, so an event may    *)
(* still be accepted after Stop.                                           *)

Publish(p, k) ==
    /\ publishing[p] = Idle
    /\ published < MaxEvents
    /\ published' = published + 1
    /\ publishing' = [publishing EXCEPT ![p] = [id |-> published', kind |-> k]]
    /\ UNCHANGED <<eventChan, handlers, cancelled, loop, goroutines, offered>>

Return(p) == publishing' = [publishing EXCEPT ![p] = Idle]

\* Mutant: send without waiting for room.
PublishSendUnbounded(p) ==
    /\ publishing[p] # Idle
    /\ eventChan' = Append(eventChan, publishing[p])
    /\ Return(p)
    /\ UNCHANGED <<handlers, cancelled, loop, goroutines, published, offered>>

PublishSend(p) ==
    /\ publishing[p] # Idle
    /\ Len(eventChan) < BufferSize
    /\ eventChan' = Append(eventChan, publishing[p])
    /\ Return(p)
    /\ UNCHANGED <<handlers, cancelled, loop, goroutines, published, offered>>

PublishStopped(p) ==
    /\ publishing[p] # Idle
    /\ cancelled
    /\ Return(p)
    /\ UNCHANGED <<eventChan, handlers, cancelled, loop, goroutines, published, offered>>

\* Mutant: a full channel makes room by forgetting its oldest event.
PublishDropOldest(p) ==
    /\ publishing[p] # Idle
    /\ Len(eventChan) = BufferSize
    /\ eventChan' = Append(Tail(eventChan), publishing[p])
    /\ Return(p)
    /\ UNCHANGED <<handlers, cancelled, loop, goroutines, published, offered>>

\* Mutant: Publish has no timeout of its own.
PublishDropNever(p) == publishing[p] # Idle /\ cancelled /\ PublishStopped(p)

\* The 5 second timer wins only against a channel that is still full.
PublishDrop(p) ==
    /\ publishing[p] # Idle
    /\ Len(eventChan) = BufferSize
    /\ Return(p)
    /\ UNCHANGED <<eventChan, handlers, cancelled, loop, goroutines, published, offered>>

-----------------------------------------------------------------------------
(* processEvents and handleEvent                                           *)

\* The handlers are copied when the event is taken, and dispatched from the copy.
Receive ==
    /\ loop.at = "select"
    /\ eventChan # <<>>
    /\ loop' = [at |-> "dispatch", event |-> Head(eventChan), copy |-> handlers,
             next |-> 1]
    /\ eventChan' = Tail(eventChan)
    /\ UNCHANGED <<handlers, cancelled, publishing, goroutines, published, offered>>

Exit ==
    /\ loop.at = "select"
    /\ cancelled
    /\ loop' = [loop EXCEPT !.at = "done"]
    /\ UNCHANGED <<eventChan, handlers, cancelled, publishing, goroutines, published, offered>>

SkipHandler ==
    /\ loop.at = "dispatch"
    /\ loop.next =< Len(loop.copy)
    /\ ~ CanHandle(loop.copy[loop.next], loop.event)
    /\ loop' = [loop EXCEPT !.next = @ + 1]
    /\ UNCHANGED <<eventChan, handlers, cancelled, publishing, goroutines, published, offered>>

StartHandler ==
    /\ loop.at = "dispatch"
    /\ loop.next =< Len(loop.copy)
    /\ LET h == loop.copy[loop.next] IN
       /\ CanHandle(h, loop.event)
       /\ goroutines' = goroutines \cup
              {[handler |-> h, event |-> loop.event, returned |-> FALSE,
                cancelled |-> cancelled]}
       /\ offered' = offered \cup {<<h, loop.event.id>>}
    /\ loop' = [loop EXCEPT !.at = "wait"]
    /\ UNCHANGED <<eventChan, handlers, cancelled, publishing, published>>

\* The goroutine whose result the loop waits for.
Awaited(g) ==
    /\ loop.at = "wait"
    /\ g.handler = loop.copy[loop.next]
    /\ g.event = loop.event

HandlerReturns(g) ==
    /\ ~ g.returned
    /\ goroutines' = IF Awaited(g)
                     THEN (goroutines \ {g}) \cup {[g EXCEPT !.returned = TRUE]}
                     ELSE goroutines \ {g}
    /\ UNCHANGED <<eventChan, handlers, cancelled, publishing, loop, published, offered>>

NextHandler == loop' = [loop EXCEPT !.at = "dispatch", !.next = @ + 1]

HandlerDone(g) ==
    /\ Awaited(g)
    /\ g.returned
    /\ goroutines' = goroutines \ {g}
    /\ NextHandler
    /\ UNCHANGED <<eventChan, handlers, cancelled, publishing, published, offered>>

\* Mutant: a timeout ends the event, not only the handler.
HandlerTimeoutAbandons(g) ==
    /\ Awaited(g)
    /\ goroutines' = IF g.returned THEN goroutines \ {g}
                     ELSE (goroutines \ {g}) \cup {[g EXCEPT !.cancelled = TRUE]}
    /\ loop' = [loop EXCEPT !.at = "dispatch", !.next = Len(loop.copy) + 1]
    /\ UNCHANGED <<eventChan, handlers, cancelled, publishing, published, offered>>

\* 30 seconds have passed, or Stop cancelled the parent context: the loop goes on
\* to the next handler and the goroutine is left behind with its context cancelled.
HandlerTimeout(g) ==
    /\ Awaited(g)
    /\ goroutines' = IF g.returned THEN goroutines \ {g}
                     ELSE (goroutines \ {g}) \cup {[g EXCEPT !.cancelled = TRUE]}
    /\ NextHandler
    /\ UNCHANGED <<eventChan, handlers, cancelled, publishing, published, offered>>

EventDone ==
    /\ loop.at = "dispatch"
    /\ loop.next > Len(loop.copy)
    /\ loop' = [loop EXCEPT !.at = "select", !.event = Idle,
                          !.copy = <<>>, !.next = 1]
    /\ UNCHANGED <<eventChan, handlers, cancelled, publishing, goroutines, published, offered>>

-----------------------------------------------------------------------------
LoopStep == Receive \/ Exit \/ SkipHandler \/ StartHandler \/ EventDone
               \/ \E g \in goroutines : HandlerDone(g)

Next ==
    \/ \E h \in Handlers : Subscribe(h) \/ Unsubscribe(h)
    \/ Start
    \/ Stop
    \/ \E p \in Publishers :
          \/ \E k \in Kinds : Publish(p, k)
          \/ PublishSend(p)
          \/ PublishStopped(p)
          \/ PublishDrop(p)
    \/ Receive \/ Exit \/ SkipHandler \/ StartHandler \/ EventDone
    \/ \E g \in goroutines :
          HandlerReturns(g) \/ HandlerDone(g) \/ HandlerTimeout(g)

Spec == Init /\ [][Next]_vars

\* The scheduler runs the loop and lets a blocked Publish finish, and the 30
\* second timer of a handler eventually fires.  No fairness is asked of the
\* handlers themselves, of Start, of Stop or of the callers of Publish.
Fairness ==
    /\ WF_vars(LoopStep)
    /\ WF_vars(\E g \in goroutines : HandlerTimeout(g))
    /\ \A p \in Publishers :
          WF_vars(PublishSend(p) \/ PublishStopped(p) \/ PublishDrop(p))

FairSpec == Spec /\ Fairness

-----------------------------------------------------------------------------
(* Properties                                                              *)

QueuedIds == {eventChan[i].id : i \in 1..Len(eventChan)}

\* Handlers take turns.  Those that overlap do so only after a timeout: of the handler
\* goroutines still running with a live context, all belong to the handler the loop is
\* waiting for.  And the time out of one does not cost the others the event: the loop
\* leaves an event only after every handler that was subscribed when it was taken, and
\* accepts it, was started on it.
HandlersTakeTurns ==
    /\ [](\A g \in goroutines : ~ g.cancelled => Awaited(g))
    /\ [][loop.event # Idle /\ loop'.event # loop.event =>
             \A i \in 1..Len(loop.copy) :
                 CanHandle(loop.copy[i], loop.event) =>
                     <<loop.copy[i], loop.event.id>> \in offered]_vars

\* Nobody waits for good.  Publish returns, also with the loop stopped or stuck in a
\* handler that never returns; and an event it has accepted is taken by the loop, unless
\* the bus is stopped: a full buffer never loses one.
NobodyWaits ==
    /\ \A p \in Publishers : publishing[p] # Idle ~> publishing[p] = Idle
    /\ \A i \in 1..MaxEvents :
          (i \in QueuedIds /\ loop.at # "off") ~> (i \notin QueuedIds \/ cancelled)

\* What the bus promises its publishers, see EventQueue.
Promise == INSTANCE EventQueue WITH
    Capacity <- BufferSize,
    queue <- eventChan,
    current <- IF loop.event = Idle THEN {} ELSE {loop.event},
    open <- loop.at # "done"

ImplementsEventQueue == Promise!Spec
=============================================================================
