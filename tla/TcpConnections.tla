---------------------------- MODULE TcpConnections ----------------------------
(***************************************************************************)
(* The connections of a TCP entry point, adapters/in/traffic/tcp.go: plain *)
(* TCP, tls_mux and smart_tcp.  A goroutine per connection counts it, looks *)
(* at its first bytes and either copies to a backend it dials or hands the *)
(* connection to an HTTP server of the entry point through the queue of a  *)
(* listener without a socket.  The server is replaced and stopped while    *)
(* connections are handed over, an update closes some connections, and     *)
(* stop() drains them all.                                                 *)
(*                                                                         *)
(* One HTTP server at a time: smart_tcp has two, with a mutex, a listener  *)
(* and a queue each.  What the first bytes say and which backends there    *)
(* are decide where a connection goes, so it may go anywhere.              *)
(***************************************************************************)
EXTENDS Naturals, FiniteSets

CONSTANTS TcpClients,      \* connections at a time
          Limits,          \* options.MaxConnections, as reloads change it
          QueueSize,       \* the capacity of a listener's queue
          MaxServers       \* bound: HTTP servers made in all

ASSUME TcpAssumption == IsFiniteSet(TcpClients) /\ MaxServers \in Nat

VARIABLES
    tcp,       \* the connections
    counted,   \* counters.activeTCPConnections
    accepting, \* acceptLoop: "new", "runs", "over"
    bound,     \* whether the socket listens
    closed,    \* r.closed; r.ctx is cancelled when the socket is closed
    installed, \* r.tlsHTTPServer with its listener, 0 for none
    server,    \* every server: its listener, and how far it is shut down
    replaceMu, \* who holds tlsHTTPReplaceMu
    manager,   \* a refresh of the server by the manager
    stopper,   \* stop()
    ctxDone    \* whether the context of stop() has ended

tcpVars == <<tcp, counted, accepting, bound, closed, installed, server, replaceMu, manager,
             stopper, ctxDone>>

Servers  == 1..MaxServers
Outside  == [at |-> "outside", client |-> FALSE, backend |-> "none", closing |-> FALSE,
             via |-> 0]
Resting  == [at |-> "idle", op |-> "none", old |-> 0]

TcpInit ==
    /\ tcp = [c \in TcpClients |-> Outside]
    /\ counted = 0
    /\ accepting = "new"
    /\ bound = TRUE
    /\ closed = FALSE
    /\ installed = 0
    /\ server = [s \in Servers |-> "unmade"]
    /\ replaceMu = "free"
    /\ manager = Resting
    /\ stopper = Resting
    /\ ctxDone = FALSE

\* Behind "handled" the goroutine of the connection is over, but not the connection.
Handling == {"sniffs", "dials", "dialled", "copies", "routes"}
Handled  == {"queued", "held", "served", "hijacked"}
Tracked  == {c \in TcpClients : tcp[c].at \in Handling \cup Handled}
Working  == {c \in TcpClients : tcp[c].at # "outside"}

TcpTypeOK ==
    /\ tcp \in [TcpClients ->
          [at : Handling \cup Handled \cup {"outside", "accepted", "over", "reserved"},
           client : BOOLEAN, backend : {"none", "open", "closed"}, closing : BOOLEAN,
           via : 0..MaxServers]]
    /\ counted = Cardinality({c \in Working : tcp[c].at # "accepted"})
    /\ accepting \in {"new", "runs", "over"}
    /\ bound \in BOOLEAN /\ closed \in BOOLEAN /\ ctxDone \in BOOLEAN
    /\ installed \in 0..MaxServers
    /\ server \in [Servers -> {"unmade", "serves", "drains", "down"}]
    /\ replaceMu \in {"free", "manager", "stopper"}
    /\ manager \in [at : {"idle", "locks", "installs", "takes", "shuts"},
                    op : {"none", "replace", "remove"}, old : 0..MaxServers]
    /\ stopper \in [at : {"idle", "unbinds", "awaits loop", "locks", "shuts", "drains",
                          "forces", "stopped", "gave up"},
                    op : {"none"}, old : 0..MaxServers]

Goes(c, at) == tcp' = [tcp EXCEPT ![c].at = at]

\* complete(): untracked, uncounted, done.  Both sockets are closed before.
Completes(c) ==
    /\ tcp' = [tcp EXCEPT ![c] = Outside]
    /\ counted' = counted - 1

\* trackedTCPConn.close, for these connections.
Shut(t) == [t EXCEPT !.closing = TRUE, !.client = FALSE,
                     !.backend = IF @ = "open" /\ t.at # "dialled" THEN "closed" ELSE @]

-----------------------------------------------------------------------------
(* acceptLoop and handleTCPConn                                            *)

Starts ==
    /\ accepting = "new"
    /\ ~ closed
    /\ accepting' = "runs"
    /\ UNCHANGED <<tcp, counted, bound, closed, installed, server, replaceMu, manager, stopper,
                   ctxDone>>

\* Of a client whose address is trusted.
AcceptsConnection(c) ==
    /\ accepting = "runs" /\ bound
    /\ tcp[c] = Outside
    /\ tcp' = [tcp EXCEPT ![c].at = "accepted", ![c].client = TRUE]
    /\ UNCHANGED <<counted, accepting, bound, closed, installed, server, replaceMu, manager,
                   stopper, ctxDone>>

LoopEnds ==
    /\ accepting = "runs" /\ ~ bound
    /\ accepting' = "over"
    /\ UNCHANGED <<tcp, counted, bound, closed, installed, server, replaceMu, manager, stopper,
                   ctxDone>>

HandleOnly == UNCHANGED <<accepting, bound, closed, installed, server, replaceMu, manager,
                          stopper, ctxDone>>

\* Counted first and uncounted again when there are too many.
Reserves(c) ==
    /\ tcp[c].at = "accepted"
    /\ counted' = counted + 1
    /\ \E limit \in Limits : Goes(c, IF counted < limit THEN "reserved" ELSE "over")
    /\ HandleOnly

Refuses(c) ==
    /\ tcp[c].at = "over"
    /\ Completes(c)
    /\ HandleOnly

Tracks(c) ==
    /\ tcp[c].at = "reserved"
    /\ IF closed THEN Completes(c) ELSE Goes(c, "sniffs") /\ UNCHANGED counted
    /\ HandleOnly

\* Nothing comes in time, nobody wants it, or it goes to a backend or to the listener
\* there is.
Sniffs(c) ==
    /\ tcp[c].at = "sniffs"
    /\ \/ Completes(c)
       \/ Goes(c, "dials") /\ UNCHANGED counted
       \/ /\ tcp' = [tcp EXCEPT ![c].at = "routes", ![c].via = installed]
          /\ UNCHANGED counted
    /\ HandleOnly

Dials(c) ==
    /\ tcp[c].at = "dials"
    /\ \/ Completes(c)
       \/ tcp' = [tcp EXCEPT ![c].at = "dialled", ![c].backend = "open"] /\ UNCHANGED counted
    /\ HandleOnly

\* Mutated: the backend is set whether or not the connection is being closed.
SetsBackendAlways(c) ==
    /\ tcp[c].at = "dialled"
    /\ Goes(c, "copies")
    /\ UNCHANGED counted
    /\ HandleOnly

\* setBackend.  The connection is always tracked here.
SetsBackend(c) ==
    /\ tcp[c].at = "dialled"
    /\ tcp' = [tcp EXCEPT ![c].at = "copies",
                          ![c].backend = IF tcp[c].closing THEN "closed" ELSE @]
    /\ UNCHANGED counted
    /\ HandleOnly

\* proxyTCP returns when both directions have ended, which the client and the backend
\* decide, or the closing of both sockets.
CopyEnds(c) ==
    /\ tcp[c].at = "copies"
    /\ Completes(c)
    /\ HandleOnly

Severed(c) == tcp[c].at = "copies" /\ ~ tcp[c].client /\ tcp[c].backend = "closed"

\* routeToHTTPListener and serve: refused when the listener is closed or its queue full.
Routes(c) ==
    LET s == tcp[c].via
        queued == {d \in TcpClients : tcp[d].at = "queued" /\ tcp[d].via = s}
    IN  /\ tcp[c].at = "routes"
        /\ IF s # 0 /\ server[s] = "serves" /\ Cardinality(queued) < QueueSize
           THEN Goes(c, "queued") /\ UNCHANGED counted
           ELSE Completes(c)
        /\ HandleOnly

-----------------------------------------------------------------------------
(* The HTTP servers                                                        *)

\* The server's loop takes a connection from the queue, looks whether the listener is
\* closed, and starts a goroutine which the server knows of.
TakesQueued(c) ==
    /\ tcp[c].at = "queued"
    /\ Goes(c, "held")
    /\ UNCHANGED counted
    /\ HandleOnly

ServesHeld(c) ==
    /\ tcp[c].at = "held"
    /\ \/ Goes(c, "served") /\ UNCHANGED counted
       \/ server[tcp[c].via] # "serves" /\ Completes(c)
    /\ HandleOnly

\* An upgraded connection belongs to its handler.
Hijacks(c) ==
    /\ tcp[c].at = "served"
    /\ tcp' = [tcp EXCEPT ![c].at = "hijacked", ![c].via = 0]
    /\ UNCHANGED counted
    /\ HandleOnly

\* The server or the handler closes it, for its own reasons or because reading fails.
ServeEnds(c) ==
    /\ tcp[c].at \in {"served", "hijacked"}
    /\ Completes(c)
    /\ HandleOnly

\* Closes the connections that are at one of these places with this server.
Without(s, places) ==
    LET gone == {c \in TcpClients : tcp[c].via = s /\ tcp[c].at \in places}
    IN  /\ tcp' = [c \in TcpClients |-> IF c \in gone THEN Outside ELSE tcp[c]]
        /\ counted' = counted - Cardinality(gone)

\* tlsHTTPListener.Close: what is in the queue is closed.
ClosesListener(s) ==
    /\ server' = [server EXCEPT ![s] = "drains"]
    /\ Without(s, {"queued"})

\* Shutdown waits for the connections the server knows, but the hijacked ones; after the
\* drain timeout, or when the context has ended, they are closed.
ShutsDown(s) ==
    /\ server' = [server EXCEPT ![s] = "down"]
    /\ Without(s, {"served"})

\* SetTLSHTTPServer and its like, and updateEntryPoint.
CallRefresh(op) ==
    /\ manager = Resting
    /\ op = "replace" => \E s \in Servers : server[s] = "unmade"
    /\ manager' = [Resting EXCEPT !.at = "locks", !.op = op]
    /\ UNCHANGED <<tcp, counted, accepting, bound, closed, installed, server, replaceMu,
                   stopper, ctxDone>>

ManagerLocks ==
    /\ manager.at = "locks"
    /\ replaceMu = "free"
    /\ IF manager.op = "replace" /\ closed
       THEN manager' = Resting /\ UNCHANGED replaceMu
       ELSE /\ manager' = [manager EXCEPT !.at = IF manager.op = "replace" THEN "installs"
                                                 ELSE "takes"]
            /\ replaceMu' = "manager"
    /\ UNCHANGED <<tcp, counted, accepting, bound, closed, installed, server, stopper, ctxDone>>

ManagerRests(old) ==
    IF old = 0 THEN manager' = Resting /\ replaceMu' = "free"
    ELSE manager' = [manager EXCEPT !.at = "shuts", !.old = old] /\ UNCHANGED replaceMu

\* Asks once more whether the entry point is closed, under r.mu.
Installs ==
    /\ manager.at = "installs"
    /\ IF closed
       THEN manager' = Resting /\ replaceMu' = "free" /\ UNCHANGED <<installed, server, tcp, counted>>
       ELSE LET s == CHOOSE s \in Servers : server[s] = "unmade" /\ \A t \in 1..(s - 1) : server[t] # "unmade"
            IN  /\ installed' = s
                /\ server' = [server EXCEPT ![s] = "serves"]
                /\ ManagerRests(installed)
                /\ UNCHANGED <<tcp, counted>>
    /\ UNCHANGED <<accepting, bound, closed, stopper, ctxDone>>

ManagerTakes ==
    /\ manager.at = "takes"
    /\ installed' = 0
    /\ ManagerRests(installed)
    /\ UNCHANGED <<tcp, counted, accepting, bound, closed, server, stopper, ctxDone>>

ManagerShuts ==
    /\ manager.at = "shuts"
    /\ \/ /\ server[manager.old] = "serves"
          /\ ClosesListener(manager.old)
          /\ UNCHANGED <<manager, replaceMu>>
       \/ /\ server[manager.old] = "drains"
          /\ ShutsDown(manager.old)
          /\ manager' = Resting
          /\ replaceMu' = "free"
    /\ UNCHANGED <<accepting, bound, closed, installed, stopper, ctxDone>>

\* updateEntryPoint closes the connections it no longer wants, with or without a change
\* of the server.
ClosesStale(c) ==
    /\ ~ closed
    /\ c \in Tracked
    /\ tcp' = [tcp EXCEPT ![c] = Shut(@)]
    /\ UNCHANGED counted
    /\ HandleOnly

-----------------------------------------------------------------------------
(* stop                                                                    *)

CallStop ==
    /\ ~ closed
    /\ closed' = TRUE
    /\ stopper' = [stopper EXCEPT !.at = "unbinds"]
    /\ UNCHANGED <<tcp, counted, accepting, bound, installed, server, replaceMu, manager,
                   ctxDone>>

\* An entry point that was never started has no loop.
Unbinds ==
    /\ stopper.at = "unbinds"
    /\ bound' = FALSE
    /\ accepting' = IF accepting = "new" THEN "over" ELSE accepting
    /\ stopper' = [stopper EXCEPT !.at = "awaits loop"]
    /\ UNCHANGED <<tcp, counted, closed, installed, server, replaceMu, manager, ctxDone>>

StopperGoes(at) == stopper' = [stopper EXCEPT !.at = at]

AwaitsLoop ==
    /\ stopper.at = "awaits loop"
    /\ \/ accepting = "over" /\ StopperGoes("locks")
       \/ ctxDone /\ StopperGoes("gave up")
    /\ UNCHANGED <<tcp, counted, accepting, bound, closed, installed, server, replaceMu,
                   manager, ctxDone>>

StopperLocks ==
    /\ stopper.at = "locks"
    /\ replaceMu = "free"
    /\ IF installed = 0 THEN StopperGoes("drains") /\ UNCHANGED replaceMu
       ELSE /\ stopper' = [stopper EXCEPT !.at = "shuts", !.old = installed]
            /\ replaceMu' = "stopper"
    /\ installed' = 0
    /\ UNCHANGED <<tcp, counted, accepting, bound, closed, server, manager, ctxDone>>

StopperShuts ==
    /\ stopper.at = "shuts"
    /\ \/ /\ server[stopper.old] = "serves"
          /\ ClosesListener(stopper.old)
          /\ UNCHANGED <<stopper, replaceMu>>
       \/ /\ server[stopper.old] = "drains"
          /\ ShutsDown(stopper.old)
          /\ StopperGoes("drains")
          /\ replaceMu' = "free"
    /\ UNCHANGED <<accepting, bound, closed, installed, manager, ctxDone>>

\* waitActive, then closeActiveConns after the drain timeout.
Drains ==
    /\ stopper.at = "drains"
    /\ \/ Working = {} /\ StopperGoes("stopped") /\ UNCHANGED tcp
       \/ /\ tcp' = [c \in TcpClients |-> IF c \in Tracked THEN Shut(tcp[c]) ELSE tcp[c]]
          /\ StopperGoes("forces")
    /\ UNCHANGED <<counted, accepting, bound, closed, installed, server, replaceMu, manager,
                   ctxDone>>

Forces ==
    /\ stopper.at = "forces"
    /\ \/ Working = {} /\ StopperGoes("stopped")
       \/ ctxDone /\ StopperGoes("gave up")
    /\ UNCHANGED <<tcp, counted, accepting, bound, closed, installed, server, replaceMu,
                   manager, ctxDone>>

\* stop() asks for its context in two places; elsewhere it is a timer that fires sooner.
CtxEnds ==
    /\ stopper.at \in {"awaits loop", "forces"}
    /\ ~ ctxDone
    /\ ctxDone' = TRUE
    /\ UNCHANGED <<tcp, counted, accepting, bound, closed, installed, server, replaceMu,
                   manager, stopper>>

-----------------------------------------------------------------------------
HandlerStep(c) ==
    \/ Reserves(c) \/ Refuses(c) \/ Tracks(c) \/ Sniffs(c) \/ Dials(c) \/ SetsBackend(c)
    \/ Routes(c)

QueueStep(c) == TakesQueued(c) \/ ServesHeld(c)

ManagerStep == ManagerLocks \/ Installs \/ ManagerTakes \/ ManagerShuts
StopperStep == Unbinds \/ AwaitsLoop \/ StopperLocks \/ StopperShuts \/ Drains \/ Forces

TcpNext ==
    \/ Starts \/ LoopEnds
    \/ \E c \in TcpClients :
          \/ AcceptsConnection(c) \/ HandlerStep(c) \/ CopyEnds(c) \/ QueueStep(c) \/ Hijacks(c)
          \/ ServeEnds(c) \/ ClosesStale(c)
    \/ \E op \in {"replace", "remove"} : CallRefresh(op)
    \/ ManagerStep
    \/ CallStop \/ StopperStep \/ CtxEnds

\* Goroutines are scheduled, a mutex does not pass a waiter over for ever (sync.Mutex), the
\* timers of sniffing, dialling and draining fire, and reading from a closed socket fails.
\* Nothing is asked of clients, backends and handlers.
TcpFairness ==
    /\ WF_tcpVars(LoopEnds)
    /\ WF_tcpVars(ManagerStep)
    /\ WF_tcpVars(StopperStep)
    /\ SF_tcpVars(StopperLocks)
    /\ \A c \in TcpClients : WF_tcpVars(\/ HandlerStep(c)
                                        \/ QueueStep(c)
                                        \/ Severed(c) /\ CopyEnds(c)
                                        \/ ~ tcp[c].client /\ ServeEnds(c))

TcpSpec == TcpInit /\ [][TcpNext]_tcpVars /\ TcpFairness

-----------------------------------------------------------------------------
(* Properties                                                              *)

Stopped == stopper.at = "stopped"

NothingIsLeft == Stopped => Working = {} /\ counted = 0 /\ installed = 0 /\ ~ bound

\* stop() comes to an end, unless its context ends first: whatever it meets - connections
\* between the loop and the table, a backend dialled while the connection is closed, a
\* connection handed to a server that is being replaced, a refresh that drains an old
\* server under the same mutex.  Then no connection is left, counted or served, and no
\* server is installed any more.
StopDrains ==
    /\ closed ~> Stopped \/ ctxDone
    /\ []NothingIsLeft
=============================================================================
