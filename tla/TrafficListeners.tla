--------------------------- MODULE TrafficListeners ---------------------------
(***************************************************************************)
(* What the traffic manager listens on, adapters/in/traffic/manager.go.    *)
(* Apply prepares the listeners of a new graph under m.mu - a listener of  *)
(* the same address is kept, whatever its entry point is called by then -, *)
(* swaps, and stops what is left over after the unlock, one listener after *)
(* the other, each for as long as it drains.  A prepared graph that fails  *)
(* gives back what it has bound.                                           *)
(*                                                                         *)
(* Two calls may meet: the configuration is watched before the start       *)
(* applies the graph it has read (app/run.go), and a shutdown waits for    *)
(* neither.  An entry point is [name, address, net, trusted]; the checks   *)
(* of Validate make names and, per net, addresses unique.                  *)
(***************************************************************************)
EXTENDS Naturals, FiniteSets

CONSTANTS Appliers,    \* calls of Apply that may be under way at once
          Graphs,      \* sets of entry points that Validate accepts
          Runtimes,    \* listeners with their sockets
          MaxApplies   \* bound: calls of Apply in all

NoEntry  == [name |-> "none", address |-> "none", net |-> "none", trusted |-> "none"]

\* A graph is finite, and the name of an entry point is not empty.
ASSUME TrafficAssumption ==
    /\ \A g \in Graphs : IsFiniteSet(g) /\ NoEntry \notin g
    /\ "none" \notin Appliers
    /\ MaxApplies \in Nat

VARIABLES
    listeners,  \* m.listeners and m.udpListeners: the runtimes in force
    snapshot,   \* m.snapshot: the graph in force
    entryOf,    \* every runtime's entry point, or NoEntry for one not bound
    holder,     \* the applier that holds m.mu while it prepares, or "none"
    prepared,   \* what it prepares: the entry points left, the runtimes so far
    stopping,   \* runtimes that an Apply stops once it has unlocked m.mu
    applies     \* how many calls of Apply there were

trafficVars == <<listeners, snapshot, entryOf, holder, prepared, stopping, applies>>

Entries  == UNION Graphs
Idle     == [graph |-> {}, left |-> {}, next |-> {}, created |-> {}, updates |-> {}]

TrafficInit ==
    /\ listeners = {}
    /\ snapshot = {}
    /\ entryOf = [r \in Runtimes |-> NoEntry]
    /\ holder = "none"
    /\ prepared = Idle
    /\ stopping = [a \in Appliers |-> {}]
    /\ applies = 0

TrafficTypeOK ==
    /\ listeners \subseteq Runtimes
    /\ snapshot \in Graphs \cup {{}}
    /\ entryOf \in [Runtimes -> Entries \cup {NoEntry}]
    /\ holder \in Appliers \cup {"none"}
    /\ prepared \in [graph : Graphs \cup {{}}, left : SUBSET Entries, next : SUBSET Runtimes,
                     created : SUBSET Runtimes, updates : SUBSET (Runtimes \X Entries)]
    /\ prepared.left \subseteq prepared.graph
    /\ prepared.created \subseteq prepared.next
    /\ stopping \in [Appliers -> SUBSET Runtimes]
    /\ applies \in 0..MaxApplies

Bound == {r \in Runtimes : entryOf[r] # NoEntry}

\* The operating system has no two sockets on one address.
Taken(e) == \E r \in Bound : entryOf[r].net = e.net /\ entryOf[r].address = e.address

\* The runtimes in force that no entry point has claimed yet: "current".
Unclaimed(e) == {r \in listeners \ prepared.next : entryOf[r].net = e.net}

\* TCP entry points are prepared first.
IsNext(e) ==
    /\ e \in prepared.left
    /\ e.net = "udp" => \A f \in prepared.left : f.net = "udp"

\* Validate has accepted the graph.
ApplyLocks(a) ==
    /\ holder = "none"
    /\ stopping[a] = {}
    /\ applies < MaxApplies
    /\ applies' = applies + 1
    /\ holder' = a
    /\ \E g \in Graphs : prepared' = [Idle EXCEPT !.graph = g, !.left = g]
    /\ UNCHANGED <<listeners, snapshot, entryOf, stopping>>

\* runtime.matches: nothing about the entry point has changed.
KeepListener(e) ==
    /\ IsNext(e)
    /\ \E r \in Unclaimed(e) :
          /\ entryOf[r] = e
          /\ prepared' = [prepared EXCEPT !.left = @ \ {e}, !.next = @ \cup {r}]
    /\ UNCHANGED <<listeners, snapshot, entryOf, holder, stopping, applies>>

\* Mutated: the entry point is updated at once, whether or not the graph is applied.
UpdateAtOnce(e) ==
    /\ IsNext(e)
    /\ \A r \in Unclaimed(e) : entryOf[r] # e
    /\ \E r \in Unclaimed(e) :
          /\ entryOf[r].address = e.address
          /\ prepared' = [prepared EXCEPT !.left = @ \ {e}, !.next = @ \cup {r}]
          /\ entryOf' = [entryOf EXCEPT ![r] = e]
    /\ UNCHANGED <<listeners, snapshot, holder, stopping, applies>>

\* conflictingTCPRuntime and conflictingUDPRuntime: the address is listened on already.
ReuseListener(e) ==
    /\ IsNext(e)
    /\ \A r \in Unclaimed(e) : entryOf[r] # e
    /\ \E r \in Unclaimed(e) :
          /\ entryOf[r].address = e.address
          /\ prepared' = [prepared EXCEPT !.left = @ \ {e}, !.next = @ \cup {r},
                                          !.updates = @ \cup {<<r, e>>}]
    /\ UNCHANGED <<listeners, snapshot, entryOf, holder, stopping, applies>>

Unlisted(e) == IsNext(e) /\ \A r \in Unclaimed(e) : entryOf[r].address # e.address

\* Mutated: bound, and forgotten among the listeners to come.
BindUnlisted(e) ==
    /\ Unlisted(e)
    /\ ~Taken(e)
    /\ Bound # Runtimes
    /\ LET r == CHOOSE r \in Runtimes : r \notin Bound IN
          /\ entryOf' = [entryOf EXCEPT ![r] = e]
          /\ prepared' = [prepared EXCEPT !.left = @ \ {e}, !.created = @ \cup {r}]
    /\ UNCHANGED <<listeners, snapshot, holder, stopping, applies>>

BindListener(e) ==
    /\ Unlisted(e)
    /\ ~Taken(e)
    /\ Bound # Runtimes
    /\ LET r == CHOOSE r \in Runtimes : r \notin Bound IN
          /\ entryOf' = [entryOf EXCEPT ![r] = e]
          /\ prepared' = [prepared EXCEPT !.left = @ \ {e}, !.next = @ \cup {r},
                                          !.created = @ \cup {r}]
    /\ UNCHANGED <<listeners, snapshot, holder, stopping, applies>>

Close(closed) == entryOf' = [r \in Runtimes |-> IF r \in closed THEN NoEntry ELSE entryOf[r]]

\* Mutated: the TCP listeners of a graph stay bound when a UDP one cannot be.
BindFailsHalfway(e) ==
    /\ Unlisted(e)
    /\ Close({r \in prepared.created : entryOf[r].net = e.net})
    /\ prepared' = Idle
    /\ holder' = "none"
    /\ UNCHANGED <<listeners, snapshot, stopping, applies>>

\* The address is taken, by whomever, or may not be used: what was bound
\* for the graph is closed again, and the graph in force stays.
BindFails(e) ==
    /\ Unlisted(e)
    /\ Close(prepared.created)
    /\ prepared' = Idle
    /\ holder' = "none"
    /\ UNCHANGED <<listeners, snapshot, stopping, applies>>

\* Everything is prepared: updates, swap, start, unlock.
ApplySwaps(a) ==
    /\ holder = a
    /\ prepared.left = {}
    /\ entryOf' = [r \in Runtimes |->
          IF \E e \in Entries : <<r, e>> \in prepared.updates
          THEN CHOOSE e \in Entries : <<r, e>> \in prepared.updates
          ELSE entryOf[r]]
    /\ listeners' = prepared.next
    /\ snapshot' = prepared.graph
    /\ stopping' = [stopping EXCEPT ![a] = listeners \ prepared.next]
    /\ holder' = "none"
    /\ prepared' = Idle
    /\ UNCHANGED applies

\* One listener of the former graph is closed and has drained.
ApplyStops(a) ==
    \E r \in stopping[a] :
       /\ stopping' = [stopping EXCEPT ![a] = @ \ {r}]
       /\ Close({r})
       /\ UNCHANGED <<listeners, snapshot, holder, prepared, applies>>

\* Shutdown holds m.mu until the listeners it found have drained.
Shutdown ==
    /\ holder = "none"
    /\ Close(listeners)
    /\ listeners' = {}
    /\ snapshot' = {}
    /\ UNCHANGED <<holder, prepared, stopping, applies>>

TrafficNext ==
    \/ \E a \in Appliers : ApplyLocks(a) \/ ApplySwaps(a) \/ ApplyStops(a)
    \/ \E e \in Entries : KeepListener(e) \/ ReuseListener(e) \/ BindListener(e) \/ BindFails(e)
    \/ Shutdown

TrafficSpec == TrafficInit /\ [][TrafficNext]_trafficVars

-----------------------------------------------------------------------------
(* Correctness                                                             *)

\* Whatever graphs were applied, rejected halfway or overtaken, once m.mu is free exactly
\* the graph in force is listened on, each entry point by a listener of its own, and no
\* other socket is open but those an Apply is about to stop (Apply, prepareTCPListeners,
\* prepareUDPListeners, Shutdown).
GraphIsServed ==
    holder = "none" =>
        /\ {entryOf[r] : r \in listeners} = snapshot
        /\ Cardinality(listeners) = Cardinality(snapshot)
        /\ Bound = listeners \cup UNION {stopping[a] : a \in Appliers}
=============================================================================
