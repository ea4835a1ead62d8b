----------------------------- MODULE UdpSessions -----------------------------
(***************************************************************************)
(* The sessions of a UDP entry point, adapters/in/traffic/udp.go.  Workers *)
(* take datagrams and look for the client's session; one that finds none   *)
(* dials a backend without the lock and looks again.  A session has a loop *)
(* of its own that reads the backend's answers, and when its connection    *)
(* fails or is closed the loop removes the session of its client - the one *)
(* the client has by then.                                                 *)
(*                                                                         *)
(* A removal deletes under the lock and closes after it.  Which backend a  *)
(* session was dialled for and which clients are trusted decide whom a     *)
(* drain and an update remove, so any clients may be.                      *)
(***************************************************************************)
EXTENDS Naturals, FiniteSets

CONSTANTS UdpWorkers,   \* datagramWorker goroutines
          UdpClients,   \* client addresses, the keys of the sessions
          MaxSessions,  \* options.MaxSessions
          MaxDials      \* bound: backend connections dialled in all

ASSUME UdpAssumption ==
    /\ IsFiniteSet(UdpWorkers) /\ IsFiniteSet(UdpClients)
    /\ MaxSessions \in Nat /\ MaxDials \in Nat

VARIABLES
    sessions,   \* r.sessions: the client's session, 0 for none
    conn,       \* every session's backend connection
    clientOf,   \* whose session it is
    fresh,      \* whether the client was heard within the idle timeout
    reader,     \* every session's backendLoop
    removed,    \* sessions deleted and not yet closed by who deleted them
    active,     \* counters.activeUDPSessions, counted from 0 up and down
    worker,     \* the workers
    drain,      \* the keys a drain or an update still removes
    entry       \* the entry point: "serves", "closed", "drains", "forces", "stopped"

udpVars == <<sessions, conn, clientOf, fresh, reader, removed, active, worker, drain, entry>>

Dials  == 1..MaxDials
Live   == {c \in UdpClients : sessions[c] # 0}
Nobody == [at |-> "idle", client |-> "none", session |-> 0]

UdpInit ==
    /\ sessions = [c \in UdpClients |-> 0]
    /\ conn = [s \in Dials |-> "unmade"]
    /\ clientOf = [s \in Dials |-> "none"]
    /\ fresh = [s \in Dials |-> FALSE]
    /\ reader = [s \in Dials |-> "unmade"]
    /\ removed = {}
    /\ active = [up |-> 0, down |-> 0]
    /\ worker = [w \in UdpWorkers |-> Nobody]
    /\ drain = {}
    /\ entry = "serves"

UdpWorkerRecord ==
    [at : {"idle", "looks", "resolves", "dials", "inserts", "counts", "writes", "removes"},
     client : UdpClients \cup {"none"}, session : 0..MaxDials]

UdpTypeOK ==
    /\ sessions \in [UdpClients -> 0..MaxDials]
    /\ conn \in [Dials -> {"unmade", "open", "closed"}]
    /\ clientOf \in [Dials -> UdpClients \cup {"none"}]
    /\ fresh \in [Dials -> BOOLEAN]
    /\ reader \in [Dials -> {"unmade", "reads", "removes", "over"}]
    /\ removed \subseteq Dials
    /\ active \in [up : Nat, down : Nat]
    /\ worker \in [UdpWorkers -> UdpWorkerRecord]
    /\ drain \subseteq UdpClients
    /\ entry \in {"serves", "closed", "drains", "forces", "stopped"}

WorkerAt(w, at)    == worker' = [worker EXCEPT ![w].at = at]
WorkerRests(w)     == worker' = [worker EXCEPT ![w] = Nobody]
WorkerUses(w, s)   == worker' = [worker EXCEPT ![w].at = "writes", ![w].session = s]

\* removeSession under the lock, by key; the close comes after.
Removes(key) ==
    IF sessions[key] = 0 THEN UNCHANGED <<sessions, removed>>
    ELSE /\ sessions' = [sessions EXCEPT ![key] = 0]
         /\ removed' = removed \cup {sessions[key]}

-----------------------------------------------------------------------------
(* A datagram: handleDatagram and session                                  *)

\* readLoop drops datagrams it cannot queue; a worker looks at the context once more ...
TakeDatagram(w, c) ==
    /\ worker[w].at = "idle"
    /\ entry = "serves"
    /\ worker' = [worker EXCEPT ![w] = [at |-> "looks", client |-> c, session |-> 0]]
    /\ UNCHANGED <<sessions, conn, clientOf, fresh, reader, removed, active, drain, entry>>

\* ... and for the client's session, under the lock.
LookUp(w) ==
    LET s == sessions[worker[w].client] IN
    /\ worker[w].at = "looks"
    /\ worker' = [worker EXCEPT ![w].at = IF s = 0 THEN "resolves" ELSE "writes",
                                ![w].session = s]
    /\ fresh' = IF s = 0 THEN fresh ELSE [fresh EXCEPT ![s] = TRUE]
    /\ UNCHANGED <<sessions, conn, clientOf, reader, removed, active, drain, entry>>

\* No router or no backend; or the entry point is full.
Refuses(w) ==
    /\ worker[w].at = "resolves"
    /\ WorkerRests(w)
    /\ UNCHANGED <<sessions, conn, clientOf, fresh, reader, removed, active, drain, entry>>

HasRoom(w) ==
    /\ worker[w].at = "resolves"
    /\ Cardinality(Live) < MaxSessions
    /\ WorkerAt(w, "dials")
    /\ UNCHANGED <<sessions, conn, clientOf, fresh, reader, removed, active, drain, entry>>

\* A cancelled context fails the dial.
DialSession(w) ==
    /\ worker[w].at = "dials"
    /\ \/ /\ entry = "serves"
          /\ \E s \in Dials :
                /\ conn[s] = "unmade"
                /\ \A t \in Dials : t < s => conn[t] # "unmade"
                /\ conn' = [conn EXCEPT ![s] = "open"]
                /\ clientOf' = [clientOf EXCEPT ![s] = worker[w].client]
                /\ fresh' = [fresh EXCEPT ![s] = TRUE]
                /\ worker' = [worker EXCEPT ![w].at = "inserts", ![w].session = s]
       \/ WorkerRests(w) /\ UNCHANGED <<conn, clientOf, fresh>>
    /\ UNCHANGED <<sessions, reader, removed, active, drain, entry>>

\* Mutated: who loses to another worker keeps the connection it dialled.
InsertAndKeep(w) ==
    LET c == worker[w].client IN
    /\ worker[w].at = "inserts"
    /\ \/ /\ sessions[c] # 0
          /\ WorkerUses(w, sessions[c])
          /\ UNCHANGED <<sessions, conn>>
       \/ /\ sessions[c] = 0
          /\ Cardinality(Live) >= MaxSessions
          /\ conn' = [conn EXCEPT ![worker[w].session] = "closed"]
          /\ WorkerRests(w)
          /\ UNCHANGED sessions
       \/ /\ sessions[c] = 0
          /\ Cardinality(Live) < MaxSessions
          /\ sessions' = [sessions EXCEPT ![c] = worker[w].session]
          /\ WorkerAt(w, "counts")
          /\ UNCHANGED conn
    /\ UNCHANGED <<clientOf, fresh, reader, removed, active, drain, entry>>

\* Under the lock again: another worker's session is used, the limit is looked at again.
Insert(w) ==
    LET c == worker[w].client IN
    /\ worker[w].at = "inserts"
    /\ \/ /\ sessions[c] # 0
          /\ conn' = [conn EXCEPT ![worker[w].session] = "closed"]
          /\ WorkerUses(w, sessions[c])
          /\ UNCHANGED sessions
       \/ /\ sessions[c] = 0
          /\ Cardinality(Live) >= MaxSessions
          /\ conn' = [conn EXCEPT ![worker[w].session] = "closed"]
          /\ WorkerRests(w)
          /\ UNCHANGED sessions
       \/ /\ sessions[c] = 0
          /\ Cardinality(Live) < MaxSessions
          /\ sessions' = [sessions EXCEPT ![c] = worker[w].session]
          /\ WorkerAt(w, "counts")
          /\ UNCHANGED conn
    /\ UNCHANGED <<clientOf, fresh, reader, removed, active, drain, entry>>

\* Counted and given its loop after the unlock.
CountSession(w) ==
    /\ worker[w].at = "counts"
    /\ active' = [active EXCEPT !.up = @ + 1]
    /\ reader' = [reader EXCEPT ![worker[w].session] = "reads"]
    /\ WorkerAt(w, "writes")
    /\ UNCHANGED <<sessions, conn, clientOf, fresh, removed, drain, entry>>

\* A failed write removes whatever session the client has.
WritesPacket(w) ==
    /\ worker[w].at = "writes"
    /\ \/ conn[worker[w].session] = "open" /\ WorkerRests(w)
       \/ WorkerAt(w, "removes")
    /\ UNCHANGED <<sessions, conn, clientOf, fresh, reader, removed, active, drain, entry>>

WorkerRemoves(w) ==
    /\ worker[w].at = "removes"
    /\ Removes(worker[w].client)
    /\ WorkerRests(w)
    /\ UNCHANGED <<conn, clientOf, fresh, reader, active, drain, entry>>

-----------------------------------------------------------------------------
(* The loops of the sessions, expiry, drains and the end of the entry point *)

\* The backend refuses, the answer cannot be sent, or the connection was closed.
ReadFails(s) ==
    /\ reader[s] = "reads"
    /\ reader' = [reader EXCEPT ![s] = "removes"]
    /\ UNCHANGED <<sessions, conn, clientOf, fresh, removed, active, worker, drain, entry>>

\* backendLoop's deferred removeSession.
ReaderRemoves(s) ==
    /\ reader[s] = "removes"
    /\ Removes(clientOf[s])
    /\ reader' = [reader EXCEPT ![s] = "over"]
    /\ UNCHANGED <<conn, clientOf, fresh, active, worker, drain, entry>>

\* Who deleted the session closes it and counts it down.
ClosesRemoved(s) ==
    /\ s \in removed
    /\ removed' = removed \ {s}
    /\ conn' = [conn EXCEPT ![s] = "closed"]
    /\ active' = [active EXCEPT !.down = @ + 1]
    /\ UNCHANGED <<sessions, clientOf, fresh, reader, worker, drain, entry>>

FallsSilent(s) ==
    /\ fresh[s]
    /\ fresh' = [fresh EXCEPT ![s] = FALSE]
    /\ UNCHANGED <<sessions, conn, clientOf, reader, removed, active, worker, drain, entry>>

\* expireIdleSessions deletes every idle session at once.
Expires ==
    LET idle == {c \in Live : ~fresh[sessions[c]]} IN
    /\ entry = "serves"
    /\ idle # {}
    /\ removed' = removed \cup {sessions[c] : c \in idle}
    /\ sessions' = [c \in UdpClients |-> IF c \in idle THEN 0 ELSE sessions[c]]
    /\ UNCHANGED <<conn, clientOf, fresh, reader, active, worker, drain, entry>>

\* A reload: sessions of a stale backend or of clients no longer trusted are listed ...
Drains ==
    /\ entry = "serves"
    /\ drain = {}
    /\ drain' \in SUBSET Live \ {{}}
    /\ UNCHANGED <<sessions, conn, clientOf, fresh, reader, removed, active, worker, entry>>

\* ... and removed one by one.
DrainRemoves(c) ==
    /\ c \in drain
    /\ drain' = drain \ {c}
    /\ Removes(c)
    /\ UNCHANGED <<conn, clientOf, fresh, reader, active, worker, entry>>

\* stop: the context is cancelled and the socket closed ...
Stops ==
    /\ entry = "serves"
    /\ entry' = "closed"
    /\ UNCHANGED <<sessions, conn, clientOf, fresh, reader, removed, active, worker, drain>>

\* ... the read loop has ended, and the sessions may end by themselves ...
StopWaits ==
    /\ entry = "closed"
    /\ entry' = "drains"
    /\ UNCHANGED <<sessions, conn, clientOf, fresh, reader, removed, active, worker, drain>>

\* ... or are removed once the drain timeout has passed.
StopForces ==
    /\ entry = "drains"
    /\ drain = {}
    /\ entry' = "forces"
    /\ drain' = Live
    /\ UNCHANGED <<sessions, conn, clientOf, fresh, reader, removed, active, worker>>

StopReturns ==
    /\ entry \in {"drains", "forces"}
    /\ Live = {} \/ entry = "forces"    \* or the caller's context has ended
    /\ drain = {}
    /\ entry' = "stopped"
    /\ UNCHANGED <<sessions, conn, clientOf, fresh, reader, removed, active, worker, drain>>

UdpWorkerStep(w) ==
    \/ \E c \in UdpClients : TakeDatagram(w, c)
    \/ LookUp(w) \/ Refuses(w) \/ HasRoom(w) \/ DialSession(w)
    \/ Insert(w) \/ CountSession(w) \/ WritesPacket(w) \/ WorkerRemoves(w)

UdpNext ==
    \/ \E w \in UdpWorkers : UdpWorkerStep(w)
    \/ \E s \in Dials : ReadFails(s) \/ ReaderRemoves(s) \/ ClosesRemoved(s) \/ FallsSilent(s)
    \/ Expires \/ Drains
    \/ \E c \in UdpClients : DrainRemoves(c)
    \/ Stops \/ StopWaits \/ StopForces \/ StopReturns

UdpSpec == UdpInit /\ [][UdpNext]_udpVars

-----------------------------------------------------------------------------
(* Correctness                                                             *)

\* Two workers of one client, the limit and every removal meet, and still each open
\* backend connection belongs to a session, to the worker that dialled it or to who has
\* deleted it and closes it next, so none is open for ever; the limit holds although workers
\* dial without the lock; and what status reports is the number of sessions once who inserts
\* and who removes have counted.
SessionsAreOwned ==
    /\ \A s \in Dials : conn[s] = "open" =>
          \/ sessions[clientOf[s]] = s
          \/ s \in removed
          \/ \E w \in UdpWorkers : worker[w].at = "inserts" /\ worker[w].session = s
    /\ Cardinality(Live) <= MaxSessions
    /\ active.up + Cardinality({w \in UdpWorkers : worker[w].at = "counts"})
         = active.down + Cardinality(removed) + Cardinality(Live)
=============================================================================
