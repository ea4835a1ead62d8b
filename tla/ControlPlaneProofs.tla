-------------------------- MODULE ControlPlaneProofs --------------------------
(***************************************************************************)
(* Proofs about six components of the control plane that share no state:   *)
(* UdpSessions, for any workers, clients, dials and limit,                 *)
(* CertificateStore, for any Saves, certificates, failures and deaths of   *)
(* the server, Routes, for any calls and images, TrafficListeners, for any *)
(* graphs and sockets, StandaloneServices, for any services, options and   *)
(* containers, and ConfigFile, for any callers, changes, edits, reloads    *)
(* and restarts.  With Previews, whose proofs are in PreviewProofs, they   *)
(* are MCControlPlane, and its types are proved at the end.                *)
(***************************************************************************)
EXTENDS MCControlPlane, PreviewProofs, FiniteSetTheorems, TLAPS

-----------------------------------------------------------------------------
(* UdpSessions: whose a session is                                         *)

Dialled(w) == worker[w].at = "inserts"
Counting   == {w \in UdpWorkers : worker[w].at = "counts"}

\* A session that was dialled is the client's, or somebody's who will close it, and of no
\* second one.
Held ==
    /\ \A s \in Dials : reader[s] # "unmade" => conn[s] # "unmade"
    /\ \A s \in Dials : conn[s] # "unmade" => clientOf[s] \in UdpClients
    /\ \A c \in UdpClients : sessions[c] # 0 =>
          conn[sessions[c]] # "unmade" /\ clientOf[sessions[c]] = c /\ sessions[c] \notin removed
    /\ \A s \in removed : conn[s] # "unmade"
    /\ \A w \in UdpWorkers :
          /\ worker[w].at # "idle" => worker[w].client \in UdpClients
          /\ worker[w].at \in {"inserts", "counts"} =>
                worker[w].session \in Dials /\ conn[worker[w].session] # "unmade"
          /\ Dialled(w) => /\ clientOf[worker[w].session] = worker[w].client
                           /\ worker[w].session \notin removed
                           /\ \A c \in UdpClients : sessions[c] # worker[w].session
                           /\ \A v \in UdpWorkers :
                                 Dialled(v) /\ worker[v].session = worker[w].session => v = w

UdpInv == UdpTypeOK /\ Held /\ SessionsAreOwned
-----------------------------------------------------------------------------
(* Sessions stay owned                                                    *)

\* The conjuncts of SessionsAreOwned.
OpenIsOwned ==
    \A s \in Dials : conn[s] = "open" =>
        \/ sessions[clientOf[s]] = s
        \/ s \in removed
        \/ \E w \in UdpWorkers : Dialled(w) /\ worker[w].session = s
Counted ==
    /\ Cardinality(Live) <= MaxSessions
    /\ active.up + Cardinality(Counting)
         = active.down + Cardinality(removed) + Cardinality(Live)

LEMMA Conjuncts ==
  /\ SessionsAreOwned <=> OpenIsOwned /\ Counted
  /\ SessionsAreOwned' <=> (OpenIsOwned /\ Counted)'
BY DEF SessionsAreOwned, OpenIsOwned, Counted, Counting, Dialled

LEMMA UdpFinite ==
  ASSUME UdpTypeOK
  PROVE  /\ IsFiniteSet(Live) /\ Cardinality(Live) \in Nat
         /\ IsFiniteSet(Counting) /\ Cardinality(Counting) \in Nat
         /\ IsFiniteSet(removed) /\ Cardinality(removed) \in Nat
         /\ active.up \in Nat /\ active.down \in Nat
<1>1. IsFiniteSet(UdpClients) /\ IsFiniteSet(UdpWorkers) /\ IsFiniteSet(Dials)
  BY UdpAssumption, FS_Interval DEF Dials
<1>2. Live \subseteq UdpClients /\ Counting \subseteq UdpWorkers /\ removed \subseteq Dials
  BY DEF Live, Counting, UdpTypeOK
<1>3. IsFiniteSet(Live) /\ IsFiniteSet(Counting) /\ IsFiniteSet(removed)
  BY <1>1, <1>2, FS_Subset
<1> QED
  BY <1>3, FS_CardinalityType DEF UdpTypeOK

LEMMA RemovedTyped ==
  ASSUME UdpTypeOK, NEW key \in UdpClients, Removes(key)
  PROVE  removed' \subseteq Dials
<1>1. sessions[key] = 0 \/ sessions[key] \in Dials
  BY UdpAssumption DEF UdpTypeOK, Dials
<1> QED
  BY <1>1 DEF Removes, UdpTypeOK

\* Types.
LEMMA UdpTypeNext ==
  ASSUME UdpTypeOK, Held, [UdpNext]_udpVars
  PROVE  UdpTypeOK'
<1>t. /\ worker \in [UdpWorkers -> UdpWorkerRecord] /\ 0 \in 0..MaxDials
      /\ Dials \subseteq 0..MaxDials /\ MaxDials \in Nat
  BY UdpAssumption DEF UdpTypeOK, UdpWorkerRecord, Dials
<1>1. ASSUME NEW w \in UdpWorkers, NEW c \in UdpClients, TakeDatagram(w, c) PROVE UdpTypeOK'
  <2>1. worker' \in [UdpWorkers -> UdpWorkerRecord]
    BY <1>1, <1>t DEF TakeDatagram, UdpTypeOK, UdpWorkerRecord
  <2>2. UNCHANGED <<sessions, conn, clientOf, fresh, reader, removed, active, drain, entry>>
    BY <1>1 DEF TakeDatagram
  <2> QED
    BY <2>1, <2>2 DEF UdpTypeOK, UdpWorkerRecord
<1>2. ASSUME NEW w \in UdpWorkers, LookUp(w) PROVE UdpTypeOK'
  <2>1. worker' \in [UdpWorkers -> UdpWorkerRecord]
    <3>1. \A s \in 0..MaxDials, at \in {"resolves", "writes"} :
             [worker[w] EXCEPT !.at = at, !.session = s] \in UdpWorkerRecord
      BY <1>t DEF UdpWorkerRecord
    <3>2. worker[w].client \in UdpClients
      BY <1>2 DEF LookUp, Held
    <3>3. sessions[worker[w].client] \in 0..MaxDials
      BY <3>2 DEF UdpTypeOK
    <3>4. \E at \in {"resolves", "writes"} :
             worker' = [worker EXCEPT ![w] = [worker[w] EXCEPT !.at = at,
                                                  !.session = sessions[worker[w].client]]]
      BY <1>2, <1>t DEF LookUp
    <3> QED
      BY <3>1, <3>3, <3>4, <1>t
  <2>2. fresh' \in [Dials -> BOOLEAN]
    BY <1>2, <1>t DEF LookUp, UdpTypeOK
  <2>3. UNCHANGED <<sessions, conn, clientOf, reader, removed, active, drain, entry>>
    BY <1>2 DEF LookUp
  <2> QED
    BY <2>1, <2>2, <2>3 DEF UdpTypeOK, UdpWorkerRecord
<1>3. ASSUME NEW w \in UdpWorkers, Refuses(w) PROVE UdpTypeOK'
  <2>1. worker' \in [UdpWorkers -> UdpWorkerRecord]
    BY <1>3, <1>t DEF Refuses, WorkerRests, Nobody, UdpTypeOK, UdpWorkerRecord
  <2>2. UNCHANGED <<sessions, conn, clientOf, fresh, reader, removed, active, drain, entry>>
    BY <1>3 DEF Refuses
  <2> QED
    BY <2>1, <2>2 DEF UdpTypeOK, UdpWorkerRecord
<1>4. ASSUME NEW w \in UdpWorkers, HasRoom(w) PROVE UdpTypeOK'
  <2>1. worker' \in [UdpWorkers -> UdpWorkerRecord]
    BY <1>4, <1>t DEF HasRoom, WorkerAt, UdpTypeOK, UdpWorkerRecord
  <2>2. UNCHANGED <<sessions, conn, clientOf, fresh, reader, removed, active, drain, entry>>
    BY <1>4 DEF HasRoom
  <2> QED
    BY <2>1, <2>2 DEF UdpTypeOK, UdpWorkerRecord
<1>5. ASSUME NEW w \in UdpWorkers, DialSession(w) PROVE UdpTypeOK'
  <2>1. worker' \in [UdpWorkers -> UdpWorkerRecord]
    BY <1>5, <1>t DEF DialSession, WorkerRests, Nobody, UdpTypeOK, UdpWorkerRecord
  <2>2. conn' \in [Dials -> {"unmade", "open", "closed"}]
    BY <1>5, <1>t DEF DialSession, WorkerRests, Nobody, UdpTypeOK
  <2>3. clientOf' \in [Dials -> UdpClients \cup {"none"}]
    <3>1. worker[w].client \in UdpClients
      BY <1>5 DEF DialSession, Held
    <3> QED
      BY <1>5, <3>1 DEF DialSession, UdpTypeOK
  <2>4. fresh' \in [Dials -> BOOLEAN]
    BY <1>5, <1>t DEF DialSession, WorkerRests, Nobody, UdpTypeOK
  <2>5. UNCHANGED <<sessions, reader, removed, active, drain, entry>>
    BY <1>5 DEF DialSession
  <2> QED
    BY <2>1, <2>2, <2>3, <2>4, <2>5 DEF UdpTypeOK, UdpWorkerRecord
<1>6. ASSUME NEW w \in UdpWorkers, Insert(w) PROVE UdpTypeOK'
  <2>1. worker' \in [UdpWorkers -> UdpWorkerRecord]
    BY <1>6, <1>t DEF Insert, WorkerUses, WorkerRests, WorkerAt, Nobody, UdpTypeOK, UdpWorkerRecord
  <2>2. conn' \in [Dials -> {"unmade", "open", "closed"}]
    BY <1>6, <1>t DEF Insert, WorkerUses, WorkerRests, WorkerAt, Nobody, UdpTypeOK
  <2>3. sessions' \in [UdpClients -> 0..MaxDials]
    <3>1. worker[w].session \in 0..MaxDials
      BY <1>t DEF UdpWorkerRecord
    <3> QED
      BY <1>6, <3>1 DEF Insert, UdpTypeOK
  <2>4. UNCHANGED <<clientOf, fresh, reader, removed, active, drain, entry>>
    BY <1>6 DEF Insert
  <2> QED
    BY <2>1, <2>2, <2>3, <2>4 DEF UdpTypeOK, UdpWorkerRecord
<1>7. ASSUME NEW w \in UdpWorkers, CountSession(w) PROVE UdpTypeOK'
  <2>1. worker' \in [UdpWorkers -> UdpWorkerRecord]
    BY <1>7, <1>t DEF CountSession, WorkerAt, UdpTypeOK, UdpWorkerRecord
  <2>2. active' \in [up : Nat, down : Nat]
    BY <1>7, <1>t DEF CountSession, WorkerAt, UdpTypeOK
  <2>3. reader' \in [Dials -> {"unmade", "reads", "removes", "over"}]
    BY <1>7, <1>t DEF CountSession, WorkerAt, UdpTypeOK
  <2>4. UNCHANGED <<sessions, conn, clientOf, fresh, removed, drain, entry>>
    BY <1>7 DEF CountSession
  <2> QED
    BY <2>1, <2>2, <2>3, <2>4 DEF UdpTypeOK, UdpWorkerRecord
<1>8. ASSUME NEW w \in UdpWorkers, WritesPacket(w) PROVE UdpTypeOK'
  <2>1. worker' \in [UdpWorkers -> UdpWorkerRecord]
    BY <1>8, <1>t DEF WritesPacket, WorkerAt, WorkerRests, Nobody, UdpTypeOK, UdpWorkerRecord
  <2>2. UNCHANGED <<sessions, conn, clientOf, fresh, reader, removed, active, drain, entry>>
    BY <1>8 DEF WritesPacket
  <2> QED
    BY <2>1, <2>2 DEF UdpTypeOK, UdpWorkerRecord
<1>9. ASSUME NEW w \in UdpWorkers, WorkerRemoves(w) PROVE UdpTypeOK'
  <2>1. worker' \in [UdpWorkers -> UdpWorkerRecord]
    BY <1>9, <1>t DEF WorkerRemoves, WorkerRests, Nobody, Removes, UdpTypeOK, UdpWorkerRecord
  <2>2. sessions' \in [UdpClients -> 0..MaxDials]
    BY <1>9, <1>t DEF WorkerRemoves, WorkerRests, Nobody, Removes, UdpTypeOK
  <2>3. removed' \subseteq Dials
    <3>1. worker[w].client \in UdpClients
      BY <1>9 DEF WorkerRemoves, Held
    <3> QED
      BY <1>9, <3>1, RemovedTyped DEF WorkerRemoves
  <2>4. UNCHANGED <<conn, clientOf, fresh, reader, active, drain, entry>>
    BY <1>9 DEF WorkerRemoves
  <2> QED
    BY <2>1, <2>2, <2>3, <2>4 DEF UdpTypeOK, UdpWorkerRecord
<1>10. ASSUME NEW s \in Dials, ReadFails(s) PROVE UdpTypeOK'
  <2>1. reader' \in [Dials -> {"unmade", "reads", "removes", "over"}]
    BY <1>10, <1>t DEF ReadFails, UdpTypeOK
  <2>2. UNCHANGED <<sessions, conn, clientOf, fresh, removed, active, worker, drain, entry>>
    BY <1>10 DEF ReadFails
  <2> QED
    BY <2>1, <2>2 DEF UdpTypeOK, UdpWorkerRecord
<1>11. ASSUME NEW s \in Dials, ReaderRemoves(s) PROVE UdpTypeOK'
  <2>1. sessions' \in [UdpClients -> 0..MaxDials]
    BY <1>11, <1>t DEF ReaderRemoves, Removes, UdpTypeOK
  <2>2. removed' \subseteq Dials
    <3>1. clientOf[s] \in UdpClients
      BY <1>11 DEF ReaderRemoves, Held
    <3> QED
      BY <1>11, <3>1, RemovedTyped DEF ReaderRemoves
  <2>3. reader' \in [Dials -> {"unmade", "reads", "removes", "over"}]
    BY <1>11, <1>t DEF ReaderRemoves, Removes, UdpTypeOK
  <2>4. UNCHANGED <<conn, clientOf, fresh, active, worker, drain, entry>>
    BY <1>11 DEF ReaderRemoves
  <2> QED
    BY <2>1, <2>2, <2>3, <2>4 DEF UdpTypeOK, UdpWorkerRecord
<1>12. ASSUME NEW s \in Dials, ClosesRemoved(s) PROVE UdpTypeOK'
  <2>1. removed' \subseteq Dials
    BY <1>12, <1>t DEF ClosesRemoved, UdpTypeOK
  <2>2. conn' \in [Dials -> {"unmade", "open", "closed"}]
    BY <1>12, <1>t DEF ClosesRemoved, UdpTypeOK
  <2>3. active' \in [up : Nat, down : Nat]
    BY <1>12, <1>t DEF ClosesRemoved, UdpTypeOK
  <2>4. UNCHANGED <<sessions, clientOf, fresh, reader, worker, drain, entry>>
    BY <1>12 DEF ClosesRemoved
  <2> QED
    BY <2>1, <2>2, <2>3, <2>4 DEF UdpTypeOK, UdpWorkerRecord
<1>13. ASSUME NEW s \in Dials, FallsSilent(s) PROVE UdpTypeOK'
  <2>1. fresh' \in [Dials -> BOOLEAN]
    BY <1>13, <1>t DEF FallsSilent, UdpTypeOK
  <2>2. UNCHANGED <<sessions, conn, clientOf, reader, removed, active, worker, drain, entry>>
    BY <1>13 DEF FallsSilent
  <2> QED
    BY <2>1, <2>2 DEF UdpTypeOK, UdpWorkerRecord
<1>14. ASSUME Expires PROVE UdpTypeOK'
  <2>1. sessions' \in [UdpClients -> 0..MaxDials]
    BY <1>14, <1>t DEF Expires, Live, UdpTypeOK
  <2>2. removed' \subseteq Dials
    <3>1. \A c \in Live : sessions[c] \in Dials
      BY UdpAssumption DEF Live, UdpTypeOK, Dials
    <3> QED
      BY <1>14, <3>1 DEF Expires, UdpTypeOK
  <2>3. UNCHANGED <<conn, clientOf, fresh, reader, active, worker, drain, entry>>
    BY <1>14 DEF Expires
  <2> QED
    BY <2>1, <2>2, <2>3 DEF UdpTypeOK, UdpWorkerRecord
<1>15. ASSUME Drains PROVE UdpTypeOK'
  <2>1. drain' \subseteq UdpClients
    BY <1>15, <1>t DEF Drains, Live, UdpTypeOK
  <2>2. UNCHANGED <<sessions, conn, clientOf, fresh, reader, removed, active, worker, entry>>
    BY <1>15 DEF Drains
  <2> QED
    BY <2>1, <2>2 DEF UdpTypeOK, UdpWorkerRecord
<1>16. ASSUME NEW c \in UdpClients, DrainRemoves(c) PROVE UdpTypeOK'
  <2>1. sessions' \in [UdpClients -> 0..MaxDials]
    BY <1>16, <1>t DEF DrainRemoves, Removes, UdpTypeOK
  <2>2. removed' \subseteq Dials
    <3> QED
      BY <1>16, RemovedTyped DEF DrainRemoves
  <2>3. drain' \subseteq UdpClients
    BY <1>16, <1>t DEF DrainRemoves, Removes, UdpTypeOK
  <2>4. UNCHANGED <<conn, clientOf, fresh, reader, active, worker, entry>>
    BY <1>16 DEF DrainRemoves
  <2> QED
    BY <2>1, <2>2, <2>3, <2>4 DEF UdpTypeOK, UdpWorkerRecord
<1>17. ASSUME Stops PROVE UdpTypeOK'
  <2>1. entry' \in {"serves", "closed", "drains", "forces", "stopped"}
    BY <1>17, <1>t DEF Stops, UdpTypeOK
  <2>2. UNCHANGED <<sessions, conn, clientOf, fresh, reader, removed, active, worker, drain>>
    BY <1>17 DEF Stops
  <2> QED
    BY <2>1, <2>2 DEF UdpTypeOK, UdpWorkerRecord
<1>18. ASSUME StopWaits PROVE UdpTypeOK'
  <2>1. entry' \in {"serves", "closed", "drains", "forces", "stopped"}
    BY <1>18, <1>t DEF StopWaits, UdpTypeOK
  <2>2. UNCHANGED <<sessions, conn, clientOf, fresh, reader, removed, active, worker, drain>>
    BY <1>18 DEF StopWaits
  <2> QED
    BY <2>1, <2>2 DEF UdpTypeOK, UdpWorkerRecord
<1>19. ASSUME StopForces PROVE UdpTypeOK'
  <2>1. entry' \in {"serves", "closed", "drains", "forces", "stopped"}
    BY <1>19, <1>t DEF StopForces, Live, UdpTypeOK
  <2>2. drain' \subseteq UdpClients
    BY <1>19, <1>t DEF StopForces, Live, UdpTypeOK
  <2>3. UNCHANGED <<sessions, conn, clientOf, fresh, reader, removed, active, worker>>
    BY <1>19 DEF StopForces
  <2> QED
    BY <2>1, <2>2, <2>3 DEF UdpTypeOK, UdpWorkerRecord
<1>20. ASSUME StopReturns PROVE UdpTypeOK'
  <2>1. entry' \in {"serves", "closed", "drains", "forces", "stopped"}
    BY <1>20, <1>t DEF StopReturns, UdpTypeOK
  <2>2. UNCHANGED <<sessions, conn, clientOf, fresh, reader, removed, active, worker, drain>>
    BY <1>20 DEF StopReturns
  <2> QED
    BY <2>1, <2>2 DEF UdpTypeOK, UdpWorkerRecord
<1>21. ASSUME UNCHANGED udpVars PROVE UdpTypeOK'
  BY <1>21 DEF udpVars, UdpTypeOK
<1> QED
  BY <1>1, <1>2, <1>3, <1>4, <1>5, <1>6, <1>7, <1>8, <1>9, <1>10, <1>11, <1>12, <1>13,
     <1>14, <1>15, <1>16, <1>17, <1>18, <1>19, <1>20, <1>21
  DEF UdpNext, UdpWorkerStep

\* Sessions that are deleted, one or many: each counts among the removed instead.
LEMMA RemovalsCount ==
  ASSUME UdpInv, NEW K \in SUBSET Live, UNCHANGED active, Counting' = Counting,
         sessions' = [c \in UdpClients |-> IF c \in K THEN 0 ELSE sessions[c]],
         removed' = removed \cup {sessions[c] : c \in K}
  PROVE  Counted'
<1> DEFINE T == {sessions[c] : c \in K}
           f == [c \in K |-> sessions[c]]
<1>1. IsFiniteSet(K) /\ Cardinality(K) \in Nat
  BY UdpFinite, FS_Subset, FS_CardinalityType DEF UdpInv
<1>2. \A c, d \in K : sessions[c] = sessions[d] => c = d
  BY DEF UdpInv, Held, Live
<1>3. f \in Bijection(K, T)
  BY <1>2 DEF Bijection, Injection, Surjection, IsInjective
<1>4. IsFiniteSet(T) /\ Cardinality(T) = Cardinality(K)
  BY <1>1, <1>3, FS_Bijection DEF ExistsBijection
<1>5. removed \cap T = {}
  BY DEF UdpInv, Held, Live
<1> HIDE DEF T
<1>6. Cardinality(removed') = Cardinality(removed) + Cardinality(K)
  <2>1. Cardinality(removed \cup T)
          = Cardinality(removed) + Cardinality(T) - Cardinality(removed \cap T)
    BY <1>4, UdpFinite, FS_Union DEF UdpInv
  <2> QED
    <3>1. removed' = removed \cup T
      BY DEF T
    <3>2. Cardinality(removed \cap T) = 0
      BY <1>5, FS_EmptySet
    <3>3. Cardinality(removed) \in Nat
      BY UdpFinite DEF UdpInv
    <3>4. Cardinality(removed') = Cardinality(removed \cup T)
      BY <3>1
    <3> QED
      BY <1>1, <1>4, <2>1, <3>2, <3>3, <3>4
<1>7. Live' = Live \ K /\ Live \cap K = K
  BY DEF Live
<1>8. Cardinality(Live') = Cardinality(Live) - Cardinality(K)
  BY <1>7, UdpFinite, FS_Difference DEF UdpInv
<1>9. Cardinality(Live') <= Cardinality(Live)
  BY <1>1, <1>8, UdpFinite DEF UdpInv
<1> QED
  BY <1>1, <1>6, <1>8, <1>9, UdpFinite, Conjuncts, UdpAssumption DEF UdpInv, Counted

\* removeSession of one key.
LEMMA RemovesOne ==
  ASSUME UdpInv, NEW key \in UdpClients, Removes(key)
  PROVE  \E K \in SUBSET Live :
            /\ sessions' = [c \in UdpClients |-> IF c \in K THEN 0 ELSE sessions[c]]
            /\ removed' = removed \cup {sessions[c] : c \in K}
<1>1. sessions \in [UdpClients -> 0..MaxDials]
  BY DEF UdpInv, UdpTypeOK
<1>2. CASE sessions[key] = 0
  <2>1. sessions' = [c \in UdpClients |-> IF c \in {} THEN 0 ELSE sessions[c]]
    BY <1>1, <1>2 DEF Removes
  <2>2. removed' = removed \cup {sessions[c] : c \in {}}
    BY <1>2 DEF Removes
  <2> QED
    BY <2>1, <2>2
<1>3. CASE sessions[key] # 0
  <2>1. sessions' = [c \in UdpClients |-> IF c \in {key} THEN 0 ELSE sessions[c]]
    BY <1>1, <1>3 DEF Removes
  <2>2. removed' = removed \cup {sessions[c] : c \in {key}}
    BY <1>3 DEF Removes
  <2>3. {key} \in SUBSET Live
    BY <1>3 DEF Live
  <2> QED
    BY <2>1, <2>2, <2>3
<1> QED
  BY <1>2, <1>3

\* Who deletes sessions becomes their owner; workers that dial are not disturbed.
LEMMA RemovalsKeep ==
  ASSUME UdpInv, NEW K \in SUBSET Live, UNCHANGED <<conn, clientOf, active>>,
         sessions' = [c \in UdpClients |-> IF c \in K THEN 0 ELSE sessions[c]],
         removed' = removed \cup {sessions[c] : c \in K},
         \A w \in UdpWorkers :
             \/ worker'[w] = worker[w]
             \/ worker[w].at = "removes" /\ worker'[w].at = "idle",
         \A s \in Dials : reader'[s] # "unmade" => reader[s] # "unmade"
  PROVE  Held' /\ SessionsAreOwned'
<1>t. sessions \in [UdpClients -> 0..MaxDials] /\ Dials = 1..MaxDials /\ MaxDials \in Nat
      /\ removed \subseteq Dials
  BY UdpAssumption DEF UdpInv, UdpTypeOK, Dials
<1>0. UdpTypeOK /\ Held /\ OpenIsOwned
  BY Conjuncts DEF UdpInv
<1>1. Counting' = Counting
  BY DEF Counting
<1>2. Counted'
  BY <1>1, RemovalsCount
<1>3. \A w \in UdpWorkers : worker'[w].at # "idle" => worker'[w] = worker[w]
  OBVIOUS
<1>4. \A c \in UdpClients : sessions'[c] # 0 =>
          sessions'[c] = sessions[c] /\ c \notin K
  OBVIOUS
<1>5. \A s \in Dials : s \in removed' <=> s \in removed \/ \E c \in K : s = sessions[c]
  OBVIOUS
<1>6. Held'
  <2>1. \A s \in Dials : reader'[s] # "unmade" => conn'[s] # "unmade"
    BY <1>0 DEF Held
  <2>2. \A s \in Dials : conn'[s] # "unmade" => clientOf'[s] \in UdpClients
    BY <1>0 DEF Held
  <2>3. \A c \in UdpClients : sessions'[c] # 0 =>
           conn'[sessions'[c]] # "unmade" /\ clientOf'[sessions'[c]] = c
             /\ sessions'[c] \notin removed'
    <3> SUFFICES ASSUME NEW c \in UdpClients, sessions'[c] # 0
                 PROVE  conn[sessions[c]] # "unmade" /\ clientOf[sessions[c]] = c
                          /\ sessions[c] \notin removed'
      BY <1>4
    <3>1. sessions[c] # 0 /\ c \notin K /\ sessions[c] \in Dials
      BY <1>4, <1>t
    <3>2. conn[sessions[c]] # "unmade" /\ clientOf[sessions[c]] = c /\ sessions[c] \notin removed
      BY <3>1, <1>0 DEF Held
    <3>3. \A d \in K : clientOf[sessions[d]] = d
      BY <1>0 DEF Held, Live
    <3> QED
      BY <3>1, <3>2, <3>3, <1>5
  <2>4. \A s \in removed' : conn'[s] # "unmade"
    BY <1>0 DEF Held, Live
  <2>5. \A w \in UdpWorkers :
           /\ worker'[w].at # "idle" => worker'[w].client \in UdpClients
           /\ worker'[w].at \in {"inserts", "counts"} =>
                 worker'[w].session \in Dials /\ conn'[worker'[w].session] # "unmade"
    BY <1>0, <1>3 DEF Held
  <2>6. \A w \in UdpWorkers : worker'[w].at = "inserts" =>
           /\ clientOf'[worker'[w].session] = worker'[w].client
           /\ \A c \in UdpClients : sessions'[c] # worker'[w].session
           /\ worker'[w].session \notin removed'
    <3> SUFFICES ASSUME NEW w \in UdpWorkers, worker'[w].at = "inserts"
                 PROVE  /\ clientOf[worker[w].session] = worker[w].client
                        /\ \A c \in UdpClients : sessions'[c] # worker[w].session
                        /\ worker[w].session \notin removed'
      BY <1>3
    <3>1. /\ clientOf[worker[w].session] = worker[w].client /\ worker[w].session \in Dials
          /\ \A c \in UdpClients : sessions[c] # worker[w].session
          /\ worker[w].session \notin removed
      BY <1>0, <1>3 DEF Held, Dialled
    <3>2. worker[w].session # 0
      BY <3>1, <1>t
    <3> QED
      BY <3>1, <3>2, <1>4, <1>5 DEF Live
  <2>7. \A w, v \in UdpWorkers :
           worker'[w].at = "inserts" /\ worker'[v].at = "inserts"
             /\ worker'[v].session = worker'[w].session => v = w
    BY <1>0, <1>3 DEF Held, Dialled
  <2> QED
    BY <2>1, <2>2, <2>3, <2>4, <2>5, <2>6, <2>7 DEF Held, Dialled
<1>7. OpenIsOwned'
  <2> SUFFICES ASSUME NEW s \in Dials, conn[s] = "open"
               PROVE  \/ sessions'[clientOf[s]] = s
                      \/ s \in removed'
                      \/ \E w \in UdpWorkers : Dialled(w)' /\ worker'[w].session = s
    BY DEF OpenIsOwned
  <2>1. CASE sessions[clientOf[s]] = s
    BY <2>1, <1>0, <1>t DEF Held
  <2>2. CASE s \in removed
    BY <2>2
  <2>3. CASE \E w \in UdpWorkers : Dialled(w) /\ worker[w].session = s
    BY <2>3 DEF Dialled
  <2> QED
    BY <2>1, <2>2, <2>3, <1>0 DEF OpenIsOwned
<1> QED
  BY <1>2, <1>6, <1>7, Conjuncts

\* Who changes no session, no connection and no worker's part in them keeps the rest.
LEMMA UdpStays ==
  ASSUME UdpInv, UNCHANGED <<sessions, conn, clientOf, removed, active>>,
         \A w \in UdpWorkers :
             \/ worker'[w] = worker[w]
             \/ /\ worker[w].at \notin {"inserts", "counts"}
                /\ worker'[w].at \notin {"inserts", "counts"}
                /\ worker'[w].at # "idle" => worker'[w].client \in UdpClients,
         \A s \in Dials : reader'[s] # "unmade" => reader[s] # "unmade"
  PROVE  Held' /\ SessionsAreOwned'
<1>0. UdpTypeOK /\ Held /\ OpenIsOwned /\ Counted
  BY Conjuncts DEF UdpInv
<1>1. Counting' = Counting /\ Live' = Live
  BY DEF Counting, Live
<1>2. Counted'
  BY <1>0, <1>1 DEF Counted
<1>3. \A w \in UdpWorkers : worker'[w].at \in {"inserts", "counts"} => worker'[w] = worker[w]
  OBVIOUS
<1>4. \A w \in UdpWorkers : Dialled(w)' <=> Dialled(w)
  BY DEF Dialled
<1>5. Held'
  BY <1>0, <1>3, <1>4 DEF Held, Dialled
<1>6. OpenIsOwned'
  BY <1>0, <1>3, <1>4 DEF OpenIsOwned, Dialled
<1> QED
  BY <1>2, <1>5, <1>6, Conjuncts

\* A dialled connection is new: nobody else has it.
LEMMA DialKeeps ==
  ASSUME UdpInv, NEW w \in UdpWorkers, DialSession(w)
  PROVE  Held' /\ SessionsAreOwned'
<1>0. UdpTypeOK /\ Held /\ OpenIsOwned /\ Counted
  BY Conjuncts DEF UdpInv
<1>a. /\ worker \in [UdpWorkers -> UdpWorkerRecord] /\ worker[w].at = "dials"
      /\ worker[w].client \in UdpClients
  BY <1>0 DEF UdpTypeOK, UdpWorkerRecord, Held, DialSession
<1>b. UNCHANGED <<sessions, reader, removed, active, drain, entry>>
  BY DEF DialSession
<1>1. CASE WorkerRests(w) /\ UNCHANGED <<conn, clientOf, fresh>>
  <2>1. \A v \in UdpWorkers :
           \/ worker'[v] = worker[v]
           \/ worker[v].at \notin {"inserts", "counts"} /\ worker'[v].at = "idle"
    <3>1. worker'[w] = Nobody /\ \A v \in UdpWorkers \ {w} : worker'[v] = worker[v]
      BY <1>1, <1>a DEF WorkerRests
    <3>2. worker'[w].at = "idle"
      BY <3>1 DEF Nobody
    <3> QED
      BY <3>1, <3>2, <1>a
  <2> QED
    BY <2>1, <1>1, <1>b, UdpStays
<1>2. CASE ~(WorkerRests(w) /\ UNCHANGED <<conn, clientOf, fresh>>)
  <2>1. PICK s \in Dials :
          /\ conn[s] = "unmade"
          /\ conn' = [conn EXCEPT ![s] = "open"]
          /\ clientOf' = [clientOf EXCEPT ![s] = worker[w].client]
          /\ worker' = [worker EXCEPT ![w].at = "inserts", ![w].session = s]
    BY <1>2 DEF DialSession
  <2>2. /\ conn'[s] = "open" /\ clientOf'[s] = worker[w].client
        /\ \A t \in Dials \ {s} : conn'[t] = conn[t] /\ clientOf'[t] = clientOf[t]
    BY <2>1, <1>0 DEF UdpTypeOK
  <2>3. /\ worker'[w].at = "inserts" /\ worker'[w].session = s
        /\ worker'[w].client = worker[w].client
        /\ \A v \in UdpWorkers \ {w} : worker'[v] = worker[v]
    BY <2>1, <1>a DEF UdpWorkerRecord
  <2>4. /\ s \notin removed
        /\ \A c \in UdpClients : sessions[c] # s
        /\ \A v \in UdpWorkers :
              worker[v].at \in {"inserts", "counts"} => worker[v].session # s
    BY <2>1, <1>0 DEF Held, UdpTypeOK, Dials
  <2>5. Counting' = Counting /\ Live' = Live
    BY <1>a, <1>b, <2>3 DEF Counting, Live
  <2>6. Counted'
    BY <1>0, <1>b, <2>5 DEF Counted
  <2>7. \A t \in Dials : conn[t] # "unmade" => t # s
    BY <2>1
  <2>8. Held'
    <3>1. \A t \in Dials : reader'[t] # "unmade" => conn'[t] # "unmade"
      BY <1>0, <1>b, <2>2 DEF Held
    <3>2. \A t \in Dials : conn'[t] # "unmade" => clientOf'[t] \in UdpClients
      BY <1>0, <1>a, <2>2 DEF Held
    <3>3. \A c \in UdpClients : sessions'[c] # 0 =>
             conn'[sessions'[c]] # "unmade" /\ clientOf'[sessions'[c]] = c
               /\ sessions'[c] \notin removed'
      <4> SUFFICES ASSUME NEW c \in UdpClients, sessions[c] # 0
                   PROVE  conn'[sessions[c]] # "unmade" /\ clientOf'[sessions[c]] = c
                            /\ sessions[c] \notin removed
        BY <1>b
      <4>1. sessions[c] \in Dials \ {s}
        BY <1>0, <2>4, UdpAssumption DEF UdpTypeOK, Dials
      <4> QED
        BY <4>1, <2>2, <1>0 DEF Held
    <3>4. \A t \in removed' : conn'[t] # "unmade"
      BY <1>0, <1>b, <2>2, <2>4 DEF Held, UdpTypeOK
    <3>5. \A v \in UdpWorkers :
             /\ worker'[v].at # "idle" => worker'[v].client \in UdpClients
             /\ worker'[v].at \in {"inserts", "counts"} =>
                   worker'[v].session \in Dials /\ conn'[worker'[v].session] # "unmade"
      BY <1>0, <1>a, <2>2, <2>3, <2>4 DEF Held
    <3>6. \A v \in UdpWorkers : worker'[v].at = "inserts" =>
             /\ clientOf'[worker'[v].session] = worker'[v].client
             /\ worker'[v].session \notin removed'
             /\ \A c \in UdpClients : sessions'[c] # worker'[v].session
      BY <1>0, <1>b, <2>2, <2>3, <2>4 DEF Held, Dialled
    <3>7. \A v, u \in UdpWorkers :
             worker'[v].at = "inserts" /\ worker'[u].at = "inserts"
               /\ worker'[u].session = worker'[v].session => u = v
      BY <1>0, <2>3, <2>4 DEF Held, Dialled
    <3> QED
      BY <3>1, <3>2, <3>3, <3>4, <3>5, <3>6, <3>7 DEF Held, Dialled
  <2>9. OpenIsOwned'
    <3> SUFFICES ASSUME NEW t \in Dials, conn'[t] = "open"
                 PROVE  \/ sessions[clientOf'[t]] = t
                        \/ t \in removed
                        \/ \E v \in UdpWorkers : Dialled(v)' /\ worker'[v].session = t
      BY <1>b DEF OpenIsOwned
    <3>1. CASE t = s
      BY <3>1, <2>3 DEF Dialled
    <3>2. CASE t # s
      <4>1. conn[t] = "open" /\ clientOf'[t] = clientOf[t]
        BY <3>2, <2>2
      <4>2. ASSUME NEW v \in UdpWorkers, Dialled(v), worker[v].session = t
            PROVE  Dialled(v)' /\ worker'[v].session = t
        <5>1. v # w
          BY <4>2, <1>a DEF Dialled
        <5> QED
          BY <5>1, <4>2, <2>3 DEF Dialled
      <4> QED
        BY <4>1, <4>2, <1>0 DEF OpenIsOwned
    <3> QED
      BY <3>1, <3>2
  <2> QED
    BY <2>6, <2>8, <2>9, Conjuncts
<1> QED
  BY <1>1, <1>2

\* Who closes a connection it dialled, or a session it has deleted, leaves the others.
LEMMA ClosingKeeps ==
  ASSUME UdpInv, NEW s \in Dials, UNCHANGED <<sessions, clientOf>>,
         conn[s] # "unmade", conn' = [conn EXCEPT ![s] = "closed"],
         UNCHANGED reader, removed' \subseteq removed, removed \ {s} \subseteq removed',
         \A w \in UdpWorkers :
             \/ worker'[w] = worker[w]
             \/ /\ worker[w].at = "inserts" /\ worker[w].session = s
                /\ worker'[w].at \in {"idle", "writes"}
                /\ worker'[w].at # "idle" => worker'[w].client \in UdpClients
  PROVE  Held' /\ OpenIsOwned' /\ Counting' = Counting /\ Live' = Live
<1>0. UdpTypeOK /\ Held /\ OpenIsOwned
  BY Conjuncts DEF UdpInv
<1>1. conn'[s] = "closed" /\ \A t \in Dials \ {s} : conn'[t] = conn[t]
  BY <1>0 DEF UdpTypeOK
<1>2. \A t \in Dials : conn'[t] # "unmade" <=> conn[t] # "unmade"
  BY <1>1
<1>3. \A w \in UdpWorkers : worker'[w].at \in {"inserts", "counts"} => worker'[w] = worker[w]
  OBVIOUS
<1>4. \A w \in UdpWorkers : worker'[w].at # "idle" => worker'[w].client \in UdpClients
  BY <1>0 DEF Held
<1>5. Held'
  <2>1. \A c \in UdpClients : sessions[c] # 0 => sessions[c] \in Dials
    BY <1>0, UdpAssumption DEF UdpTypeOK, Dials
  <2>2. \A c \in UdpClients : sessions[c] # 0 => conn'[sessions[c]] # "unmade"
    BY <2>1, <1>0, <1>2 DEF Held
  <2>3. \A t \in removed' : conn'[t] # "unmade"
    BY <1>0, <1>2 DEF Held, UdpTypeOK
  <2>4. \A w \in UdpWorkers : worker'[w].at \in {"inserts", "counts"} =>
           worker'[w].session \in Dials /\ conn'[worker'[w].session] # "unmade"
    BY <1>0, <1>2, <1>3 DEF Held
  <2>5. \A w \in UdpWorkers : worker'[w].at = "inserts" =>
           /\ clientOf'[worker'[w].session] = worker'[w].client
           /\ worker'[w].session \notin removed'
           /\ \A c \in UdpClients : sessions'[c] # worker'[w].session
    BY <1>0, <1>3 DEF Held, Dialled
  <2>6. \A w, v \in UdpWorkers :
           worker'[w].at = "inserts" /\ worker'[v].at = "inserts"
             /\ worker'[v].session = worker'[w].session => v = w
    BY <1>0, <1>3 DEF Held, Dialled
  <2>7. \A t \in Dials : reader'[t] # "unmade" => conn'[t] # "unmade"
    BY <1>0, <1>2 DEF Held
  <2>8. \A t \in Dials : conn'[t] # "unmade" => clientOf'[t] \in UdpClients
    BY <1>0, <1>2 DEF Held
  <2>9. \A c \in UdpClients : sessions'[c] # 0 =>
           conn'[sessions'[c]] # "unmade" /\ clientOf'[sessions'[c]] = c
             /\ sessions'[c] \notin removed'
    BY <2>2, <1>0 DEF Held
  <2> QED
    BY <1>4, <2>3, <2>4, <2>5, <2>6, <2>7, <2>8, <2>9 DEF Held, Dialled
<1>6. OpenIsOwned'
  <2> SUFFICES ASSUME NEW t \in Dials, conn'[t] = "open"
               PROVE  \/ sessions[clientOf[t]] = t
                      \/ t \in removed'
                      \/ \E w \in UdpWorkers : Dialled(w)' /\ worker'[w].session = t
    BY DEF OpenIsOwned
  <2>1. t # s /\ conn[t] = "open"
    BY <1>1
  <2>2. ASSUME NEW w \in UdpWorkers, Dialled(w), worker[w].session = t
        PROVE  Dialled(w)' /\ worker'[w].session = t
    BY <2>1, <2>2 DEF Dialled
  <2> QED
    BY <2>1, <2>2, <1>0 DEF OpenIsOwned
<1>7. Counting' = Counting /\ Live' = Live
  BY DEF Counting, Live
<1> QED
  BY <1>5, <1>6, <1>7

\* Under the lock the session is new to its client, or the connection is closed.
LEMMA InsertKeeps ==
  ASSUME UdpInv, NEW w \in UdpWorkers, Insert(w)
  PROVE  Held' /\ SessionsAreOwned'
<1> DEFINE c == worker[w].client
           s == worker[w].session
<1>0. UdpTypeOK /\ Held /\ OpenIsOwned /\ Counted
  BY Conjuncts DEF UdpInv
<1>a. /\ worker \in [UdpWorkers -> UdpWorkerRecord] /\ worker[w].at = "inserts"
      /\ c \in UdpClients /\ s \in Dials /\ s # 0 /\ conn[s] # "unmade" /\ clientOf[s] = c
      /\ s \notin removed /\ \A d \in UdpClients : sessions[d] # s
      /\ \A v \in UdpWorkers : Dialled(v) /\ worker[v].session = s => v = w
  BY <1>0, UdpAssumption DEF UdpTypeOK, UdpWorkerRecord, Held, Dialled, Dials, Insert
<1>b. UNCHANGED <<clientOf, fresh, reader, removed, active, drain, entry>>
  BY DEF Insert
<1>1. ASSUME UNCHANGED sessions, conn' = [conn EXCEPT ![s] = "closed"],
             worker'[w].at \in {"idle", "writes"}, worker'[w].at # "idle" => worker'[w].client = c,
             \A v \in UdpWorkers \ {w} : worker'[v] = worker[v]
      PROVE  Held' /\ SessionsAreOwned'
  <2>1. Held' /\ OpenIsOwned' /\ Counting' = Counting /\ Live' = Live
    BY <1>1, <1>a, <1>b, ClosingKeeps
  <2>2. Counted'
    BY <2>1, <1>0, <1>b DEF Counted
  <2> QED
    BY <2>1, <2>2, Conjuncts
<1>2. CASE /\ conn' = [conn EXCEPT ![s] = "closed"] /\ UNCHANGED sessions
           /\ WorkerUses(w, sessions[c]) \/ WorkerRests(w)
  <2>1. /\ worker'[w].at \in {"idle", "writes"}
        /\ worker'[w].at # "idle" => worker'[w].client = c
        /\ \A v \in UdpWorkers \ {w} : worker'[v] = worker[v]
    BY <1>2, <1>a DEF WorkerUses, WorkerRests, Nobody, UdpWorkerRecord
  <2> QED
    BY <2>1, <1>1, <1>2
<1>3. CASE /\ sessions[c] = 0 /\ Cardinality(Live) < MaxSessions /\ UNCHANGED conn
           /\ sessions' = [sessions EXCEPT ![c] = s] /\ WorkerAt(w, "counts")
  <2>1. /\ worker'[w] = [worker[w] EXCEPT !.at = "counts"]
        /\ \A v \in UdpWorkers \ {w} : worker'[v] = worker[v]
    BY <1>3, <1>a DEF WorkerAt
  <2>2. worker'[w].at = "counts" /\ worker'[w].session = s /\ worker'[w].client = c
    BY <2>1, <1>a DEF UdpWorkerRecord
  <2>3. sessions'[c] = s /\ \A d \in UdpClients \ {c} : sessions'[d] = sessions[d]
    BY <1>3, <1>0, <1>a DEF UdpTypeOK
  <2>4. Counted'
    <3>1. Live' = Live \cup {c} /\ c \notin Live
      BY <1>3, <1>a, <2>3 DEF Live
    <3>2. Cardinality(Live') = Cardinality(Live) + 1
      BY <3>1, <1>0, UdpFinite, FS_AddElement
    <3>3. Counting' = Counting \cup {w} /\ w \notin Counting
      <4>1. \A v \in UdpWorkers : worker'[v].at = "counts" <=> worker[v].at = "counts" \/ v = w
        BY <2>1, <2>2
      <4>2. worker[w].at # "counts"
        BY <1>a
      <4> QED
        BY <4>1, <4>2 DEF Counting
    <3>4. Cardinality(Counting') = Cardinality(Counting) + 1
      BY <3>3, <1>0, UdpFinite, FS_AddElement
    <3>5. Cardinality(Live) + 1 <= MaxSessions
      BY <1>0, <1>3, UdpFinite, UdpAssumption
    <3>6. Cardinality(removed') = Cardinality(removed)
      BY <1>b
    <3> QED
      BY <1>0, <1>b, <3>2, <3>4, <3>5, <3>6, UdpFinite DEF Counted
  <2>5. Held'
    <3>1. \A d \in UdpClients : sessions'[d] # 0 =>
             conn'[sessions'[d]] # "unmade" /\ clientOf'[sessions'[d]] = d
               /\ sessions'[d] \notin removed'
      BY <1>0, <1>3, <1>a, <1>b, <2>3 DEF Held
    <3>2. \A v \in UdpWorkers :
             /\ worker'[v].at # "idle" => worker'[v].client \in UdpClients
             /\ worker'[v].at \in {"inserts", "counts"} =>
                   worker'[v].session \in Dials /\ conn'[worker'[v].session] # "unmade"
      <4> SUFFICES ASSUME NEW v \in UdpWorkers
                   PROVE  /\ worker'[v].at # "idle" => worker'[v].client \in UdpClients
                          /\ worker'[v].at \in {"inserts", "counts"} =>
                                worker'[v].session \in Dials /\ conn[worker'[v].session] # "unmade"
        BY <1>3
      <4>1. CASE v = w
        BY <4>1, <1>a, <2>2
      <4>2. CASE v # w
        BY <4>2, <1>0, <2>1 DEF Held
      <4> QED
        BY <4>1, <4>2
    <3>3. \A v \in UdpWorkers : worker'[v].at = "inserts" => v # w /\ worker'[v] = worker[v]
      BY <2>1, <2>2
    <3>4. \A v \in UdpWorkers : worker'[v].at = "inserts" =>
             /\ clientOf'[worker'[v].session] = worker'[v].client
             /\ worker'[v].session \notin removed'
             /\ \A d \in UdpClients : sessions'[d] # worker'[v].session
      <4> SUFFICES ASSUME NEW v \in UdpWorkers, worker'[v].at = "inserts"
                   PROVE  /\ clientOf[worker[v].session] = worker[v].client
                          /\ worker[v].session \notin removed
                          /\ \A d \in UdpClients : sessions'[d] # worker[v].session
        BY <3>3, <1>b
      <4>1. v # w /\ worker[v].at = "inserts"
        BY <3>3
      <4>2. worker[v].session # s
        BY <4>1, <1>a DEF Dialled
      <4> QED
        BY <4>1, <4>2, <1>0, <2>3 DEF Held, Dialled
    <3>5. \A v, u \in UdpWorkers :
             worker'[v].at = "inserts" /\ worker'[u].at = "inserts"
               /\ worker'[u].session = worker'[v].session => u = v
      BY <1>0, <3>3 DEF Held, Dialled
    <3> QED
      BY <1>0, <1>3, <1>b, <3>1, <3>2, <3>4, <3>5 DEF Held, Dialled
  <2>6. OpenIsOwned'
    <3> SUFFICES ASSUME NEW t \in Dials, conn[t] = "open"
                 PROVE  \/ sessions'[clientOf[t]] = t
                        \/ t \in removed
                        \/ \E v \in UdpWorkers : Dialled(v)' /\ worker'[v].session = t
      BY <1>3, <1>b DEF OpenIsOwned
    <3>1. CASE t = s
      BY <3>1, <1>a, <2>3
    <3>2. CASE t # s
      <4>1. ASSUME sessions[clientOf[t]] = t PROVE sessions'[clientOf[t]] = t
        <5>1. clientOf[t] \in UdpClients /\ t # 0
          BY <1>0, UdpAssumption DEF Held, Dials
        <5>2. clientOf[t] # c
          BY <4>1, <5>1, <1>3
        <5> QED
          BY <4>1, <5>1, <5>2, <2>3
      <4>2. ASSUME NEW v \in UdpWorkers, Dialled(v), worker[v].session = t
            PROVE  Dialled(v)' /\ worker'[v].session = t
        <5>1. v # w
          BY <4>2, <3>2
        <5> QED
          BY <5>1, <4>2, <2>1 DEF Dialled
      <4> QED
        BY <4>1, <4>2, <1>0 DEF OpenIsOwned
    <3> QED
      BY <3>1, <3>2
  <2> QED
    BY <2>4, <2>5, <2>6, Conjuncts
<1> QED
  BY <1>2, <1>3 DEF Insert

\* Who has inserted counts the session, once.
LEMMA CountKeeps ==
  ASSUME UdpInv, NEW w \in UdpWorkers, CountSession(w)
  PROVE  Held' /\ SessionsAreOwned'
<1>0. UdpTypeOK /\ Held /\ OpenIsOwned /\ Counted
  BY Conjuncts DEF UdpInv
<1>1. /\ worker \in [UdpWorkers -> UdpWorkerRecord] /\ worker[w].at = "counts"
      /\ worker[w].session \in Dials /\ conn[worker[w].session] # "unmade"
      /\ worker[w].client \in UdpClients
  BY <1>0 DEF UdpTypeOK, UdpWorkerRecord, Held, CountSession
<1>2. UNCHANGED <<sessions, conn, clientOf, fresh, removed, drain, entry>>
  BY DEF CountSession
<1>3. /\ worker'[w] = [worker[w] EXCEPT !.at = "writes"]
      /\ \A v \in UdpWorkers \ {w} : worker'[v] = worker[v]
  BY <1>1 DEF CountSession, WorkerAt
<1>4. worker'[w].at = "writes" /\ worker'[w].client = worker[w].client
  BY <1>1, <1>3 DEF UdpWorkerRecord
<1>5. Counted'
  <2>1. Counting' = Counting \ {w} /\ w \in Counting
    <3>1. \A v \in UdpWorkers : worker'[v].at = "counts" <=> worker[v].at = "counts" /\ v # w
      BY <1>3, <1>4
    <3> QED
      BY <1>1, <3>1 DEF Counting
  <2>2. Cardinality(Counting') = Cardinality(Counting) - 1
    BY <2>1, <1>0, UdpFinite, FS_RemoveElement
  <2>3. active'.up = active.up + 1 /\ active'.down = active.down
    BY <1>0 DEF CountSession, UdpTypeOK
  <2>4. Live' = Live /\ Cardinality(removed') = Cardinality(removed)
    BY <1>2 DEF Live
  <2> QED
    BY <1>0, <2>2, <2>3, <2>4, UdpFinite DEF Counted
<1>6. \A v \in UdpWorkers : worker'[v].at \in {"inserts", "counts"} => worker'[v] = worker[v]
  BY <1>3, <1>4
<1>7. Held'
  <2>1. \A t \in Dials : reader'[t] # "unmade" => conn'[t] # "unmade"
    BY <1>0, <1>1, <1>2 DEF Held, CountSession, UdpTypeOK
  <2>2. \A v \in UdpWorkers : worker'[v].at # "idle" => worker'[v].client \in UdpClients
    BY <1>0, <1>1, <1>3, <1>4 DEF Held
  <2> QED
    BY <1>0, <1>2, <1>6, <2>1, <2>2 DEF Held, Dialled
<1>8. OpenIsOwned'
  <2>1. \A v \in UdpWorkers : Dialled(v) => worker'[v] = worker[v]
    BY <1>1, <1>3 DEF Dialled
  <2> QED
    BY <1>0, <1>2, <2>1 DEF OpenIsOwned, Dialled
<1> QED
  BY <1>5, <1>7, <1>8, Conjuncts

\* Who has deleted a session closes it and counts it down, once.
LEMMA CloseKeeps ==
  ASSUME UdpInv, NEW s \in Dials, ClosesRemoved(s)
  PROVE  Held' /\ SessionsAreOwned'
<1>0. UdpTypeOK /\ Held /\ OpenIsOwned /\ Counted
  BY Conjuncts DEF UdpInv
<1>1. /\ s \in removed /\ removed' = removed \ {s} /\ conn[s] # "unmade"
      /\ conn' = [conn EXCEPT ![s] = "closed"]
      /\ UNCHANGED <<sessions, clientOf, fresh, reader, worker, drain, entry>>
  BY <1>0 DEF ClosesRemoved, Held
<1>2. Held' /\ OpenIsOwned' /\ Counting' = Counting /\ Live' = Live
  BY <1>1, ClosingKeeps
<1>3. Cardinality(removed') = Cardinality(removed) - 1
  BY <1>0, <1>1, UdpFinite, FS_RemoveElement
<1>4. active'.up = active.up /\ active'.down = active.down + 1
  BY <1>0 DEF ClosesRemoved, UdpTypeOK
<1>5. Counted'
  BY <1>0, <1>2, <1>3, <1>4, UdpFinite DEF Counted
<1> QED
  BY <1>2, <1>5, Conjuncts

\* No step leaves a connection or a count to nobody.
LEMMA UdpNextKeeps ==
  ASSUME UdpInv, [UdpNext]_udpVars
  PROVE  Held' /\ SessionsAreOwned'
<1>0. UdpTypeOK /\ Held
  BY DEF UdpInv
<1>t. worker \in [UdpWorkers -> UdpWorkerRecord] /\ reader \in [Dials -> {"unmade", "reads", "removes", "over"}]
  BY <1>0 DEF UdpTypeOK
<1> DEFINE Goal == Held' /\ SessionsAreOwned'
<1>1. ASSUME NEW w \in UdpWorkers, NEW c \in UdpClients, TakeDatagram(w, c) PROVE Goal
  <2>1. UNCHANGED <<sessions, conn, clientOf, removed, active, reader>>
    BY <1>1 DEF TakeDatagram
  <2>2. \A v \in UdpWorkers \ {w} : worker'[v] = worker[v]
    BY <1>1, <1>t DEF TakeDatagram
  <2>3. /\ worker[w].at \notin {"inserts", "counts"}
        /\ worker'[w].at \notin {"inserts", "counts"}
        /\ worker'[w].at # "idle" => worker'[w].client \in UdpClients
    BY <1>1, <1>0, <1>t DEF TakeDatagram, Held, UdpWorkerRecord
  <2> QED
    BY <2>1, <2>2, <2>3, UdpStays
<1>2. ASSUME NEW w \in UdpWorkers, LookUp(w) PROVE Goal
  <2>1. UNCHANGED <<sessions, conn, clientOf, removed, active, reader>>
    BY <1>2 DEF LookUp
  <2>2. \A v \in UdpWorkers \ {w} : worker'[v] = worker[v]
    BY <1>2, <1>t DEF LookUp
  <2>3. /\ worker[w].at \notin {"inserts", "counts"}
        /\ worker'[w].at \notin {"inserts", "counts"}
        /\ worker'[w].at # "idle" => worker'[w].client \in UdpClients
    BY <1>2, <1>0, <1>t DEF LookUp, Held, UdpWorkerRecord
  <2> QED
    BY <2>1, <2>2, <2>3, UdpStays
<1>3. ASSUME NEW w \in UdpWorkers, Refuses(w) PROVE Goal
  <2>1. UNCHANGED <<sessions, conn, clientOf, removed, active, reader>>
    BY <1>3 DEF Refuses
  <2>2. \A v \in UdpWorkers \ {w} : worker'[v] = worker[v]
    BY <1>3, <1>t DEF Refuses, WorkerRests, Nobody
  <2>3. /\ worker[w].at \notin {"inserts", "counts"}
        /\ worker'[w].at \notin {"inserts", "counts"}
        /\ worker'[w].at # "idle" => worker'[w].client \in UdpClients
    BY <1>3, <1>0, <1>t DEF Refuses, WorkerRests, Nobody, Held, UdpWorkerRecord
  <2> QED
    BY <2>1, <2>2, <2>3, UdpStays
<1>4. ASSUME NEW w \in UdpWorkers, HasRoom(w) PROVE Goal
  <2>1. UNCHANGED <<sessions, conn, clientOf, removed, active, reader>>
    BY <1>4 DEF HasRoom
  <2>2. \A v \in UdpWorkers \ {w} : worker'[v] = worker[v]
    BY <1>4, <1>t DEF HasRoom, WorkerAt
  <2>3. /\ worker[w].at \notin {"inserts", "counts"}
        /\ worker'[w].at \notin {"inserts", "counts"}
        /\ worker'[w].at # "idle" => worker'[w].client \in UdpClients
    BY <1>4, <1>0, <1>t DEF HasRoom, WorkerAt, Held, UdpWorkerRecord
  <2> QED
    BY <2>1, <2>2, <2>3, UdpStays
<1>5. ASSUME NEW w \in UdpWorkers, DialSession(w) \/ Insert(w) \/ CountSession(w) PROVE Goal
  BY <1>5, DialKeeps, InsertKeeps, CountKeeps
<1>6. ASSUME NEW w \in UdpWorkers, WritesPacket(w) PROVE Goal
  <2>1. UNCHANGED <<sessions, conn, clientOf, removed, active, reader>>
    BY <1>6 DEF WritesPacket
  <2>2. \A v \in UdpWorkers \ {w} : worker'[v] = worker[v]
    BY <1>6, <1>t DEF WritesPacket, WorkerAt, WorkerRests, Nobody
  <2>3. /\ worker[w].at \notin {"inserts", "counts"}
        /\ worker'[w].at \notin {"inserts", "counts"}
        /\ worker'[w].at # "idle" => worker'[w].client \in UdpClients
    BY <1>6, <1>0, <1>t DEF WritesPacket, WorkerAt, WorkerRests, Nobody, Held, UdpWorkerRecord
  <2> QED
    BY <2>1, <2>2, <2>3, UdpStays
<1>7. ASSUME NEW w \in UdpWorkers, WorkerRemoves(w) PROVE Goal
  <2>1. worker[w].client \in UdpClients /\ Removes(worker[w].client)
    BY <1>7, <1>0 DEF WorkerRemoves, Held
  <2>2. UNCHANGED <<conn, clientOf, active, reader>>
    BY <1>7 DEF WorkerRemoves
  <2>3. PICK K \in SUBSET Live :
          /\ sessions' = [c \in UdpClients |-> IF c \in K THEN 0 ELSE sessions[c]]
          /\ removed' = removed \cup {sessions[c] : c \in K}
    BY <2>1, RemovesOne
  <2>4. \A v \in UdpWorkers :
           \/ worker'[v] = worker[v]
           \/ worker[v].at = "removes" /\ worker'[v].at = "idle"
    <3>1. worker'[w] = Nobody /\ \A v \in UdpWorkers \ {w} : worker'[v] = worker[v]
      BY <1>7, <1>t DEF WorkerRemoves, WorkerRests
    <3>2. worker'[w].at = "idle" /\ worker[w].at = "removes"
      BY <1>7, <3>1 DEF WorkerRemoves, Nobody
    <3> QED
      BY <3>1, <3>2
  <2> QED
    BY <2>2, <2>3, <2>4, RemovalsKeep
<1>8. ASSUME NEW s \in Dials, ReadFails(s) PROVE Goal
  <2>1. UNCHANGED <<sessions, conn, clientOf, removed, active, worker>>
    BY <1>8 DEF ReadFails
  <2>2. \A t \in Dials : reader'[t] # "unmade" => reader[t] # "unmade"
    BY <1>8, <1>t DEF ReadFails
  <2> QED
    BY <2>1, <2>2, UdpStays
<1>9. ASSUME NEW s \in Dials, ReaderRemoves(s) PROVE Goal
  <2>1. clientOf[s] \in UdpClients /\ Removes(clientOf[s])
    BY <1>9, <1>0 DEF ReaderRemoves, Held
  <2>2. UNCHANGED <<conn, clientOf, active, worker>>
    BY <1>9 DEF ReaderRemoves
  <2>3. PICK K \in SUBSET Live :
          /\ sessions' = [c \in UdpClients |-> IF c \in K THEN 0 ELSE sessions[c]]
          /\ removed' = removed \cup {sessions[c] : c \in K}
    BY <2>1, RemovesOne
  <2>4. \A t \in Dials : reader'[t] # "unmade" => reader[t] # "unmade"
    BY <1>9, <1>t DEF ReaderRemoves
  <2> QED
    BY <2>2, <2>3, <2>4, RemovalsKeep
<1>10. ASSUME NEW s \in Dials, ClosesRemoved(s) PROVE Goal
  BY <1>10, CloseKeeps
<1>11. ASSUME NEW s \in Dials, FallsSilent(s) PROVE Goal
  BY <1>11, UdpStays DEF FallsSilent
<1>12. ASSUME Expires PROVE Goal
  <2> DEFINE K == {c \in Live : ~fresh[sessions[c]]}
  <2>1. /\ K \in SUBSET Live
        /\ sessions' = [c \in UdpClients |-> IF c \in K THEN 0 ELSE sessions[c]]
        /\ removed' = removed \cup {sessions[c] : c \in K}
        /\ UNCHANGED <<conn, clientOf, active, worker, reader>>
    BY <1>12 DEF Expires
  <2> HIDE DEF K
  <2> QED
    BY <2>1, RemovalsKeep
<1>13. ASSUME NEW c \in UdpClients, DrainRemoves(c) PROVE Goal
  <2>1. c \in UdpClients /\ Removes(c)
    BY <1>13 DEF DrainRemoves
  <2>2. UNCHANGED <<conn, clientOf, active, worker, reader>>
    BY <1>13 DEF DrainRemoves
  <2>3. PICK K \in SUBSET Live :
          /\ sessions' = [d \in UdpClients |-> IF d \in K THEN 0 ELSE sessions[d]]
          /\ removed' = removed \cup {sessions[d] : d \in K}
    BY <2>1, RemovesOne
  <2> QED
    BY <2>2, <2>3, RemovalsKeep
<1>14. ASSUME Drains PROVE Goal
  BY <1>14, UdpStays DEF Drains
<1>15. ASSUME Stops PROVE Goal
  BY <1>15, UdpStays DEF Stops
<1>16. ASSUME StopWaits PROVE Goal
  BY <1>16, UdpStays DEF StopWaits
<1>17. ASSUME StopForces PROVE Goal
  BY <1>17, UdpStays DEF StopForces
<1>18. ASSUME StopReturns PROVE Goal
  BY <1>18, UdpStays DEF StopReturns
<1>19. ASSUME UNCHANGED udpVars PROVE Goal
  BY <1>19, UdpStays DEF udpVars
<1> HIDE DEF Goal
<1>20. ASSUME NEW w \in UdpWorkers, UdpWorkerStep(w) PROVE Goal
  BY <1>1, <1>2, <1>3, <1>4, <1>5, <1>6, <1>7, <1>20 DEF UdpWorkerStep
<1>21. Goal
  BY <1>8, <1>9, <1>10, <1>11, <1>12, <1>13, <1>14, <1>15, <1>16, <1>17, <1>18, <1>19, <1>20
  DEF UdpNext
<1> QED
  BY <1>21 DEF Goal

LEMMA UdpInvInit == UdpInit => UdpInv
<1> SUFFICES ASSUME UdpInit PROVE UdpInv
  OBVIOUS
<1>1. 0 \in 0..MaxDials /\ Nobody \in UdpWorkerRecord
  BY UdpAssumption DEF Nobody, UdpWorkerRecord
<1>2. UdpTypeOK
  BY <1>1 DEF UdpInit, UdpTypeOK
<1>3. Held
  BY DEF UdpInit, Held, Dialled, Nobody
<1>4. OpenIsOwned
  BY DEF UdpInit, OpenIsOwned
<1>5. Live = {} /\ Counting = {} /\ removed = {}
  BY DEF UdpInit, Live, Counting, Nobody
<1>6. Counted
  <2>1. active.up = 0 /\ active.down = 0 /\ Cardinality({}) = 0
    BY FS_EmptySet DEF UdpInit
  <2> QED
    BY <1>5, <2>1, UdpAssumption DEF Counted
<1> QED
  BY <1>2, <1>3, <1>4, <1>6, Conjuncts DEF UdpInv

LEMMA UdpInvNext == UdpInv /\ [UdpNext]_udpVars => UdpInv'
BY UdpTypeNext, UdpNextKeeps DEF UdpInv

LEMMA UdpInvariant == UdpSpec => []UdpInv
BY UdpInvInit, UdpInvNext, PTL DEF UdpSpec

\* Every open backend connection is somebody's, the limit holds and what status reports is
\* the number of sessions, whatever workers, loops, expiries, drains and a stop meet
\* (handleDatagram, backendLoop, removeSession, expireIdleSessions, drain and stop of
\* adapters/in/traffic/udp.go).
THEOREM SessionsOwned == UdpSpec => []SessionsAreOwned
<1>1. UdpInv => SessionsAreOwned
  BY DEF UdpInv
<1> QED
  BY <1>1, UdpInvariant, PTL

-----------------------------------------------------------------------------
(* CertificateStore: where a certificate is                                *)

\* A name leads to a certificate that is whole and no older than what Save has returned
\* nil for; when it leads nowhere, the backup is one.
Kept ==
    \A i \in Certificates :
        /\ live[i] # 0 => files[live[i]] = Files /\ acked[i] <= live[i]
        /\ live[i] = 0 /\ old[i] # 0 => files[old[i]] = Files /\ acked[i] <= old[i]
        /\ live[i] = 0 /\ old[i] = 0 => acked[i] = 0

\* A directory has one name.
Apart ==
    /\ \A i, j \in Certificates : live[i] = old[j] => live[i] = 0
    /\ \A i, j \in Certificates : i # j =>
          /\ live[i] = live[j] => live[i] = 0
          /\ old[i] = old[j] => old[i] = 0
    /\ \A i \in Certificates, s \in Savers :
          temp[s] # 0 => live[i] # temp[s] /\ old[i] # temp[s]
    /\ \A s, t \in Savers : s # t /\ temp[s] = temp[t] => temp[s] = 0

Busy(s) == saver[s].at \notin {"idle", "publishes"}
Alone   == \A s, t \in Savers : Busy(s) /\ Busy(t) => s = t

\* A Save has a directory that it alone writes; once it has put the certificate in place
\* aside, the name is free for the new one.
Saving(s) ==
    LET save == saver[s] IN
    /\ opener[Server].at # "up" => save = NoSave
    /\ save.at # "idle" => save.id \in Certificates
    /\ save.at \in {"recovers", "makes"} => made < MaxDirs
    /\ save.dir \in 0..made
    /\ save.at \in {"pem", "metadata", "clears", "backs", "commits"} =>
          save.dir # 0 /\ temp[s] = save.dir /\ \A i \in Certificates : acked[i] < save.dir
    /\ save.at = "metadata" => "pem" \in files[save.dir]
    /\ save.at \in {"clears", "backs", "commits"} => files[save.dir] = Files
    /\ save.at \in {"makes", "pem", "metadata", "clears", "backs"} =>
          (live[save.id] = 0 => old[save.id] = 0)
    /\ save.at \in {"commits", "reverts"} => live[save.id] = 0
    /\ save.at = "cleans" => live[save.id] = save.dir /\ save.dir # 0

\* What a Save knows of itself, whoever opens the store meanwhile.
Placed(s) ==
    /\ saver[s].at # "idle" => saver[s].id \in Certificates
    /\ saver[s].at \in {"recovers", "makes"} => made < MaxDirs
    /\ saver[s].dir \in 0..made

\* The server opens the store with nobody else in it: it empties no directory that is in
\* place, and it does not load before every backup that is needed is back.
Opening ==
    LET open == opener[Server] IN
    /\ open.at = "unlinks" => open.dir # 0 /\ \E s \in Savers : temp[s] = open.dir
    /\ open.at \in {"scans", "unlinks"} =>
          \A i \in Certificates : live[i] = 0 /\ old[i] # 0 => i \in open.olds
    /\ open.at = "loads" => \A i \in Certificates : live[i] = 0 => old[i] = 0

StoreInv ==
    /\ StoreTypeOK
    /\ Kept
    /\ Apart
    /\ Alone
    /\ \A s \in Savers : Saving(s)
    /\ Opening

\* The others of a Save are outside the lock, and the store is open.
LEMMA Bystanders ==
  ASSUME StoreInv, NEW s \in Savers, Busy(s), UNCHANGED opener,
         made' \in {made, made + 1}, \A t \in Savers \ {s} : saver'[t] = saver[t]
  PROVE  Alone' /\ Opening' /\ \A t \in Savers \ {s} : Saving(t)'
<1>1. Alone /\ (\A t \in Savers : Saving(t)) /\ saver[s] # NoSave
  BY DEF StoreInv, Busy, NoSave
<1>2. opener[Server].at = "up"
  BY <1>1 DEF Saving
<1>3. \A t \in Savers \ {s} : saver'[t].at \in {"idle", "publishes"}
  BY <1>1 DEF Alone, Busy
<1>4. Alone'
  BY <1>3 DEF Alone, Busy
<1>5. Opening'
  BY <1>2 DEF Opening
<1>6. ASSUME NEW t \in Savers \ {s} PROVE Saving(t)'
  <2>1. saver[t].dir \in 0..made' /\ saver'[t] = saver[t]
    BY <1>1, <1>6, StoreAssumption DEF StoreInv, StoreTypeOK, Saving
  <2>2. (saver'[t].at # "idle" => saver'[t].id \in Certificates) /\ opener'[Server].at = "up"
    BY <1>1, <1>2, <1>6, <2>1 DEF Saving
  <2> QED
    BY <1>3, <1>6, <2>1, <2>2 DEF Saving, Files
<1> QED
  BY <1>4, <1>5, <1>6

\* What Save leaves of its backup, if anything, is the backup of no other.
LEMMA RemovesOldKeeps ==
  ASSUME StoreInv, NEW i \in Certificates, live[i] = 0 => old[i] = 0, RemovesOld(i),
         UNCHANGED <<live, temp, made>>
  PROVE  /\ \A j \in Certificates : live[j] # 0 => files'[live[j]] = files[live[j]]
         /\ \A j \in Certificates : live[j] = 0 => old'[j] = old[j]
         /\ \A j \in Certificates \ {i} : old'[j] = old[j]
         /\ \A j \in Certificates \ {i} : old[j] # 0 => files'[old[j]] = files[old[j]]
         /\ \A s \in Savers : temp[s] # 0 => files'[temp[s]] = files[temp[s]]
         /\ old'[i] \in {0, old[i]}
<1>t. StoreTypeOK /\ Apart
  BY DEF StoreInv
<1>1. CASE old' = [old EXCEPT ![i] = 0] /\ UNCHANGED <<files, failures>>
  BY <1>1, <1>t DEF StoreTypeOK
<1>2. CASE old[i] # 0 /\ UNCHANGED old
            /\ \E left \in SUBSET files[old[i]] : files' = [files EXCEPT ![old[i]] = left]
  <2>1. \A d \in Dirs : d # old[i] => files'[d] = files[d]
    BY <1>2, <1>t DEF StoreTypeOK
  <2>2. \A j \in Certificates : live[j] # 0 => live[j] \in Dirs /\ live[j] # old[i]
    BY <1>2, <1>t, StoreAssumption DEF StoreTypeOK, Apart, Dirs
  <2>3. \A j \in Certificates \ {i} : old[j] # 0 => old[j] \in Dirs /\ old[j] # old[i]
    BY <1>2, <1>t, StoreAssumption DEF StoreTypeOK, Apart, Dirs
  <2>4. \A s \in Savers : temp[s] # 0 => temp[s] \in Dirs /\ temp[s] # old[i]
    BY <1>2, <1>t, StoreAssumption DEF StoreTypeOK, Apart, Dirs
  <2> QED
    BY <1>2, <2>1, <2>2, <2>3, <2>4
<1> QED
  BY <1>1, <1>2 DEF RemovesOld


\* Types.
LEMMA StoreRecords ==
  ASSUME StoreTypeOK
  PROVE  NoSave \in SaveRecord /\ Away \in OpenRecord
BY StoreAssumption DEF StoreTypeOK, NoSave, Away, SaveRecord, OpenRecord, Dirs

LEMMA SaverTypes ==
  ASSUME StoreTypeOK, NEW s \in Savers, Placed(s), SaverStep(s)
  PROVE  StoreTypeOK'
<1>t. StoreTypeOK /\ Placed(s)
  OBVIOUS
<1>r. NoSave \in SaveRecord /\ Away \in OpenRecord
  BY <1>t, StoreRecords
<1>s. /\ saver[s] \in SaveRecord
      /\ \A x \in SaveRecord : [saver EXCEPT ![s] = x] \in [Savers -> SaveRecord]
  BY <1>t DEF StoreTypeOK
<1>g. ASSUME NEW at \in {"idle", "recovers", "makes", "pem", "metadata", "clears", "backs",
                         "commits", "reverts", "cleans", "publishes"}, SaverGoes(s, at)
      PROVE  saver' \in [Savers -> SaveRecord]
  <2>1. [saver[s] EXCEPT !.at = at] \in SaveRecord
    BY <1>s DEF SaveRecord
  <2>2. saver' = [saver EXCEPT ![s] = [saver[s] EXCEPT !.at = at]]
    BY <1>g, <1>t DEF SaverGoes, StoreTypeOK
  <2> QED
    BY <1>s, <2>1, <2>2
<1>v. GivesUp(s) => saver' \in [Savers -> SaveRecord] /\ temp' \in [Savers -> 0..made]
  BY <1>t, <1>r, <1>s, StoreAssumption DEF GivesUp, StoreTypeOK
<1>f. Fails => failures' \in 0..MaxFailures
  BY <1>t, StoreAssumption DEF Fails, StoreTypeOK
<1>o. ASSUME NEW i \in Certificates, RemovesOld(i)
      PROVE  /\ old' \in [Certificates -> 0..made]
             /\ files' \in [Dirs -> SUBSET Files]
             /\ failures' \in 0..MaxFailures
  BY <1>o, <1>t, <1>f, StoreAssumption DEF RemovesOld, StoreTypeOK
<1>1. ASSUME NEW i \in Certificates, TakesLock(s, i) PROVE StoreTypeOK'
  <2>1. [at |-> "recovers", id |-> i, dir |-> 0, moved |-> FALSE] \in SaveRecord
    BY StoreAssumption DEF SaveRecord
  <2>2. saver' \in [Savers -> SaveRecord]
    BY <1>1, <1>s, <2>1 DEF TakesLock
  <2> QED
    BY <1>1, <1>t, <2>2 DEF TakesLock, StoreTypeOK
<1>2. CASE SaverRecovers(s)
  <2>1. saver' \in [Savers -> SaveRecord] /\ temp' \in [Savers -> 0..made]
    BY <1>2, <1>t, <1>g, <1>v DEF SaverRecovers, StoreTypeOK
  <2>2. live' \in [Certificates -> 0..made] /\ old' \in [Certificates -> 0..made]
    BY <1>2, <1>t, StoreAssumption DEF SaverRecovers, StoreTypeOK
  <2>3. failures' \in 0..MaxFailures
    BY <1>2, <1>t, <1>f DEF SaverRecovers, StoreTypeOK
  <2> QED
    BY <1>2, <1>t, <2>1, <2>2, <2>3 DEF SaverRecovers, StoreTypeOK
<1>3. CASE MakesTemp(s)
  <2>1. made < MaxDirs
    BY <1>3, <1>t DEF MakesTemp, Placed
  <2>2. made' \in 0..MaxDirs /\ 0..made \subseteq 0..made' /\ made + 1 \in 0..made'
    BY <1>3, <1>t, <2>1, StoreAssumption DEF MakesTemp, StoreTypeOK
  <2>m. made + 1 \in 0..MaxDirs
    BY <1>t, <2>1, StoreAssumption DEF StoreTypeOK
  <2>3. [[saver[s] EXCEPT !.at = "pem"] EXCEPT !.dir = made + 1] \in SaveRecord
    BY <1>s, <2>m DEF SaveRecord
  <2>4. saver' = [saver EXCEPT ![s] = [[saver[s] EXCEPT !.at = "pem"] EXCEPT !.dir = made + 1]]
    BY <1>3, <1>t DEF MakesTemp, StoreTypeOK
  <2>5. saver' \in [Savers -> SaveRecord]
    BY <1>s, <2>3, <2>4
  <2>6. temp' \in [Savers -> 0..made']
    BY <1>3, <1>t, <2>2 DEF MakesTemp, StoreTypeOK
  <2>7. /\ live' \in [Certificates -> 0..made'] /\ old' \in [Certificates -> 0..made']
        /\ acked' \in [Certificates -> 0..made'] /\ served' \in [Certificates -> 0..made']
    BY <1>3, <1>t, <2>2 DEF MakesTemp, StoreTypeOK
  <2> QED
    BY <1>3, <1>t, <2>2, <2>5, <2>6, <2>7 DEF MakesTemp, StoreTypeOK
<1>4. CASE WritesFile(s)
  <2>1. saver' \in [Savers -> SaveRecord] /\ temp' \in [Savers -> 0..made]
    BY <1>4, <1>t, <1>g, <1>v DEF WritesFile, StoreTypeOK
  <2>2. files' \in [Dirs -> SUBSET Files]
    BY <1>4, <1>t DEF WritesFile, StoreTypeOK
  <2>3. failures' \in 0..MaxFailures
    BY <1>4, <1>t, <1>f DEF WritesFile, StoreTypeOK
  <2> QED
    BY <1>4, <1>t, <2>1, <2>2, <2>3 DEF WritesFile, StoreTypeOK
<1>5. CASE ClearsBackup(s)
  <2>1. saver[s].id \in Certificates
    BY <1>5, <1>t DEF ClearsBackup, Placed
  <2>2. saver' \in [Savers -> SaveRecord]
    BY <1>5, <1>g DEF ClearsBackup
  <2> QED
    BY <1>5, <1>t, <1>o, <2>1, <2>2 DEF ClearsBackup, StoreTypeOK
<1>6. CASE BacksUp(s)
  <2>1. CASE GivesUp(s) /\ UNCHANGED <<live, old>> /\ (Fails \/ UNCHANGED failures)
    BY <1>6, <1>t, <1>v, <1>f, <2>1 DEF BacksUp, StoreTypeOK
  <2>2. CASE /\ live' = [live EXCEPT ![saver[s].id] = 0]
             /\ old' = IF live[saver[s].id] = 0 THEN old
                       ELSE [old EXCEPT ![saver[s].id] = live[saver[s].id]]
             /\ saver' = [saver EXCEPT ![s].at = "commits",
                                       ![s].moved = live[saver[s].id] # 0]
             /\ UNCHANGED <<temp, failures>>
    <3>1. [[saver[s] EXCEPT !.at = "commits"] EXCEPT !.moved = live[saver[s].id] # 0]
            \in SaveRecord
      BY <1>s DEF SaveRecord
    <3>2. saver' = [saver EXCEPT ![s] =
                      [[saver[s] EXCEPT !.at = "commits"] EXCEPT !.moved = live[saver[s].id] # 0]]
      BY <2>2, <1>t DEF StoreTypeOK
    <3>3. saver' \in [Savers -> SaveRecord]
      BY <1>s, <3>1, <3>2
    <3>4. live' \in [Certificates -> 0..made] /\ old' \in [Certificates -> 0..made]
      BY <1>6, <2>2, <1>t, StoreAssumption DEF BacksUp, Placed, StoreTypeOK
    <3> QED
      BY <1>6, <2>2, <1>t, <3>3, <3>4 DEF BacksUp, StoreTypeOK
  <2> QED
    BY <1>6, <2>1, <2>2 DEF BacksUp
<1>7. CASE Commits(s)
  <2>1. saver' \in [Savers -> SaveRecord]
    BY <1>7, <1>g DEF Commits
  <2>2. live' \in [Certificates -> 0..made] /\ temp' \in [Savers -> 0..made]
    BY <1>7, <1>t, StoreAssumption DEF Commits, StoreTypeOK
  <2>3. failures' \in 0..MaxFailures
    BY <1>7, <1>t, <1>f DEF Commits, StoreTypeOK
  <2> QED
    BY <1>7, <1>t, <2>1, <2>2, <2>3 DEF Commits, StoreTypeOK
<1>8. CASE Reverts(s)
  <2>1. saver' \in [Savers -> SaveRecord] /\ temp' \in [Savers -> 0..made]
    BY <1>8, <1>v DEF Reverts
  <2>2. live' \in [Certificates -> 0..made] /\ old' \in [Certificates -> 0..made]
    BY <1>8, <1>t, StoreAssumption DEF Reverts, StoreTypeOK
  <2>3. failures' \in 0..MaxFailures
    BY <1>8, <1>t, <1>f DEF Reverts, StoreTypeOK
  <2> QED
    BY <1>8, <1>t, <2>1, <2>2, <2>3 DEF Reverts, StoreTypeOK
<1>9. CASE SaveReturns(s)
  <2>1. saver[s].id \in Certificates /\ saver[s].dir \in 0..made
    BY <1>9, <1>t, StoreAssumption DEF SaveReturns, Placed, StoreTypeOK
  <2>2. saver' \in [Savers -> SaveRecord]
    BY <1>9, <1>g DEF SaveReturns
  <2>3. acked' \in [Certificates -> 0..made]
    BY <1>9, <1>t, <2>1 DEF SaveReturns, StoreTypeOK
  <2>4. /\ old' \in [Certificates -> 0..made] /\ files' \in [Dirs -> SUBSET Files]
        /\ failures' \in 0..MaxFailures
    BY <1>9, <1>t, <1>o, <2>1 DEF SaveReturns, StoreTypeOK
  <2> QED
    BY <1>9, <1>t, <2>2, <2>3, <2>4 DEF SaveReturns, StoreTypeOK
<1>10. CASE PublishesCertificate(s)
  <2>1. saver[s].dir \in 0..made
    BY <1>10, <1>t DEF PublishesCertificate, Placed
  <2>2. saver' \in [Savers -> SaveRecord]
    BY <1>10, <1>r, <1>s DEF PublishesCertificate
  <2>3. served' \in [Certificates -> 0..made]
    BY <1>10, <1>t, <2>1 DEF PublishesCertificate, StoreTypeOK
  <2> QED
    BY <1>10, <1>t, <2>2, <2>3 DEF PublishesCertificate, StoreTypeOK
<1> QED
  BY <1>1, <1>2, <1>3, <1>4, <1>5, <1>6, <1>7, <1>8, <1>9, <1>10 DEF SaverStep

LEMMA OpenerTypes ==
  ASSUME StoreTypeOK, NEW o \in Openers, OpenerStep(o)
  PROVE  StoreTypeOK'
<1>r. Away \in OpenRecord
  BY StoreRecords
<1>o. /\ opener[o] \in OpenRecord
      /\ \A x \in OpenRecord : [opener EXCEPT ![o] = x] \in [Openers -> OpenRecord]
  BY DEF StoreTypeOK
<1>f. Fails => failures' \in 0..MaxFailures
  BY StoreAssumption DEF Fails, StoreTypeOK
<1>a. OpenFails(o) => opener' \in [Openers -> OpenRecord]
  BY <1>r, <1>o DEF OpenFails
<1>d. {temp[s] : s \in Savers} \ {0} \subseteq Dirs /\ 0 \in 0..MaxDirs /\ Dirs \subseteq 0..MaxDirs
  BY StoreAssumption DEF StoreTypeOK, Dirs
<1>1. CASE OpensStore(o)
  <2>1. [[[Away EXCEPT !.at = "scans"] EXCEPT !.temps = {temp[s] : s \in Savers} \ {0}]
           EXCEPT !.olds = {i \in Certificates : old[i] # 0}] \in OpenRecord
    BY <1>r, <1>d DEF OpenRecord
  <2>2. opener' \in [Openers -> OpenRecord]
    BY <1>1, <1>o, <2>1 DEF OpensStore
  <2> QED
    BY <1>1, <2>2 DEF OpensStore, StoreTypeOK
<1>2. ASSUME NEW d \in Dirs, OpensTemp(o, d) PROVE StoreTypeOK'
  <2>1. CASE opener' = [opener EXCEPT ![o].temps = @ \ {d}]
    <3>1. [opener[o] EXCEPT !.temps = @ \ {d}] \in OpenRecord
      BY <1>o DEF OpenRecord
    <3>2. opener' = [opener EXCEPT ![o] = [opener[o] EXCEPT !.temps = @ \ {d}]]
      BY <2>1 DEF StoreTypeOK
    <3>3. opener' \in [Openers -> OpenRecord]
      BY <1>o, <3>1, <3>2
    <3> QED
      BY <1>2, <3>3 DEF OpensTemp, StoreTypeOK
  <2>2. CASE opener' = [opener EXCEPT ![o].at = "unlinks", ![o].dir = d,
                                      ![o].names = files[d], ![o].temps = @ \ {d}]
    <3> DEFINE next == [[[[opener[o] EXCEPT !.at = "unlinks"] EXCEPT !.dir = d]
                           EXCEPT !.names = files[d]] EXCEPT !.temps = @ \ {d}]
    <3>1. files[d] \subseteq Files
      BY DEF StoreTypeOK
    <3>2. next \in OpenRecord
      BY <1>o, <1>d, <3>1 DEF OpenRecord
    <3>3. opener' = [opener EXCEPT ![o] = next]
      BY <2>2 DEF StoreTypeOK
    <3>4. opener' \in [Openers -> OpenRecord]
      BY <1>o, <3>2, <3>3
    <3> QED
      BY <1>2, <3>4 DEF OpensTemp, StoreTypeOK
  <2> QED
    BY <1>2, <2>1, <2>2 DEF OpensTemp
<1>3. ASSUME NEW f \in Files, Unlinks(o, f) PROVE StoreTypeOK'
  <2>1. [opener[o] EXCEPT !.names = @ \ {f}] \in OpenRecord
    BY <1>o DEF OpenRecord
  <2>2. opener' = [opener EXCEPT ![o] = [opener[o] EXCEPT !.names = @ \ {f}]]
    BY <1>3 DEF Unlinks, StoreTypeOK
  <2>3. opener' \in [Openers -> OpenRecord]
    BY <1>o, <2>1, <2>2
  <2>4. files' \in [Dirs -> SUBSET Files]
    BY <1>3 DEF Unlinks, StoreTypeOK
  <2> QED
    BY <1>3, <2>3, <2>4 DEF Unlinks, StoreTypeOK
<1>4. CASE RemovesTemp(o)
  <2>1. ASSUME opener' = [opener EXCEPT ![o].at = "scans", ![o].dir = 0]
        PROVE  opener' \in [Openers -> OpenRecord]
    <3>1. [[opener[o] EXCEPT !.at = "scans"] EXCEPT !.dir = 0] \in OpenRecord
      BY <1>o, <1>d DEF OpenRecord
    <3>2. opener' = [opener EXCEPT ![o] = [[opener[o] EXCEPT !.at = "scans"] EXCEPT !.dir = 0]]
      BY <2>1 DEF StoreTypeOK
    <3> QED
      BY <1>o, <3>1, <3>2
  <2>2. opener' \in [Openers -> OpenRecord]
    BY <1>4, <1>a, <2>1 DEF RemovesTemp
  <2>3. temp' \in [Savers -> 0..made]
    BY <1>4, StoreAssumption DEF RemovesTemp, StoreTypeOK
  <2>4. failures' \in 0..MaxFailures
    BY <1>4, <1>f DEF RemovesTemp, StoreTypeOK
  <2> QED
    BY <1>4, <2>2, <2>3, <2>4 DEF RemovesTemp, StoreTypeOK
<1>5. ASSUME NEW i \in Certificates, LooksForBackup(o, i) PROVE StoreTypeOK'
  <2>1. [[opener[o] EXCEPT !.at = "recovers"] EXCEPT !.olds = {i}] \in OpenRecord
    BY <1>o DEF OpenRecord
  <2>2. [opener[o] EXCEPT !.olds = @ \ {i}] \in OpenRecord
    BY <1>o DEF OpenRecord
  <2>3. \/ opener' = [opener EXCEPT ![o] = [[opener[o] EXCEPT !.at = "recovers"]
                                              EXCEPT !.olds = {i}]]
        \/ opener' = [opener EXCEPT ![o] = [opener[o] EXCEPT !.olds = @ \ {i}]]
    BY <1>5 DEF LooksForBackup, StoreTypeOK
  <2>4. opener' \in [Openers -> OpenRecord]
    BY <1>o, <2>1, <2>2, <2>3
  <2> QED
    BY <1>5, <2>4 DEF LooksForBackup, StoreTypeOK
<1>6. CASE RestoresBackup(o)
  <2>1. PICK i \in opener[o].olds :
          \/ /\ live' = [live EXCEPT ![i] = old[i]]
             /\ old' = [old EXCEPT ![i] = 0]
             /\ opener' = [opener EXCEPT ![o].at = "scans",
                               ![o].olds = {j \in Certificates : old[j] # 0} \ {i}]
             /\ UNCHANGED failures
          \/ OpenFails(o) /\ UNCHANGED <<live, old>> /\ (Fails \/ UNCHANGED failures)
    BY <1>6 DEF RestoresBackup
  <2>2. i \in Certificates
    BY <1>o DEF OpenRecord
  <2>3. CASE OpenFails(o) /\ UNCHANGED <<live, old>> /\ (Fails \/ UNCHANGED failures)
    BY <1>6, <1>a, <1>f, <2>3 DEF RestoresBackup, StoreTypeOK
  <2>4. CASE /\ live' = [live EXCEPT ![i] = old[i]]
             /\ old' = [old EXCEPT ![i] = 0]
             /\ opener' = [opener EXCEPT ![o].at = "scans",
                               ![o].olds = {j \in Certificates : old[j] # 0} \ {i}]
             /\ UNCHANGED failures
    <3> DEFINE next == [[opener[o] EXCEPT !.at = "scans"]
                          EXCEPT !.olds = {j \in Certificates : old[j] # 0} \ {i}]
    <3>1. next \in OpenRecord
      BY <1>o DEF OpenRecord
    <3>2. opener' = [opener EXCEPT ![o] = next]
      BY <2>4 DEF StoreTypeOK
    <3>3. opener' \in [Openers -> OpenRecord]
      BY <1>o, <3>1, <3>2
    <3>4. live' \in [Certificates -> 0..made] /\ old' \in [Certificates -> 0..made]
      BY <2>2, <2>4, StoreAssumption DEF StoreTypeOK
    <3> QED
      BY <1>6, <2>4, <3>3, <3>4 DEF RestoresBackup, StoreTypeOK
  <2> QED
    BY <2>1, <2>3, <2>4
<1>7. CASE StoreOpened(o)
  <2>1. ASSUME NEW at \in {"loads", "down"} PROVE [opener[o] EXCEPT !.at = at] \in OpenRecord
    BY <1>o DEF OpenRecord
  <2>2. ASSUME NEW at \in {"loads", "down"}, OpenerGoes(o, at)
        PROVE  opener' = [opener EXCEPT ![o] = [opener[o] EXCEPT !.at = at]]
    BY <2>2 DEF OpenerGoes, StoreTypeOK
  <2>3. opener' \in [Openers -> OpenRecord]
    BY <1>7, <1>o, <2>1, <2>2 DEF StoreOpened
  <2> QED
    BY <1>7, <2>3 DEF StoreOpened, StoreTypeOK
<1> QED
  BY <1>1, <1>2, <1>3, <1>4, <1>5, <1>6, <1>7 DEF OpenerStep

LEMMA ServerTypes ==
  ASSUME StoreTypeOK, LoadsAll \/ ServerDies
  PROVE  StoreTypeOK'
<1>r. NoSave \in SaveRecord /\ Away \in OpenRecord /\ Server \in Openers
  BY StoreRecords DEF Openers
<1>1. CASE LoadsAll
  <2>1. [opener[Server] EXCEPT !.at = "up"] \in OpenRecord
    BY <1>r DEF StoreTypeOK, OpenRecord
  <2>2. opener' = [opener EXCEPT ![Server] = [opener[Server] EXCEPT !.at = "up"]]
    BY <1>1, <1>r DEF LoadsAll, OpenerGoes, StoreTypeOK
  <2>3. opener' \in [Openers -> OpenRecord]
    BY <2>1, <2>2, <1>r DEF StoreTypeOK
  <2>4. served' \in [Certificates -> 0..made]
    BY <1>1, StoreAssumption DEF LoadsAll, StoreTypeOK
  <2> QED
    BY <1>1, <2>3, <2>4 DEF LoadsAll, StoreTypeOK
<1>2. CASE ServerDies
  <2>1. opener' \in [Openers -> OpenRecord] /\ saver' \in [Savers -> SaveRecord]
    BY <1>2, <1>r DEF ServerDies, OpenFails, StoreTypeOK
  <2>2. served' \in [Certificates -> 0..made] /\ failures' \in 0..MaxFailures
    BY <1>2, StoreAssumption DEF ServerDies, Fails, StoreTypeOK
  <2> QED
    BY <1>2, <2>1, <2>2 DEF ServerDies, StoreTypeOK
<1> QED
  BY <1>1, <1>2

-----------------------------------------------------------------------------
(* CertificateStore: Save                                                  *)

\* A Save that gives up, or goes to its next step, is as good as it says.
LEMMA SaverInv ==
  ASSUME StoreInv, NEW s \in Savers, SaverStep(s)
  PROVE  Kept' /\ Apart' /\ Saving(s)'
<1>t. StoreTypeOK /\ Kept /\ Apart /\ Saving(s)
  BY DEF StoreInv
<1>d. saver[s] \in SaveRecord /\ saver' \in [Savers -> SaveRecord]
  <2>1. Placed(s)
    BY <1>t DEF Placed, Saving
  <2> QED
    BY <1>t, <2>1, SaverTypes DEF StoreTypeOK
<1>n. NoSave.at = "idle" /\ NoSave.dir = 0
  BY DEF NoSave
<1>g. ASSUME NEW at, SaverGoes(s, at)
      PROVE  saver'[s].at = at /\ saver'[s].id = saver[s].id /\ saver'[s].dir = saver[s].dir
             /\ (saver[s].at # "idle" => opener[Server].at = "up")
  BY <1>g, <1>t, <1>d, <1>n DEF SaverGoes, StoreTypeOK, SaveRecord, Saving
<1>v. GivesUp(s) => saver'[s] = NoSave /\ temp' = [temp EXCEPT ![s] = 0]
  BY <1>t DEF GivesUp, StoreTypeOK
<1>u. ASSUME GivesUp(s), UNCHANGED made PROVE Saving(s)'
  BY <1>u, <1>v, <1>n, <1>t, StoreAssumption DEF Saving, Files, StoreTypeOK
<1>a. ASSUME UNCHANGED <<live, old>>, GivesUp(s) \/ UNCHANGED temp PROVE Apart'
  BY <1>a, <1>t, <1>v DEF Apart, StoreTypeOK
<1>k. ASSUME UNCHANGED <<live, old, acked, files>> PROVE Kept'
  BY <1>k, <1>t DEF Kept
<1>1. ASSUME NEW i \in Certificates, TakesLock(s, i) PROVE Kept' /\ Apart' /\ Saving(s)'
  <2>1. Kept' /\ Apart'
    BY <1>1, <1>a, <1>k DEF TakesLock
  <2>2. /\ saver'[s] = [at |-> "recovers", id |-> i, dir |-> 0, moved |-> FALSE]
        /\ opener'[Server].at = "up" /\ made' < MaxDirs /\ 0 \in 0..made'
    BY <1>1, <1>t, StoreAssumption DEF TakesLock, StoreTypeOK
  <2>3. Saving(s)'
    BY <2>2 DEF Saving, Files
  <2> QED
    BY <2>1, <2>3
<1>2. CASE SaverRecovers(s)
  <2> DEFINE i == saver[s].id
  <2>i. i \in Certificates /\ saver[s].at = "recovers" /\ made < MaxDirs
    BY <1>2, <1>t DEF SaverRecovers, Saving
  <2>1. CASE /\ live[i] # 0 \/ old[i] = 0
             /\ SaverGoes(s, "makes")
             /\ UNCHANGED <<live, old, temp, files, acked, made, opener>>
    <3>1. Kept' /\ Apart'
      BY <2>1, <1>a, <1>k
    <3>2. Saving(s)'
      BY <2>1, <2>i, <1>t, <1>g DEF Saving, Files
    <3> QED
      BY <3>1, <3>2
  <2>2. CASE /\ live[i] = 0 /\ old[i] # 0
             /\ live' = [live EXCEPT ![i] = old[i]]
             /\ old' = [old EXCEPT ![i] = 0]
             /\ SaverGoes(s, "makes")
             /\ UNCHANGED <<temp, files, acked, made, opener>>
    <3>0. /\ live'[i] = old[i] /\ old'[i] = 0
          /\ \A j \in Certificates \ {i} : live'[j] = live[j] /\ old'[j] = old[j]
      BY <2>2, <2>i, <1>t DEF StoreTypeOK
    <3>1. Kept'
      BY <2>2, <2>i, <3>0, <1>t DEF Kept
    <3>2. Apart'
      BY <2>2, <2>i, <3>0, <1>t DEF Apart
    <3>3. Saving(s)'
      BY <2>2, <2>i, <3>0, <1>t, <1>g DEF Saving, Files
    <3> QED
      BY <3>1, <3>2, <3>3
  <2>3. CASE GivesUp(s) /\ UNCHANGED <<live, old, files, acked, made>>
    BY <2>3, <1>a, <1>k, <1>u
  <2> QED
    BY <1>2, <2>1, <2>2, <2>3 DEF SaverRecovers
<1>3. CASE MakesTemp(s)
  <2>i. saver[s].id \in Certificates /\ made \in Nat /\ opener[Server].at = "up"
    BY <1>3, <1>t, <1>n, StoreAssumption DEF MakesTemp, Saving, StoreTypeOK
  <2>1. /\ temp'[s] = made + 1
        /\ \A t \in Savers \ {s} : temp'[t] = temp[t]
        /\ saver'[s].at = "pem" /\ saver'[s].dir = made + 1 /\ saver'[s].id = saver[s].id
    BY <1>3, <1>t, <1>d DEF MakesTemp, StoreTypeOK, SaveRecord
  <2>2. \A j \in Certificates : live[j] < made + 1 /\ old[j] < made + 1 /\ acked[j] < made + 1
    BY <1>t, <2>i DEF StoreTypeOK
  <2>3. \A t \in Savers : temp[t] < made + 1
    BY <1>t, <2>i DEF StoreTypeOK
  <2>4. Kept'
    BY <1>3, <1>k DEF MakesTemp
  <2>5. Apart'
    BY <1>3, <1>t, <2>i, <2>1, <2>2, <2>3 DEF MakesTemp, Apart
  <2>6. saver'[s].dir \in 0..made' /\ made + 1 # 0
    BY <1>3, <2>i, <2>1 DEF MakesTemp
  <2>7. Saving(s)'
    BY <1>3, <1>t, <2>i, <2>1, <2>2, <2>6 DEF MakesTemp, Saving, Files
  <2> QED
    BY <2>4, <2>5, <2>7
<1>4. CASE WritesFile(s)
  <2>i. /\ saver[s].at \in {"pem", "metadata"} /\ saver[s].id \in Certificates
        /\ temp[s] = saver[s].dir /\ temp[s] \in Dirs
    BY <1>4, <1>t, StoreAssumption DEF WritesFile, Saving, StoreTypeOK, Files, Dirs
  <2>1. CASE /\ files' = [files EXCEPT ![temp[s]] = @ \cup {saver[s].at}]
             /\ SaverGoes(s, IF saver[s].at = "pem" THEN "metadata" ELSE "clears")
             /\ UNCHANGED <<live, old, temp, opener, acked, made>>
    <3>1. /\ files'[temp[s]] = files[temp[s]] \cup {saver[s].at}
          /\ \A d \in Dirs : d # temp[s] => files'[d] = files[d]
      BY <2>1, <2>i, <1>t DEF StoreTypeOK
    <3>2. \A j \in Certificates :
             /\ live[j] # 0 => files'[live[j]] = files[live[j]]
             /\ old[j] # 0 => files'[old[j]] = files[old[j]]
      BY <3>1, <2>i, <1>t, StoreAssumption DEF StoreTypeOK, Apart, Dirs
    <3>3. Kept'
      BY <2>1, <3>2, <1>t DEF Kept
    <3>4. Apart'
      BY <2>1, <1>a
    <3>5. files[temp[s]] \subseteq Files
      BY <2>i, <1>t DEF StoreTypeOK
    <3>6. Saving(s)'
      <4>1. CASE saver[s].at = "pem"
        BY <2>1, <2>i, <3>1, <4>1, <1>t, <1>g DEF Saving, Files
      <4>2. CASE saver[s].at = "metadata"
        BY <2>1, <2>i, <3>1, <3>5, <4>2, <1>t, <1>g DEF Saving, Files
      <4> QED
        BY <2>i, <4>1, <4>2
    <3> QED
      BY <3>3, <3>4, <3>6
  <2>2. CASE GivesUp(s) /\ UNCHANGED <<live, old, files, acked, made>>
    BY <2>2, <1>a, <1>k, <1>u
  <2> QED
    BY <1>4, <2>1, <2>2 DEF WritesFile
<1>5. CASE ClearsBackup(s)
  <2> DEFINE i == saver[s].id
  <2>i. /\ saver[s].at = "clears" /\ i \in Certificates /\ (live[i] = 0 => old[i] = 0)
        /\ UNCHANGED <<live, temp, opener, acked, made>> /\ RemovesOld(i)
        /\ SaverGoes(s, "backs")
    BY <1>5, <1>t DEF ClearsBackup, Saving
  <2>1. /\ \A j \in Certificates : live[j] # 0 => files'[live[j]] = files[live[j]]
        /\ \A j \in Certificates : live[j] = 0 => old'[j] = old[j]
        /\ \A j \in Certificates \ {i} : old'[j] = old[j]
        /\ \A j \in Certificates \ {i} : old[j] # 0 => files'[old[j]] = files[old[j]]
        /\ \A t \in Savers : temp[t] # 0 => files'[temp[t]] = files[temp[t]]
        /\ old'[i] \in {0, old[i]}
    BY <2>i, RemovesOldKeeps
  <2>2. Kept'
    BY <2>i, <2>1, <1>t DEF Kept
  <2>3. Apart'
    BY <2>i, <2>1, <1>t DEF Apart
  <2>4. Saving(s)'
    BY <2>i, <2>1, <1>t, <1>g DEF Saving, Files
  <2> QED
    BY <2>2, <2>3, <2>4
<1>6. CASE BacksUp(s)
  <2> DEFINE i == saver[s].id
  <2>i. saver[s].at = "backs" /\ i \in Certificates /\ (live[i] = 0 => old[i] = 0)
    BY <1>6, <1>t DEF BacksUp, Saving
  <2>1. CASE /\ live' = [live EXCEPT ![i] = 0]
             /\ old' = IF live[i] = 0 THEN old ELSE [old EXCEPT ![i] = live[i]]
             /\ saver' = [saver EXCEPT ![s].at = "commits", ![s].moved = live[i] # 0]
             /\ UNCHANGED <<temp, files, acked, made, opener>>
    <3>0. /\ live'[i] = 0 /\ old'[i] = live[i]
          /\ \A j \in Certificates \ {i} : live'[j] = live[j] /\ old'[j] = old[j]
      BY <2>1, <2>i, <1>t DEF StoreTypeOK
    <3>1. Kept'
      BY <2>1, <2>i, <3>0, <1>t DEF Kept
    <3>2. Apart'
      BY <2>1, <2>i, <3>0, <1>t DEF Apart
    <3>3. saver'[s].at = "commits" /\ saver'[s].id = i /\ saver'[s].dir = saver[s].dir
      BY <2>1, <1>t, <1>d DEF StoreTypeOK, SaveRecord
    <3>4. Saving(s)'
      BY <2>1, <2>i, <3>0, <3>3, <1>t, <1>n DEF Saving, Files
    <3> QED
      BY <3>1, <3>2, <3>4
  <2>2. CASE GivesUp(s) /\ UNCHANGED <<live, old, files, acked, made>>
    BY <2>2, <1>a, <1>k, <1>u
  <2> QED
    BY <1>6, <2>1, <2>2 DEF BacksUp
<1>7. CASE Commits(s)
  <2> DEFINE i == saver[s].id
  <2>i. /\ saver[s].at = "commits" /\ i \in Certificates /\ live[i] = 0
        /\ temp[s] = saver[s].dir /\ temp[s] # 0 /\ files[temp[s]] = Files
        /\ \A j \in Certificates : acked[j] < temp[s]
    BY <1>7, <1>t DEF Commits, Saving
  <2>1. CASE /\ live' = [live EXCEPT ![i] = temp[s]]
             /\ temp' = [temp EXCEPT ![s] = 0]
             /\ SaverGoes(s, "cleans")
             /\ UNCHANGED <<old, files, acked, made, opener>>
    <3>0. /\ live'[i] = temp[s] /\ temp'[s] = 0
          /\ \A j \in Certificates \ {i} : live'[j] = live[j]
          /\ \A t \in Savers \ {s} : temp'[t] = temp[t]
      BY <2>1, <2>i, <1>t DEF StoreTypeOK
    <3>m. acked[i] <= temp[s]
      BY <2>i, <1>t, StoreAssumption DEF StoreTypeOK
    <3>1. Kept'
      BY <2>1, <2>i, <3>0, <3>m, <1>t DEF Kept
    <3>2. Apart'
      BY <2>1, <2>i, <3>0, <1>t DEF Apart
    <3>3. Saving(s)'
      BY <2>1, <2>i, <3>0, <1>t, <1>g DEF Saving, Files
    <3> QED
      BY <3>1, <3>2, <3>3
  <2>2. CASE SaverGoes(s, "reverts") /\ UNCHANGED <<live, temp, old, files, acked, made, opener>>
    <3>1. Kept' /\ Apart'
      BY <2>2, <1>a, <1>k
    <3>2. Saving(s)'
      BY <2>2, <2>i, <1>t, <1>g DEF Saving, Files
    <3> QED
      BY <3>1, <3>2
  <2> QED
    BY <1>7, <2>1, <2>2 DEF Commits
<1>8. CASE Reverts(s)
  <2> DEFINE i == saver[s].id
  <2>i. saver[s].at = "reverts" /\ i \in Certificates /\ live[i] = 0
    BY <1>8, <1>t DEF Reverts, Saving
  <2>1. CASE /\ old[i] # 0
             /\ live' = [live EXCEPT ![i] = old[i]]
             /\ old' = [old EXCEPT ![i] = 0]
             /\ GivesUp(s)
             /\ UNCHANGED <<files, acked, made>>
    <3>0. /\ live'[i] = old[i] /\ old'[i] = 0 /\ temp'[s] = 0
          /\ \A j \in Certificates \ {i} : live'[j] = live[j] /\ old'[j] = old[j]
          /\ \A t \in Savers \ {s} : temp'[t] = temp[t]
      BY <2>1, <2>i, <1>t, <1>v DEF StoreTypeOK
    <3>1. Kept'
      BY <2>1, <2>i, <3>0, <1>t DEF Kept
    <3>2. Apart'
      BY <2>1, <2>i, <3>0, <1>t DEF Apart
    <3> QED
      BY <2>1, <3>1, <3>2, <1>u
  <2>2. CASE GivesUp(s) /\ UNCHANGED <<live, old, files, acked, made>>
    BY <2>2, <1>a, <1>k, <1>u
  <2> QED
    BY <1>8, <2>1, <2>2 DEF Reverts
<1>9. CASE SaveReturns(s)
  <2> DEFINE i == saver[s].id
  <2>i. /\ saver[s].at = "cleans" /\ i \in Certificates
        /\ live[i] = saver[s].dir /\ live[i] # 0
        /\ UNCHANGED <<live, temp, opener, made>> /\ SaverGoes(s, "publishes")
        /\ RemovesOld(i) \/ UNCHANGED <<old, files>>
    BY <1>9, <1>t DEF SaveReturns, Saving
  <2>1. /\ \A j \in Certificates : live[j] # 0 => files'[live[j]] = files[live[j]]
        /\ \A j \in Certificates : live[j] = 0 => old'[j] = old[j]
        /\ \A j \in Certificates \ {i} : old'[j] = old[j]
        /\ \A j \in Certificates \ {i} : old[j] # 0 => files'[old[j]] = files[old[j]]
        /\ old'[i] \in {0, old[i]}
    BY <2>i, RemovesOldKeeps
  <2>2. acked'[i] = live[i] /\ \A j \in Certificates \ {i} : acked'[j] = acked[j]
    BY <1>9, <2>i, <1>t DEF SaveReturns, StoreTypeOK
  <2>3. live[i] <= live[i]
    BY <2>i, <1>t, StoreAssumption DEF StoreTypeOK
  <2>4. Kept'
    BY <2>i, <2>1, <2>2, <2>3, <1>t DEF Kept
  <2>5. Apart'
    BY <2>i, <2>1, <1>t DEF Apart
  <2>6. Saving(s)'
    BY <2>i, <1>t, <1>g DEF Saving, Files
  <2> QED
    BY <2>4, <2>5, <2>6
<1>10. CASE PublishesCertificate(s)
  <2>1. Kept' /\ Apart'
    BY <1>10, <1>a, <1>k DEF PublishesCertificate
  <2>2. saver'[s] = NoSave /\ 0 \in 0..made'
    BY <1>10, <1>t, StoreAssumption DEF PublishesCertificate, StoreTypeOK
  <2>3. Saving(s)'
    BY <2>2, <1>n DEF Saving, Files
  <2> QED
    BY <2>1, <2>3
<1> QED
  BY <1>1, <1>2, <1>3, <1>4, <1>5, <1>6, <1>7, <1>8, <1>9, <1>10 DEF SaverStep

-----------------------------------------------------------------------------
(* CertificateStore: the server opens the store, and dies                  *)

\* While the store is not open nobody saves.
LEMMA NobodySaves ==
  ASSUME StoreTypeOK', \A s \in Savers : saver'[s] = NoSave
  PROVE  Alone' /\ \A s \in Savers : Saving(s)'
<1>1. NoSave.at = "idle" /\ NoSave.dir = 0
  BY DEF NoSave
<1>2. 0 \in 0..made'
  BY StoreAssumption DEF StoreTypeOK
<1> QED
  BY <1>1, <1>2 DEF Alone, Busy, Saving, Files

LEMMA ServerOpens ==
  ASSUME StoreInv, OpenerStep(Server)
  PROVE  Kept' /\ Apart' /\ Opening'
<1>t. StoreTypeOK /\ Kept /\ Apart /\ Opening /\ Server \in Openers
  BY DEF StoreInv, Openers
<1>d. opener[Server] \in OpenRecord
  BY <1>t DEF StoreTypeOK
<1>n. Away.at = "down"
  BY DEF Away
<1>f. OpenFails(Server) => Opening'
  BY <1>t, <1>n DEF OpenFails, Opening, StoreTypeOK
<1>p. UNCHANGED <<live, old, temp, files, acked>> => Kept' /\ Apart'
  BY <1>t DEF Kept, Apart
<1>1. CASE OpensStore(Server)
  <2>1. /\ opener'[Server].at = "scans"
        /\ opener'[Server].olds = {i \in Certificates : old[i] # 0}
    BY <1>1, <1>t DEF OpensStore, Away, StoreTypeOK
  <2>2. Opening'
    BY <1>1, <2>1 DEF OpensStore, Opening
  <2> QED
    BY <1>1, <1>p, <2>2 DEF OpensStore
<1>2. ASSUME NEW d \in Dirs, OpensTemp(Server, d) PROVE Kept' /\ Apart' /\ Opening'
  <2>1. d # 0 /\ opener[Server].at = "scans"
    BY <1>2, StoreAssumption DEF OpensTemp, Dirs
  <2>2. CASE opener' = [opener EXCEPT ![Server].temps = @ \ {d}]
    <3>1. opener'[Server].at = "scans" /\ opener'[Server].olds = opener[Server].olds
      BY <2>1, <2>2, <1>t, <1>d DEF StoreTypeOK, OpenRecord
    <3> QED
      BY <1>2, <1>p, <1>t, <2>1, <3>1 DEF OpensTemp, Opening
  <2>3. CASE /\ \E s \in Savers : temp[s] = d
             /\ opener' = [opener EXCEPT ![Server].at = "unlinks", ![Server].dir = d,
                                         ![Server].names = files[d],
                                         ![Server].temps = @ \ {d}]
    <3>1. /\ opener'[Server].at = "unlinks" /\ opener'[Server].olds = opener[Server].olds
          /\ opener'[Server].dir = d
      BY <2>3, <1>t, <1>d DEF StoreTypeOK, OpenRecord
    <3> QED
      BY <1>2, <1>p, <1>t, <2>1, <2>3, <3>1 DEF OpensTemp, Opening
  <2> QED
    BY <1>2, <2>2, <2>3 DEF OpensTemp
<1>3. ASSUME NEW f \in Files, Unlinks(Server, f) PROVE Kept' /\ Apart' /\ Opening'
  <2> DEFINE d == opener[Server].dir
  <2>1. d # 0 /\ \E s \in Savers : temp[s] = d
    BY <1>3, <1>t DEF Unlinks, Opening
  <2>2. \A i \in Certificates : live[i] # d /\ old[i] # d
    BY <2>1, <1>t DEF Apart
  <2>3. \A i \in Certificates :
           /\ live[i] # 0 => files'[live[i]] = files[live[i]]
           /\ old[i] # 0 => files'[old[i]] = files[old[i]]
    BY <1>3, <2>2, <1>t, StoreAssumption DEF Unlinks, StoreTypeOK, Dirs
  <2>4. Kept'
    BY <1>3, <2>3, <1>t DEF Unlinks, Kept
  <2>5. Apart'
    BY <1>3, <1>t DEF Unlinks, Apart
  <2>6. /\ opener'[Server].at = "unlinks" /\ opener'[Server].olds = opener[Server].olds
        /\ opener'[Server].dir = d
    BY <1>3, <1>t, <1>d DEF Unlinks, StoreTypeOK, OpenRecord
  <2>7. Opening'
    BY <1>3, <1>t, <2>1, <2>6 DEF Unlinks, Opening
  <2> QED
    BY <2>4, <2>5, <2>7
<1>4. CASE RemovesTemp(Server)
  <2>1. Kept'
    BY <1>4, <1>t DEF RemovesTemp, Kept
  <2>2. \A s \in Savers : temp'[s] \in {0, temp[s]}
    BY <1>4 DEF RemovesTemp
  <2>3. Apart'
    BY <1>4, <2>2, <1>t DEF RemovesTemp, Apart
  <2>4. ASSUME opener' = [opener EXCEPT ![Server].at = "scans", ![Server].dir = 0]
        PROVE  Opening'
    <3>1. opener'[Server].at = "scans" /\ opener'[Server].olds = opener[Server].olds
      BY <2>4, <1>t, <1>d DEF StoreTypeOK, OpenRecord
    <3> QED
      BY <1>4, <3>1, <1>t DEF RemovesTemp, Opening
  <2> QED
    BY <1>4, <1>f, <2>1, <2>3, <2>4 DEF RemovesTemp
<1>5. ASSUME NEW i \in Certificates, LooksForBackup(Server, i)
      PROVE  Kept' /\ Apart' /\ Opening'
  <2>1. opener[Server].at = "scans"
    BY <1>5 DEF LooksForBackup
  <2>2. ASSUME live[i] = 0 /\ old[i] # 0 PROVE opener'[Server].at = "recovers"
    BY <1>5, <2>2, <1>t, <1>d DEF LooksForBackup, StoreTypeOK, OpenRecord
  <2>3. ASSUME ~ (live[i] = 0 /\ old[i] # 0)
        PROVE  /\ opener'[Server].at = "scans"
               /\ opener'[Server].olds = opener[Server].olds \ {i}
    BY <1>5, <2>1, <2>3, <1>t, <1>d DEF LooksForBackup, StoreTypeOK, OpenRecord
  <2>4. Opening'
    BY <1>5, <1>t, <2>1, <2>2, <2>3 DEF LooksForBackup, Opening
  <2> QED
    BY <1>5, <1>p, <2>4 DEF LooksForBackup
<1>6. CASE RestoresBackup(Server)
  <2>1. PICK i \in opener[Server].olds :
          \/ /\ old[i] # 0 /\ MayTake(live[i])
             /\ live' = [live EXCEPT ![i] = old[i]]
             /\ old' = [old EXCEPT ![i] = 0]
             /\ opener' = [opener EXCEPT ![Server].at = "scans",
                               ![Server].olds = {j \in Certificates : old[j] # 0} \ {i}]
          \/ OpenFails(Server) /\ UNCHANGED <<live, old>>
    BY <1>6 DEF RestoresBackup
  <2>2. UNCHANGED <<temp, files, acked>>
    BY <1>6 DEF RestoresBackup
  <2>3. i \in Certificates
    BY <1>d DEF OpenRecord
  <2>4. CASE /\ old[i] # 0 /\ MayTake(live[i])
             /\ live' = [live EXCEPT ![i] = old[i]]
             /\ old' = [old EXCEPT ![i] = 0]
             /\ opener' = [opener EXCEPT ![Server].at = "scans",
                               ![Server].olds = {j \in Certificates : old[j] # 0} \ {i}]
    <3>1. live[i] # 0 => live[i] \in Dirs /\ files[live[i]] = Files
      BY <2>3, <1>t, StoreAssumption DEF StoreTypeOK, Dirs, Kept
    <3>2. live[i] = 0
      BY <2>4, <3>1 DEF MayTake, Files
    <3>3. /\ live'[i] = old[i] /\ old'[i] = 0
          /\ \A j \in Certificates \ {i} : live'[j] = live[j] /\ old'[j] = old[j]
      BY <2>3, <2>4, <1>t DEF StoreTypeOK
    <3>4. Kept'
      BY <2>2, <2>3, <2>4, <3>2, <3>3, <1>t DEF Kept
    <3>5. Apart'
      BY <2>2, <2>3, <2>4, <3>2, <3>3, <1>t DEF Apart
    <3>6. /\ opener'[Server].at = "scans"
          /\ opener'[Server].olds = {j \in Certificates : old[j] # 0} \ {i}
      BY <2>4, <1>t, <1>d DEF StoreTypeOK, OpenRecord
    <3>7. Opening'
      BY <3>3, <3>6 DEF Opening
    <3> QED
      BY <3>4, <3>5, <3>7
  <2>5. CASE OpenFails(Server) /\ UNCHANGED <<live, old>>
    BY <1>f, <1>p, <2>2, <2>5
  <2> QED
    BY <2>1, <2>4, <2>5
<1>7. CASE StoreOpened(Server)
  <2>1. opener[Server].at = "scans" /\ opener[Server].olds = {}
    BY <1>7 DEF StoreOpened
  <2>2. opener'[Server].at = "loads"
    BY <1>7, <1>t DEF StoreOpened, OpenerGoes, StoreTypeOK
  <2>3. Opening'
    BY <1>7, <1>t, <2>1, <2>2 DEF StoreOpened, Opening
  <2> QED
    BY <1>7, <1>p, <2>3 DEF StoreOpened
<1> QED
  BY <1>1, <1>2, <1>3, <1>4, <1>5, <1>6, <1>7 DEF OpenerStep

-----------------------------------------------------------------------------
(* CertificateStore: the invariant and the theorem                         *)

LEMMA StoreInitInv ==
  ASSUME StoreInit
  PROVE  StoreInv
<1>1. NoSave \in SaveRecord /\ Away \in OpenRecord
  BY StoreAssumption DEF NoSave, Away, SaveRecord, OpenRecord, Dirs
<1>2. StoreTypeOK
  BY <1>1, StoreAssumption DEF StoreInit, StoreTypeOK, Dirs
<1>3. /\ NoSave.at = "idle" /\ NoSave.dir = 0 /\ Away.at = "down" /\ 0 \in 0..made
      /\ Server \in Openers
  BY StoreAssumption DEF StoreInit, NoSave, Away, Openers
<1>4. Kept /\ Apart
  BY DEF StoreInit, Kept, Apart
<1>5. Alone /\ Opening /\ \A s \in Savers : Saving(s)
  BY <1>3 DEF StoreInit, Alone, Busy, Opening, Saving, Files
<1> QED
  BY <1>2, <1>4, <1>5 DEF StoreInv

LEMMA StoreInvNext ==
  ASSUME Commands = {}, StoreInv, [StoreNext]_storeVars
  PROVE  StoreInv'
<1>t. StoreTypeOK /\ Kept /\ Apart /\ Alone /\ Opening /\ \A s \in Savers : Saving(s)
  BY DEF StoreInv
<1>1. ASSUME NEW s \in Savers, SaverStep(s) PROVE StoreInv'
  <2>1. StoreTypeOK' /\ Kept' /\ Apart' /\ Saving(s)'
    <3>1. Placed(s)
      BY <1>t DEF Placed, Saving
    <3> QED
      BY <1>1, <1>t, <3>1, SaverTypes, SaverInv
  <2>2. /\ UNCHANGED opener
        /\ \A t \in Savers \ {s} : saver'[t] = saver[t]
    BY <1>1, <1>t DEF SaverStep, TakesLock, SaverRecovers, MakesTemp, WritesFile, ClearsBackup,
                      BacksUp, Commits, Reverts, SaveReturns, PublishesCertificate, SaverGoes,
                      GivesUp, StoreTypeOK
  <2>3. made' \in {made, made + 1}
    BY <1>1 DEF SaverStep, TakesLock, SaverRecovers, MakesTemp, WritesFile, ClearsBackup,
                BacksUp, Commits, Reverts, SaveReturns, PublishesCertificate
  <2>4. CASE Busy(s)
    BY <2>1, <2>2, <2>3, <2>4, Bystanders DEF StoreInv
  <2>5. CASE ~ Busy(s)
    <3>1. (\E i \in Certificates : TakesLock(s, i)) \/ PublishesCertificate(s)
      BY <1>1, <2>5 DEF SaverStep, Busy, SaverRecovers, MakesTemp, WritesFile, ClearsBackup,
                        BacksUp, Commits, Reverts, SaveReturns, Files
    <3>2. opener[Server].at = "up" /\ made' = made
      BY <3>1, <1>t DEF TakesLock, PublishesCertificate, Saving, NoSave
    <3>3. Opening'
      BY <2>2, <3>2 DEF Opening
    <3>4. ASSUME NEW t \in Savers \ {s} PROVE Saving(t)'
      BY <3>1, <3>2, <2>2, <1>t DEF TakesLock, PublishesCertificate, Saving
    <3>5. Alone'
      <4>1. CASE PublishesCertificate(s)
        <5>1. ~ Busy(s)'
          BY <4>1, <1>t DEF PublishesCertificate, Busy, NoSave, StoreTypeOK
        <5> QED
          BY <5>1, <2>2, <1>t DEF Alone, Busy
      <4>2. ASSUME NEW i \in Certificates, TakesLock(s, i) PROVE Alone'
        <5>1. \A t \in Savers \ {s} : ~ Busy(t)'
          BY <4>2, <2>2 DEF TakesLock, StoreLocked, Busy
        <5> QED
          BY <5>1 DEF Alone
      <4> QED
        BY <3>1, <4>1, <4>2
    <3> QED
      BY <2>1, <3>3, <3>4, <3>5 DEF StoreInv
  <2> QED
    BY <2>4, <2>5
<1>2. ASSUME NEW o \in Openers, OpenerStep(o) PROVE StoreInv'
  <2>1. o = Server
    BY DEF Openers
  <2>2. StoreTypeOK' /\ Kept' /\ Apart' /\ Opening'
    BY <1>2, <1>t, <2>1, OpenerTypes, ServerOpens
  <2>3. UNCHANGED saver /\ opener[Server].at # "up"
    BY <1>2, <2>1 DEF OpenerStep, OpensStore, OpensTemp, Unlinks, RemovesTemp, LooksForBackup,
                      RestoresBackup, StoreOpened
  <2>4. \A s \in Savers : saver'[s] = NoSave
    BY <2>3, <1>t DEF Saving
  <2> QED
    BY <2>2, <2>4, NobodySaves DEF StoreInv
<1>3. CASE LoadsAll
  <2>1. opener[Server].at = "loads" /\ UNCHANGED saver /\ opener'[Server].at = "up"
    BY <1>3, <1>t DEF LoadsAll, OpenerGoes, Openers, StoreTypeOK
  <2>2. \A s \in Savers : saver'[s] = NoSave
    BY <2>1, <1>t DEF Saving
  <2>3. StoreTypeOK'
    BY <1>3, <1>t, ServerTypes
  <2>4. Kept' /\ Apart'
    BY <1>3, <1>t DEF LoadsAll, Kept, Apart
  <2>5. Opening'
    BY <2>1 DEF Opening
  <2> QED
    BY <2>2, <2>3, <2>4, <2>5, NobodySaves DEF StoreInv
<1>4. CASE ServerDies
  <2>1. opener'[Server].at = "down"
    BY <1>4, <1>t DEF ServerDies, OpenFails, Openers, Away, StoreTypeOK
  <2>2. \A s \in Savers : saver'[s] = NoSave
    BY <1>4 DEF ServerDies
  <2>3. StoreTypeOK'
    BY <1>4, <1>t, ServerTypes
  <2>4. Kept' /\ Apart'
    BY <1>4, <1>t DEF ServerDies, Kept, Apart
  <2>5. Opening'
    BY <2>1 DEF Opening
  <2> QED
    BY <2>2, <2>3, <2>4, <2>5, NobodySaves DEF StoreInv
<1>5. CASE UNCHANGED storeVars
  <2>1. StoreTypeOK' /\ Kept' /\ Apart'
    BY <1>5, <1>t DEF storeVars, StoreTypeOK, Kept, Apart
  <2>2. Alone' /\ Opening' /\ \A s \in Savers : Saving(s)'
    BY <1>5, <1>t DEF storeVars, Alone, Busy, Opening, Saving
  <2> QED
    BY <2>1, <2>2 DEF StoreInv
<1> QED
  BY <1>1, <1>2, <1>3, <1>4, <1>5 DEF StoreNext

\* When the server has opened the store every certificate has its name back.
LEMMA LoadsWhole ==
  ASSUME StoreInv, LoadsAll, NEW i \in Certificates, acked[i] # 0
  PROVE  served'[i] # 0 /\ served'[i] >= acked[i]
<1>1. StoreTypeOK /\ Kept /\ opener[Server].at = "loads"
  BY DEF StoreInv, LoadsAll
<1>2. \A j \in Certificates : live[j] = 0 => old[j] = 0
  BY <1>1 DEF StoreInv, Opening
<1>3. live[i] # 0 /\ acked[i] <= live[i]
  BY <1>1, <1>2 DEF Kept
<1>4. \A j \in Certificates : live[j] # 0 => files[live[j]] = Files
  BY <1>1 DEF Kept
<1>5. served'[i] = live[i]
  BY <1>3, <1>4 DEF LoadsAll, Files
<1> QED
  BY <1>1, <1>3, <1>5, StoreAssumption DEF StoreTypeOK

\* Where no local command of the CLI opens the store meanwhile: whatever fails in a Save or
\* in a repair, and wherever the server dies, its next start finds every certificate that
\* Save has returned nil for, or a newer one (Store.Save, recoverCertificateDirs,
\* Service.Load).
THEOREM StoredIsFound == Commands = {} => (StoreSpec => StartFindsStored)
<1> SUFFICES ASSUME Commands = {} PROVE StoreSpec => StartFindsStored
  OBVIOUS
<1>1. StoreInit => StoreInv
  BY StoreInitInv
<1>2. StoreInv /\ [StoreNext]_storeVars => StoreInv'
  BY StoreInvNext
<1>3. StoreInv /\ [StoreNext]_storeVars =>
        [LoadsAll => \A i \in Certificates :
            acked[i] # 0 => served'[i] # 0 /\ served'[i] >= acked[i]]_storeVars
  BY LoadsWhole
<1> QED
  BY <1>1, <1>2, <1>3, PTL DEF StoreSpec, StartFindsStored

-----------------------------------------------------------------------------
(* CertificateStore: types, with commands of the CLI too                   *)

StoreTyped == StoreTypeOK /\ Alone /\ \A s \in Savers : Placed(s)

LEMMA StoreTypedNext ==
  ASSUME StoreTyped, [StoreNext]_storeVars
  PROVE  StoreTyped'
<1>t. StoreTypeOK /\ Alone /\ \A s \in Savers : Placed(s)
  BY DEF StoreTyped
<1>n. /\ NoSave.at = "idle" /\ NoSave.dir = 0 /\ made \in Nat /\ 0 \in 0..made
      /\ saver \in [Savers -> SaveRecord]
  BY <1>t, StoreAssumption DEF NoSave, StoreTypeOK
<1>1. ASSUME NEW s \in Savers, SaverStep(s) PROVE StoreTyped'
  <2>1. StoreTypeOK'
    BY <1>1, <1>t, SaverTypes
  <2>2. \A t \in Savers \ {s} : saver'[t] = saver[t]
    BY <1>1, <1>n DEF SaverStep, TakesLock, SaverRecovers, MakesTemp, WritesFile, ClearsBackup,
                      BacksUp, Commits, Reverts, SaveReturns, PublishesCertificate, SaverGoes,
                      GivesUp
  <2>3. made' \in {made, made + 1} /\ (made' # made => MakesTemp(s))
    BY <1>1 DEF SaverStep, TakesLock, SaverRecovers, MakesTemp, WritesFile, ClearsBackup,
                BacksUp, Commits, Reverts, SaveReturns, PublishesCertificate
  <2>4. Alone'
    <3>1. CASE Busy(s)
      <4>1. \A t \in Savers \ {s} : ~ Busy(t)'
        BY <1>t, <2>2, <3>1 DEF Alone, Busy
      <4> QED
        BY <4>1 DEF Alone
    <3>2. ASSUME NEW i \in Certificates, TakesLock(s, i) PROVE Alone'
      <4>1. \A t \in Savers \ {s} : ~ Busy(t)'
        BY <2>2, <3>2 DEF TakesLock, StoreLocked, Busy
      <4> QED
        BY <4>1 DEF Alone
    <3>3. CASE PublishesCertificate(s)
      <4>1. ~ Busy(s)'
        BY <1>n, <3>3 DEF PublishesCertificate, Busy
      <4> QED
        BY <1>t, <2>2, <4>1 DEF Alone, Busy
    <3>4. Busy(s) \/ (\E i \in Certificates : TakesLock(s, i)) \/ PublishesCertificate(s)
      BY <1>1 DEF SaverStep, Busy, SaverRecovers, MakesTemp, WritesFile, ClearsBackup,
                  BacksUp, Commits, Reverts, SaveReturns, Files
    <3> QED
      BY <3>1, <3>2, <3>3, <3>4
  <2>5. ASSUME NEW t \in Savers \ {s} PROVE Placed(t)'
    <3>1. saver'[t].dir \in 0..made'
      BY <1>t, <1>n, <2>2, <2>3, <2>5 DEF Placed
    <3>2. saver'[t].at # "idle" => saver'[t].id \in Certificates
      BY <1>t, <2>2, <2>5 DEF Placed
    <3>3. saver'[t].at \in {"recovers", "makes"} => made' < MaxDirs
      <4>1. CASE made' = made
        BY <1>t, <2>2, <2>5, <4>1 DEF Placed
      <4>2. CASE MakesTemp(s)
        <5>1. Busy(s) /\ saver'[t] = saver[t]
          BY <2>2, <2>5, <4>2 DEF MakesTemp, Busy
        <5>2. ~ Busy(t)
          BY <1>t, <2>5, <5>1 DEF Alone
        <5> QED
          BY <5>1, <5>2 DEF Busy
      <4> QED
        BY <2>3, <4>1, <4>2
    <3> QED
      BY <3>1, <3>2, <3>3 DEF Placed
  <2>6. Placed(s)'
    <3>g. ASSUME NEW at, SaverGoes(s, at)
          PROVE  /\ saver'[s].at = at /\ saver'[s].id = saver[s].id
                 /\ saver'[s].dir = saver[s].dir
      BY <1>n, <3>g DEF SaverGoes, SaveRecord
    <3>v. GivesUp(s) => saver'[s] = NoSave
      BY <1>n DEF GivesUp
    <3>p. Placed(s)
      BY <1>t
    <3>1. CASE \E i \in Certificates : TakesLock(s, i)
      BY <1>n, <3>1 DEF TakesLock, Placed
    <3>2. CASE SaverRecovers(s)
      BY <1>n, <3>g, <3>v, <3>p, <3>2 DEF SaverRecovers, Placed
    <3>3. CASE MakesTemp(s)
      <4>1. /\ saver'[s].at = "pem" /\ saver'[s].dir = made + 1 /\ saver'[s].id = saver[s].id
            /\ made' = made + 1
        BY <1>n, <3>3 DEF MakesTemp, SaveRecord
      <4>2. saver[s].id \in Certificates
        BY <3>3, <3>p DEF MakesTemp, Placed
      <4> QED
        BY <1>n, <4>1, <4>2 DEF Placed
    <3>4. CASE WritesFile(s)
      BY <1>n, <3>g, <3>v, <3>p, <3>4 DEF WritesFile, Placed, Files
    <3>5. CASE ClearsBackup(s)
      BY <1>n, <3>g, <3>p, <3>5 DEF ClearsBackup, Placed
    <3>6. CASE BacksUp(s)
      <4>1. \/ saver'[s] = NoSave
            \/ /\ saver'[s].at = "commits" /\ saver'[s].id = saver[s].id
               /\ saver'[s].dir = saver[s].dir
        <5>1. CASE saver' = [saver EXCEPT ![s].at = "commits",
                                          ![s].moved = live[saver[s].id] # 0]
          <6>1. saver'[s] = [[saver[s] EXCEPT !.at = "commits"]
                               EXCEPT !.moved = live[saver[s].id] # 0]
            BY <1>n, <5>1
          <6>2. saver[s] \in SaveRecord
            BY <1>n
          <6> QED
            BY <6>1, <6>2 DEF SaveRecord
        <5>2. \/ GivesUp(s)
              \/ saver' = [saver EXCEPT ![s].at = "commits", ![s].moved = live[saver[s].id] # 0]
          BY <3>6 DEF BacksUp
        <5> QED
          BY <3>v, <5>1, <5>2
      <4> QED
        BY <1>n, <3>p, <3>6, <4>1 DEF BacksUp, Placed
    <3>7. CASE Commits(s)
      BY <1>n, <3>g, <3>p, <3>7 DEF Commits, Placed
    <3>8. CASE Reverts(s)
      BY <1>n, <3>v, <3>8 DEF Reverts, Placed
    <3>9. CASE SaveReturns(s)
      BY <1>n, <3>g, <3>p, <3>9 DEF SaveReturns, Placed
    <3>10. CASE PublishesCertificate(s)
      BY <1>n, <3>10 DEF PublishesCertificate, Placed
    <3> QED
      BY <1>1, <3>1, <3>2, <3>3, <3>4, <3>5, <3>6, <3>7, <3>8, <3>9, <3>10 DEF SaverStep
  <2> QED
    BY <2>1, <2>4, <2>5, <2>6 DEF StoreTyped
\* The savers stand still.
<1>2. ASSUME UNCHANGED <<saver, made>> PROVE Alone' /\ \A s \in Savers : Placed(s)'
  BY <1>2, <1>t DEF Alone, Busy, Placed
<1>3. ASSUME NEW o \in Openers, OpenerStep(o) PROVE StoreTyped'
  <2>1. StoreTypeOK'
    BY <1>3, <1>t, OpenerTypes
  <2>2. UNCHANGED <<saver, made>>
    BY <1>3 DEF OpenerStep, OpensStore, OpensTemp, Unlinks, RemovesTemp, LooksForBackup,
                RestoresBackup, StoreOpened
  <2> QED
    BY <1>2, <2>1, <2>2 DEF StoreTyped
<1>4. CASE LoadsAll
  <2>1. StoreTypeOK' /\ UNCHANGED <<saver, made>>
    BY <1>4, <1>t, ServerTypes DEF LoadsAll
  <2> QED
    BY <1>2, <2>1 DEF StoreTyped
<1>5. CASE ServerDies
  <2>1. StoreTypeOK'
    BY <1>5, <1>t, ServerTypes
  <2>2. (\A s \in Savers : saver'[s] = NoSave) /\ made' = made
    BY <1>5 DEF ServerDies
  <2>3. Alone' /\ \A s \in Savers : Placed(s)'
    BY <1>n, <2>2 DEF Alone, Busy, Placed
  <2> QED
    BY <2>1, <2>3 DEF StoreTyped
<1>6. CASE UNCHANGED storeVars
  <2>1. StoreTypeOK' /\ UNCHANGED <<saver, made>>
    BY <1>6, <1>t DEF storeVars, StoreTypeOK
  <2> QED
    BY <1>2, <2>1 DEF StoreTyped
<1> QED
  BY <1>1, <1>3, <1>4, <1>5, <1>6 DEF StoreNext

LEMMA StoreTypedInit == StoreInit => StoreTyped
<1> SUFFICES ASSUME StoreInit PROVE StoreTyped
  OBVIOUS
<1>1. StoreInv
  BY StoreInitInv
<1> QED
  BY <1>1 DEF StoreInv, StoreTyped, Saving, Placed

-----------------------------------------------------------------------------
(* Routes: what a reload leaves                                            *)

\* While a reload has the routes and the containers for itself, what it has listed is
\* still so; that is why what it does to the differences makes them agree.
CalmListing ==
    calm =>
        /\ loop.at \in {"listed", "compare", "reloaded"}
        /\ loop.at \in {"listed", "compare"} => loop.image = runs
        /\ loop.at = "compare" => loop.read = routed

RoutesInv == RoutesTypeOK /\ CalmListing /\ ReloadConverges

\* Types.
LEMMA RoutesTypeNext ==
  ASSUME RoutesTypeOK, [RoutesNext]_routeVars
  PROVE  RoutesTypeOK'
<1> USE DEF RoutesTypeOK, Readings
<1>1. Called => routeCalls' \in 0..MaxRouteCalls
  BY RoutesAssumption DEF Called
<1>2. ASSUME NEW a \in Admins, AdminStep(a) PROVE RoutesTypeOK'
  <2>1. CASE AdminAdds(a)
    BY <2>1, <1>1 DEF AdminAdds, Writes
  <2>2. CASE AdminReads(a)
    BY <2>2, <1>1 DEF AdminReads, AdminGoes
  <2>3. CASE AdminPuts(a)
    BY <2>3 DEF AdminPuts, AdminGoes, Writes
  <2>4. CASE AdminDeploys(a)
    BY <2>4 DEF AdminDeploys, AdminGoes
  <2>5. CASE AdminRemoves(a)
    <3>1. admin' = [admin EXCEPT ![a] = [at |-> "remove", image |-> Nothing]] \/ admin' = admin
      BY <2>5 DEF AdminRemoves, AdminGoes
    <3>2. routed' \in Readings /\ UNCHANGED <<runs, loop>> /\ calm' = FALSE
      BY <2>5 DEF AdminRemoves
    <3>3. routeCalls' \in 0..MaxRouteCalls
      BY <2>5, <1>1 DEF AdminRemoves
    <3>4. admin' \in [Admins -> [at : {"idle", "put", "remove", "deploy"}, image : Readings]]
      BY <3>1
    <3>5. loop' = loop /\ runs' = runs /\ calm' \in BOOLEAN
      BY <3>2
    <3> QED
      BY <3>2, <3>3, <3>4, <3>5
  <2>6. CASE AdminReconciles(a)
    BY <2>6 DEF AdminReconciles, AdminGoes, TakesDown
  <2> QED
    BY <1>2, <2>1, <2>2, <2>3, <2>4, <2>5, <2>6 DEF AdminStep
<1>3. CASE TakePush
  BY <1>3, <1>1 DEF TakePush
<1>4. CASE DeployMatched
  BY <1>4 DEF DeployMatched, Deploys, LoopGoes
<1>5. CASE NoLabels \/ LooksUp
  BY <1>5 DEF NoLabels, LooksUp, LoopGoes
<1>6. CASE AutoAdds \/ AutoUpdates
  BY <1>6 DEF AutoAdds, AutoUpdates, LoopGoes
<1>7. CASE DeployLabelled
  BY <1>7 DEF DeployLabelled, Deploys, LoopGoes
<1>8. CASE ListsContainers
  BY <1>8, <1>1 DEF ListsContainers
<1>12. CASE ListsRoutes
  BY <1>12 DEF ListsRoutes
<1>9. CASE Reloads
  BY <1>9 DEF Reloads, Deploys, TakesDown, LoopGoes
<1>10. CASE ReloadEnds
  BY <1>10 DEF ReloadEnds
<1>11. CASE UNCHANGED routeVars
  BY <1>11 DEF routeVars
<1> QED
  BY <1>2, <1>3, <1>4, <1>5, <1>6, <1>7, <1>8, <1>9, <1>10, <1>11, <1>12 DEF RoutesNext

\* Only the reload itself acts while it is calm, or somebody who reads.
LEMMA RoutesInvNext ==
  ASSUME RoutesInv, [RoutesNext]_routeVars
  PROVE  RoutesInv'
<1>1. RoutesTypeOK'
  BY RoutesTypeNext DEF RoutesInv
<1>2. SUFFICES ASSUME calm' PROVE /\ loop'.at \in {"listed", "compare", "reloaded"}
                                  /\ loop'.at \in {"listed", "compare"} => loop'.image = runs'
                                  /\ loop'.at = "compare" => loop'.read = routed'
                                  /\ loop'.at = "reloaded" => runs' = routed'
  BY <1>1 DEF RoutesInv, CalmListing, ReloadConverges
<1> USE DEF RoutesInv, CalmListing, ReloadConverges
<1>3. loop \in [at : {"idle", "matched", "labels", "absent", "present", "deploy", "listed",
                      "compare", "reloaded"}, image : Readings, read : Readings]
  BY DEF RoutesTypeOK
<1>4. CASE \E a \in Admins : AdminStep(a)
  BY <1>2, <1>4 DEF AdminStep, AdminAdds, AdminReads, AdminPuts, AdminDeploys, AdminRemoves,
                    AdminReconciles
<1>5. CASE TakePush \/ DeployMatched \/ NoLabels \/ LooksUp
  BY <1>2, <1>5 DEF TakePush, DeployMatched, NoLabels, LooksUp, Deploys
<1>6. CASE AutoAdds \/ AutoUpdates \/ DeployLabelled
  BY <1>2, <1>6 DEF AutoAdds, AutoUpdates, DeployLabelled, Deploys
<1>7. CASE ListsContainers
  BY <1>7 DEF ListsContainers
<1>8. CASE ListsRoutes
  BY <1>2, <1>3, <1>8 DEF ListsRoutes
<1>9. CASE Reloads
  BY <1>2, <1>3, <1>9 DEF Reloads, Deploys, TakesDown, LoopGoes
<1>10. CASE ReloadEnds
  BY <1>2, <1>10 DEF ReloadEnds
<1>11. CASE UNCHANGED routeVars
  BY <1>2, <1>11 DEF routeVars
<1> QED
  BY <1>4, <1>5, <1>6, <1>7, <1>8, <1>9, <1>10, <1>11 DEF RoutesNext

LEMMA RoutesInvInit == RoutesInit => RoutesInv
<1> SUFFICES ASSUME RoutesInit PROVE RoutesInv
  OBVIOUS
<1>1. RoutesTypeOK
  <2>1. routed \in Readings /\ runs \in Readings /\ calm \in BOOLEAN
    BY DEF RoutesInit, Readings
  <2>2. admin \in [Admins -> [at : {"idle", "put", "remove", "deploy"}, image : Readings]]
    BY DEF RoutesInit, Readings
  <2>3. loop \in [at : {"idle", "matched", "labels", "absent", "present", "deploy", "listed",
                        "compare", "reloaded"}, image : Readings, read : Readings]
    BY DEF RoutesInit, Readings
  <2> QED
    BY <2>1, <2>2, <2>3, RoutesAssumption DEF RoutesInit, RoutesTypeOK
<1> QED
  BY <1>1 DEF RoutesInit, RoutesInv, CalmListing, ReloadConverges

LEMMA RoutesInvariant == RoutesSpec => []RoutesInv
<1>1. RoutesInv /\ [RoutesNext]_routeVars => RoutesInv'
  BY RoutesInvNext
<1> QED
  BY <1>1, RoutesInvInit, PTL DEF RoutesSpec

\* However often routes were changed, deployed and taken down before, a reload that no
\* call overlaps and in which nothing fails leaves what runs as the routes say
\* (ConfigReloadHandler, the admin API, AutoRouteHandler).
THEOREM ReloadLeavesRoutes == RoutesSpec => []ReloadConverges
<1>1. RoutesInv => ReloadConverges
  BY DEF RoutesInv
<1> QED
  BY <1>1, RoutesInvariant, PTL

-----------------------------------------------------------------------------
(* TrafficListeners: what is listened on                                   *)

\* What an Apply is about to stop.
Stopping == UNION {stopping[a] : a \in Appliers}

\* The entry point a runtime will have when the prepared graph is in force.
Becomes(r, e) ==
    \/ <<r, e>> \in prepared.updates
    \/ entryOf[r] = e /\ \A f \in Entries : <<r, f>> \notin prepared.updates

\* The operating system's part: one socket per address.
OneSocket ==
    \A r, q \in Bound : r # q => \/ entryOf[r].net # entryOf[q].net
                                 \/ entryOf[r].address # entryOf[q].address

\* Every open socket is in force, prepared or about to be stopped, and only one of them:
\* that is why what one Apply closes is never what another one serves.
Accounted ==
    /\ Bound = listeners \cup prepared.created \cup Stopping
    /\ prepared.created \cap (listeners \cup Stopping) = {}
    /\ listeners \cap Stopping = {}
    /\ \A a, b \in Appliers : a # b => stopping[a] \cap stopping[b] = {}

\* The entry points dealt with so far have their runtimes, and each runtime one of them.
Prepares ==
    /\ prepared.next \subseteq listeners \cup prepared.created
    /\ \A r \in prepared.next : \E e \in prepared.graph \ prepared.left : Becomes(r, e)
    /\ \A e \in prepared.graph \ prepared.left : \E r \in prepared.next : Becomes(r, e)
    /\ \A r \in Runtimes, e \in Entries : <<r, e>> \in prepared.updates =>
          /\ r \in prepared.next \cap listeners
          /\ entryOf[r].net = e.net /\ entryOf[r].address = e.address
          /\ \A f \in Entries : <<r, f>> \in prepared.updates => f = e

\* Under m.mu there is one graph, and without it none.
Holds ==
    /\ holder = "none" => prepared = Idle
    /\ holder # "none" => prepared.graph \in Graphs /\ stopping[holder] = {}

InForce == {entryOf[r] : r \in listeners} = snapshot

TrafficInv == TrafficTypeOK /\ Holds /\ InForce /\ OneSocket /\ Accounted /\ Prepares

\* Closing sockets: the others keep their entry points.
LEMMA Closes ==
  ASSUME entryOf \in [Runtimes -> Entries \cup {NoEntry}], NEW S \in SUBSET Runtimes, Close(S)
  PROVE  /\ entryOf' \in [Runtimes -> Entries \cup {NoEntry}]
         /\ Bound' = Bound \ S
         /\ \A r \in Runtimes \ S : entryOf'[r] = entryOf[r]
  BY DEF Close, Bound

\* An entry point of a graph is one.
LEMMA EntryIsOne == NoEntry \notin Entries
  BY TrafficAssumption DEF Entries

\* Types.
LEMMA TrafficTypeNext ==
  ASSUME TrafficTypeOK, Holds, [TrafficNext]_trafficVars
  PROVE  TrafficTypeOK'
<1> USE DEF TrafficTypeOK
<1> DEFINE Preparations == [graph : Graphs \cup {{}}, left : SUBSET Entries,
                            next : SUBSET Runtimes, created : SUBSET Runtimes,
                            updates : SUBSET (Runtimes \X Entries)]
<1>1. Idle \in Preparations /\ Idle.left \subseteq Idle.graph /\ Idle.created \subseteq Idle.next
  BY DEF Idle
<1>2. ASSUME NEW a \in Appliers, ApplyLocks(a) PROVE TrafficTypeOK'
  <2>1. PICK g \in Graphs : prepared' = [Idle EXCEPT !.graph = g, !.left = g]
    BY <1>2 DEF ApplyLocks
  <2>2. prepared' = [graph |-> g, left |-> g, next |-> {}, created |-> {}, updates |-> {}]
    BY <2>1 DEF Idle
  <2>3. g \subseteq Entries
    BY DEF Entries
  <2>4. prepared' \in Preparations
    BY <2>2, <2>3
  <2>5. applies' \in 0..MaxApplies
    BY <1>2, TrafficAssumption DEF ApplyLocks
  <2>6. holder' = a /\ UNCHANGED <<listeners, snapshot, entryOf, stopping>>
    BY <1>2 DEF ApplyLocks
  <2> QED
    BY <2>2, <2>4, <2>5, <2>6
<1>3. ASSUME NEW a \in Appliers, ApplySwaps(a) PROVE TrafficTypeOK'
  <2>1. entryOf' \in [Runtimes -> Entries \cup {NoEntry}]
    BY <1>3 DEF ApplySwaps
  <2>2. stopping' \in [Appliers -> SUBSET Runtimes] /\ listeners' \subseteq Runtimes
    BY <1>3 DEF ApplySwaps
  <2>3. snapshot' \in Graphs \cup {{}} /\ holder' = "none" /\ applies' = applies
    BY <1>3 DEF ApplySwaps
  <2>4. prepared' = Idle
    BY <1>3 DEF ApplySwaps
  <2> QED
    BY <1>1, <2>1, <2>2, <2>3, <2>4
<1>4. ASSUME NEW a \in Appliers, ApplyStops(a) PROVE TrafficTypeOK'
  <2>1. PICK r \in stopping[a] : /\ stopping' = [stopping EXCEPT ![a] = @ \ {r}]
                                 /\ Close({r})
    BY <1>4 DEF ApplyStops
  <2>2. stopping' \in [Appliers -> SUBSET Runtimes]
    BY <2>1
  <2>3. entryOf' \in [Runtimes -> Entries \cup {NoEntry}]
    BY <2>1, Closes
  <2>4. UNCHANGED <<listeners, snapshot, holder, prepared, applies>>
    BY <1>4 DEF ApplyStops
  <2> QED
    BY <2>2, <2>3, <2>4
<1>5. ASSUME NEW e \in Entries, KeepListener(e) \/ ReuseListener(e) \/ BindListener(e)
      PROVE  TrafficTypeOK'
  <2>1. entryOf' \in [Runtimes -> Entries \cup {NoEntry}]
    BY <1>5 DEF KeepListener, ReuseListener, BindListener
  <2>2. PICK r \in Runtimes :
           \/ prepared' = [prepared EXCEPT !.left = prepared.left \ {e},
                                           !.next = prepared.next \cup {r}]
           \/ prepared' = [prepared EXCEPT !.left = prepared.left \ {e},
                                           !.next = prepared.next \cup {r},
                                           !.updates = prepared.updates \cup {<<r, e>>}]
           \/ prepared' = [prepared EXCEPT !.left = prepared.left \ {e},
                                           !.next = prepared.next \cup {r},
                                           !.created = prepared.created \cup {r}]
    <3>1. CASE KeepListener(e) \/ ReuseListener(e)
      BY <3>1 DEF KeepListener, ReuseListener, Unclaimed
    <3>2. CASE BindListener(e)
      <4>1. \E r \in Runtimes : r \notin Bound
        BY <3>2 DEF BindListener, Bound
      <4> QED
        BY <3>2, <4>1 DEF BindListener
    <3> QED
      BY <1>5, <3>1, <3>2
  <2>3. prepared' \in Preparations /\ prepared'.left \subseteq prepared'.graph
        /\ prepared'.created \subseteq prepared'.next
    <3>1. <<r, e>> \in Runtimes \X Entries
      OBVIOUS
    <3>2. prepared.updates \cup {<<r, e>>} \in SUBSET (Runtimes \X Entries)
      BY <3>1
    <3>3. prepared \in Preparations
      OBVIOUS
    <3>4. /\ prepared.left \ {e} \in SUBSET Entries
          /\ prepared.next \cup {r} \in SUBSET Runtimes
          /\ prepared.created \cup {r} \in SUBSET Runtimes
      BY <3>3
    <3>5. prepared' \in Preparations
      BY <2>2, <3>2, <3>3, <3>4
    <3>6. prepared'.left \subseteq prepared'.graph /\ prepared'.created \subseteq prepared'.next
      BY <2>2
    <3> QED
      BY <3>5, <3>6
  <2>4. UNCHANGED <<listeners, snapshot, holder, stopping, applies>>
    BY <1>5 DEF KeepListener, ReuseListener, BindListener
  <2> QED
    BY <2>1, <2>3, <2>4
<1>6. ASSUME NEW e \in Entries, BindFails(e) PROVE TrafficTypeOK'
  <2>1. entryOf' \in [Runtimes -> Entries \cup {NoEntry}]
    BY <1>6, Closes DEF BindFails
  <2>2. prepared' = Idle /\ holder' = "none"
        /\ UNCHANGED <<listeners, snapshot, stopping, applies>>
    BY <1>6 DEF BindFails
  <2> QED
    BY <1>1, <2>1, <2>2
<1>7. CASE Shutdown
  <2>1. entryOf' \in [Runtimes -> Entries \cup {NoEntry}]
    BY <1>7, Closes DEF Shutdown
  <2> QED
    BY <1>7, <2>1 DEF Shutdown
<1>8. CASE UNCHANGED trafficVars
  BY <1>8 DEF trafficVars
<1> QED
  BY <1>2, <1>3, <1>4, <1>5, <1>6, <1>7, <1>8 DEF TrafficNext

\* A step of the preparation: the entry point e is dealt with by the runtime r.
LEMMA PreparesStep ==
  ASSUME TrafficInv, TrafficTypeOK', NEW e \in Entries,
         KeepListener(e) \/ ReuseListener(e) \/ BindListener(e)
  PROVE  Holds' /\ InForce' /\ OneSocket' /\ Accounted' /\ Prepares'
<1> USE DEF TrafficInv
<1>t. /\ entryOf \in [Runtimes -> Entries \cup {NoEntry}]
      /\ prepared \in [graph : Graphs \cup {{}}, left : SUBSET Entries,
                       next : SUBSET Runtimes, created : SUBSET Runtimes,
                       updates : SUBSET (Runtimes \X Entries)]
      /\ listeners \subseteq Runtimes /\ stopping \in [Appliers -> SUBSET Runtimes]
      /\ prepared.left \subseteq prepared.graph
  BY DEF TrafficTypeOK
<1>0. e \in prepared.left /\ UNCHANGED <<listeners, snapshot, holder, stopping>>
  BY DEF KeepListener, ReuseListener, BindListener, IsNext, Unlisted
<1>1. holder # "none" /\ Holds'
  <2>1. holder # "none"
    BY <1>0 DEF Holds, Idle
  <2>2. prepared'.graph = prepared.graph
    BY <1>t DEF KeepListener, ReuseListener, BindListener
  <2> QED
    BY <1>0, <2>1, <2>2 DEF Holds
<1>2. Stopping' = Stopping
  BY <1>0 DEF Stopping
<1>3. CASE KeepListener(e)
  <2>1. PICK r \in Unclaimed(e) :
           /\ entryOf[r] = e
           /\ prepared' = [prepared EXCEPT !.left = @ \ {e}, !.next = @ \cup {r}]
    BY <1>3 DEF KeepListener
  <2>2. r \in listeners /\ r \notin prepared.next /\ r \in Runtimes
    BY <1>t DEF Unclaimed
  <2>3. entryOf' = entryOf /\ Bound' = Bound
    BY <1>3 DEF KeepListener, Bound
  <2>4. /\ prepared'.left = prepared.left \ {e} /\ prepared'.next = prepared.next \cup {r}
        /\ prepared'.created = prepared.created /\ prepared'.updates = prepared.updates
        /\ prepared'.graph = prepared.graph
    BY <1>t, <2>1
  <2>5. InForce' /\ OneSocket' /\ Accounted'
    BY <1>0, <1>2, <2>3, <2>4 DEF InForce, OneSocket, Accounted
  <2>6. \A q \in Runtimes, f \in Entries : Becomes(q, f)' <=> Becomes(q, f)
    BY <2>3, <2>4 DEF Becomes
  <2>7. Becomes(r, e)
    BY <2>1, <2>2 DEF Becomes, Prepares
  <2>8. /\ prepared'.next \subseteq listeners' \cup prepared'.created
        /\ \A q \in prepared'.next : \E f \in prepared'.graph \ prepared'.left : Becomes(q, f)'
        /\ \A f \in prepared'.graph \ prepared'.left : \E q \in prepared'.next : Becomes(q, f)'
    BY <1>t, <1>0, <2>2, <2>4, <2>6, <2>7 DEF Prepares, Entries
  <2>9. \A q \in Runtimes, f \in Entries : <<q, f>> \in prepared'.updates =>
            /\ q \in prepared'.next \cap listeners'
            /\ entryOf'[q].net = f.net /\ entryOf'[q].address = f.address
            /\ \A g \in Entries : <<q, g>> \in prepared'.updates => g = f
    BY <1>0, <2>3, <2>4 DEF Prepares
  <2>10. Prepares'
    BY <2>8, <2>9 DEF Prepares
  <2> QED
    BY <1>1, <2>5, <2>10
<1>4. CASE ReuseListener(e)
  <2>1. PICK r \in Unclaimed(e) :
           /\ entryOf[r].address = e.address
           /\ prepared' = [prepared EXCEPT !.left = @ \ {e}, !.next = @ \cup {r},
                                           !.updates = @ \cup {<<r, e>>}]
    BY <1>4 DEF ReuseListener
  <2>2. r \in listeners /\ r \notin prepared.next /\ r \in Runtimes /\ entryOf[r].net = e.net
    BY <1>t DEF Unclaimed
  <2>3. entryOf' = entryOf /\ Bound' = Bound
    BY <1>4 DEF ReuseListener, Bound
  <2>4. /\ prepared'.left = prepared.left \ {e} /\ prepared'.next = prepared.next \cup {r}
        /\ prepared'.created = prepared.created
        /\ prepared'.updates = prepared.updates \cup {<<r, e>>}
        /\ prepared'.graph = prepared.graph
    BY <1>t, <2>1
  <2>5. InForce' /\ OneSocket' /\ Accounted'
    BY <1>0, <1>2, <2>3, <2>4 DEF InForce, OneSocket, Accounted
  <2>6. \A q \in Runtimes \ {r}, f \in Entries : Becomes(q, f)' <=> Becomes(q, f)
    BY <2>3, <2>4 DEF Becomes
  <2>7. Becomes(r, e)'
    BY <2>4 DEF Becomes
  <2>8. \A f \in Entries : <<r, f>> \notin prepared.updates
    BY <2>2 DEF Prepares
  <2>9. /\ prepared'.next \subseteq listeners' \cup prepared'.created
        /\ \A q \in prepared'.next : \E f \in prepared'.graph \ prepared'.left : Becomes(q, f)'
        /\ \A f \in prepared'.graph \ prepared'.left : \E q \in prepared'.next : Becomes(q, f)'
    BY <1>t, <1>0, <2>2, <2>4, <2>6, <2>7 DEF Prepares, Entries
  <2>10. \A q \in Runtimes, f \in Entries : <<q, f>> \in prepared'.updates =>
            /\ q \in prepared'.next \cap listeners'
            /\ entryOf'[q].net = f.net /\ entryOf'[q].address = f.address
            /\ \A g \in Entries : <<q, g>> \in prepared'.updates => g = f
    BY <1>0, <2>1, <2>2, <2>3, <2>4, <2>8 DEF Prepares
  <2>11. Prepares'
    BY <2>9, <2>10 DEF Prepares
  <2> QED
    BY <1>1, <2>5, <2>11
<1>5. CASE BindListener(e)
  <2>1. PICK r \in Runtimes :
           /\ r \notin Bound
           /\ entryOf' = [entryOf EXCEPT ![r] = e]
           /\ prepared' = [prepared EXCEPT !.left = @ \ {e}, !.next = @ \cup {r},
                                           !.created = @ \cup {r}]
    <3>1. \E r \in Runtimes : r \notin Bound
      BY <1>5 DEF BindListener, Bound
    <3> QED
      BY <1>5, <3>1 DEF BindListener
  <2>2. /\ r \notin listeners /\ r \notin Stopping /\ r \notin prepared.created
        /\ r \notin prepared.next
    BY <2>1 DEF Accounted, Prepares
  <2>3. Bound' = Bound \cup {r} /\ entryOf'[r] = e
        /\ \A q \in Runtimes \ {r} : entryOf'[q] = entryOf[q]
    BY <1>t, <2>1, EntryIsOne DEF Bound
  <2>4. /\ prepared'.left = prepared.left \ {e} /\ prepared'.next = prepared.next \cup {r}
        /\ prepared'.created = prepared.created \cup {r}
        /\ prepared'.updates = prepared.updates
        /\ prepared'.graph = prepared.graph
    BY <1>t, <2>1
  <2>5. InForce'
    BY <1>t, <1>0, <2>2, <2>3 DEF InForce
  <2>6. OneSocket'
    <3>1. \A q \in Bound : entryOf[q].net # e.net \/ entryOf[q].address # e.address
      BY <1>5 DEF BindListener, Taken
    <3>2. Bound \subseteq Runtimes
      BY DEF Bound
    <3> QED
      BY <2>1, <2>3, <3>1, <3>2 DEF OneSocket
  <2>7. Accounted'
    BY <1>0, <1>2, <2>2, <2>3, <2>4 DEF Accounted
  <2>8. \A f \in Entries : <<r, f>> \notin prepared.updates
    BY <2>2 DEF Prepares
  <2>9. /\ Becomes(r, e)'
        /\ \A q \in Runtimes \ {r}, f \in Entries : Becomes(q, f)' <=> Becomes(q, f)
    BY <2>3, <2>4, <2>8 DEF Becomes
  <2>10. /\ prepared'.next \subseteq listeners' \cup prepared'.created
         /\ \A q \in prepared'.next : \E f \in prepared'.graph \ prepared'.left : Becomes(q, f)'
         /\ \A f \in prepared'.graph \ prepared'.left : \E q \in prepared'.next : Becomes(q, f)'
    BY <1>t, <1>0, <2>2, <2>4, <2>9 DEF Prepares, Entries
  <2>11. \A q \in Runtimes, f \in Entries : <<q, f>> \in prepared'.updates =>
            /\ q \in prepared'.next \cap listeners'
            /\ entryOf'[q].net = f.net /\ entryOf'[q].address = f.address
            /\ \A g \in Entries : <<q, g>> \in prepared'.updates => g = f
    BY <1>0, <2>2, <2>3, <2>4 DEF Prepares
  <2>12. Prepares'
    BY <2>10, <2>11 DEF Prepares
  <2> QED
    BY <1>1, <2>5, <2>6, <2>7, <2>12
<1> QED
  BY <1>3, <1>4, <1>5

\* A step that closes or swaps, or begins.
LEMMA TrafficInvNext ==
  ASSUME TrafficInv, [TrafficNext]_trafficVars
  PROVE  TrafficInv'
<1>t. TrafficTypeOK'
  BY TrafficTypeNext DEF TrafficInv
<1> SUFFICES Holds' /\ InForce' /\ OneSocket' /\ Accounted' /\ Prepares'
  BY <1>t DEF TrafficInv
<1> USE DEF TrafficInv
<1>u. /\ entryOf \in [Runtimes -> Entries \cup {NoEntry}]
      /\ prepared \in [graph : Graphs \cup {{}}, left : SUBSET Entries,
                       next : SUBSET Runtimes, created : SUBSET Runtimes,
                       updates : SUBSET (Runtimes \X Entries)]
      /\ listeners \subseteq Runtimes /\ stopping \in [Appliers -> SUBSET Runtimes]
      /\ holder \in Appliers \cup {"none"}
  BY DEF TrafficTypeOK
<1>i. Idle.graph = {} /\ Idle.left = {} /\ Idle.next = {} /\ Idle.created = {}
      /\ Idle.updates = {}
  BY DEF Idle
\* With nothing prepared there is little to say.
<1>p. prepared' = Idle => Prepares'
  BY <1>i DEF Prepares
<1>1. ASSUME NEW a \in Appliers, ApplyLocks(a)
      PROVE  Holds' /\ InForce' /\ OneSocket' /\ Accounted' /\ Prepares'
  <2>1. PICK g \in Graphs : prepared' = [Idle EXCEPT !.graph = g, !.left = g]
    BY <1>1 DEF ApplyLocks
  <2>2. prepared' = [graph |-> g, left |-> g, next |-> {}, created |-> {}, updates |-> {}]
    BY <2>1 DEF Idle
  <2>3. /\ holder = "none" /\ stopping[a] = {} /\ holder' = a
        /\ UNCHANGED <<listeners, snapshot, entryOf, stopping>>
    BY <1>1 DEF ApplyLocks
  <2>4. prepared.created = {} /\ prepared'.created = {}
    BY <1>i, <2>2, <2>3 DEF Holds
  <2>5. Holds'
    BY <2>2, <2>3, TrafficAssumption DEF Holds
  <2>6. Bound' = Bound /\ Stopping' = Stopping
    BY <2>3 DEF Bound, Stopping
  <2>7. InForce' /\ OneSocket' /\ Accounted'
    BY <2>3, <2>4, <2>6 DEF InForce, OneSocket, Accounted
  <2>8. Prepares'
    BY <2>2 DEF Prepares
  <2> QED
    BY <2>5, <2>7, <2>8
<1>2. ASSUME NEW a \in Appliers, ApplySwaps(a)
      PROVE  Holds' /\ InForce' /\ OneSocket' /\ Accounted' /\ Prepares'
  <2>1. /\ holder = a /\ prepared.left = {} /\ holder' = "none" /\ prepared' = Idle
        /\ listeners' = prepared.next /\ snapshot' = prepared.graph
        /\ stopping' = [stopping EXCEPT ![a] = listeners \ prepared.next]
    BY <1>2 DEF ApplySwaps
  <2>2. stopping[a] = {} /\ prepared.graph \in Graphs
    BY <2>1, TrafficAssumption DEF Holds
  <2>3. /\ prepared.next \subseteq listeners \cup prepared.created
        /\ prepared.created \subseteq prepared.next
    BY DEF Prepares, TrafficTypeOK
  \* What a runtime becomes is determined, and leaves its socket where it is.
  <2>4. \A r \in Runtimes, e \in Entries : Becomes(r, e) => entryOf'[r] = e
    <3>1. SUFFICES ASSUME NEW r \in Runtimes, NEW e \in Entries, Becomes(r, e)
                   PROVE  entryOf'[r] = e
      OBVIOUS
    <3>2. CASE <<r, e>> \in prepared.updates
      <4>1. \A f \in Entries : <<r, f>> \in prepared.updates => f = e
        BY <3>2 DEF Prepares
      <4>2. (CHOOSE f \in Entries : <<r, f>> \in prepared.updates) = e
        BY <3>2, <4>1
      <4> QED
        BY <1>2, <3>2, <4>2 DEF ApplySwaps
    <3>3. CASE entryOf[r] = e /\ \A f \in Entries : <<r, f>> \notin prepared.updates
      BY <1>2, <3>3 DEF ApplySwaps
    <3> QED
      BY <3>1, <3>2, <3>3 DEF Becomes
  <2>5. \A r \in Runtimes : entryOf'[r] = entryOf[r] \/ <<r, entryOf'[r]>> \in prepared.updates
    <3>1. SUFFICES ASSUME NEW r \in Runtimes,
                          NEW e \in Entries, <<r, e>> \in prepared.updates
                   PROVE  entryOf'[r] = e
      BY <1>2 DEF ApplySwaps
    <3> QED
      BY <2>4, <3>1 DEF Becomes
  <2>6. \A r \in Runtimes : <<r, entryOf'[r]>> \in prepared.updates =>
           /\ entryOf'[r] \in Entries
           /\ r \in Bound
           /\ entryOf'[r].net = entryOf[r].net /\ entryOf'[r].address = entryOf[r].address
    <3>1. SUFFICES ASSUME NEW r \in Runtimes, NEW e, <<r, e>> \in prepared.updates
                   PROVE  e \in Entries /\ r \in Bound /\ e.net = entryOf[r].net
                          /\ e.address = entryOf[r].address
      OBVIOUS
    <3>2. e \in Entries
      BY <1>u, <3>1
    <3> QED
      BY <3>1, <3>2 DEF Prepares, Accounted
  <2>7. Bound' = Bound
    BY <2>5, <2>6, EntryIsOne DEF Bound
  <2>8. Holds'
    BY <2>1, TrafficAssumption DEF Holds
  <2>9. InForce'
    <3>1. \A e \in prepared.graph : e \in Entries
      BY <2>2 DEF Entries
    <3>2. \A r \in prepared.next : entryOf'[r] \in prepared.graph
      BY <1>u, <2>1, <2>4, <3>1 DEF Prepares
    <3>3. \A e \in prepared.graph : \E r \in prepared.next : entryOf'[r] = e
      BY <1>u, <2>1, <2>4, <3>1 DEF Prepares
    <3> QED
      BY <2>1, <3>2, <3>3 DEF InForce
  <2>10. OneSocket'
    <3>1. \A r \in Bound : entryOf'[r].net = entryOf[r].net
                           /\ entryOf'[r].address = entryOf[r].address
      BY <2>5, <2>6 DEF Bound
    <3> QED
      BY <2>7, <3>1 DEF OneSocket
  <2>11. Stopping' = (Stopping \cup listeners) \ prepared.next
    <3>1. \A b \in Appliers : stopping'[b] = IF b = a THEN listeners \ prepared.next
                                                      ELSE stopping[b]
      BY <1>u, <2>1
    <3>2. \A b \in Appliers : stopping[b] \cap prepared.next = {}
      BY <2>3 DEF Accounted, Stopping
    <3> QED
      BY <2>2, <3>1, <3>2 DEF Stopping
  <2>12. \A b, c \in Appliers : b # c => stopping'[b] \cap stopping'[c] = {}
    <3>1. \A b \in Appliers : stopping'[b] = IF b = a THEN listeners \ prepared.next
                                                      ELSE stopping[b]
      BY <1>u, <2>1
    <3>2. \A b \in Appliers : stopping[b] \cap listeners = {}
      BY DEF Accounted, Stopping
    <3> QED
      BY <3>1, <3>2 DEF Accounted
  <2>13. Accounted'
    <3>1. Bound' = listeners' \cup prepared'.created \cup Stopping'
      BY <1>i, <2>1, <2>3, <2>7, <2>11 DEF Accounted
    <3>2. listeners' \cap Stopping' = {} /\ prepared'.created = {}
      BY <1>i, <2>1, <2>11
    <3> QED
      BY <2>12, <3>1, <3>2 DEF Accounted
  <2> QED
    BY <1>p, <2>1, <2>8, <2>9, <2>10, <2>13
<1>3. ASSUME NEW a \in Appliers, ApplyStops(a)
      PROVE  Holds' /\ InForce' /\ OneSocket' /\ Accounted' /\ Prepares'
  <2>1. PICK r \in stopping[a] : /\ stopping' = [stopping EXCEPT ![a] = @ \ {r}]
                                 /\ Close({r})
    BY <1>3 DEF ApplyStops
  <2>2. UNCHANGED <<listeners, snapshot, holder, prepared>>
    BY <1>3 DEF ApplyStops
  <2>3. r \in Stopping /\ r \notin listeners /\ r \notin prepared.created
        /\ \A b \in Appliers : b # a => r \notin stopping[b]
    BY <2>1 DEF Stopping, Accounted
  <2>4. {r} \in SUBSET Runtimes
    BY <1>u, <2>1
  <2>5. Bound' = Bound \ {r} /\ \A q \in Runtimes \ {r} : entryOf'[q] = entryOf[q]
    BY <1>u, <2>1, <2>4, Closes
  <2>6. \A b \in Appliers : stopping'[b] = stopping[b] \ {r}
    BY <1>u, <2>1, <2>3
  <2>7. Stopping' = Stopping \ {r}
    BY <2>6 DEF Stopping
  <2>8. Holds'
    BY <1>u, <2>2, <2>6 DEF Holds
  <2>9. InForce'
    BY <1>u, <2>2, <2>3, <2>5 DEF InForce
  <2>10. OneSocket'
    <3>1. Bound' \subseteq Bound /\ \A q \in Bound' : entryOf'[q] = entryOf[q]
      BY <2>5 DEF Bound
    <3> QED
      BY <3>1 DEF OneSocket
  <2>11. Accounted'
    BY <2>2, <2>3, <2>5, <2>6, <2>7 DEF Accounted
  <2>12. Prepares'
    <3>1. prepared.next \subseteq Runtimes \ {r}
      BY <1>u, <2>3 DEF Prepares
    <3>2. \A q \in Runtimes \ {r}, e \in Entries : Becomes(q, e)' <=> Becomes(q, e)
      BY <2>2, <2>5 DEF Becomes
    <3>3. prepared.graph \subseteq Entries
      BY <1>u DEF Entries
    <3>4. \A q \in Runtimes, e \in Entries : <<q, e>> \in prepared.updates => q # r
      BY <3>1 DEF Prepares
    <3>5. /\ prepared'.next \subseteq listeners' \cup prepared'.created
          /\ \A q \in prepared'.next : \E e \in prepared'.graph \ prepared'.left : Becomes(q, e)'
          /\ \A e \in prepared'.graph \ prepared'.left : \E q \in prepared'.next : Becomes(q, e)'
      BY <2>2, <3>1, <3>2, <3>3 DEF Prepares
    <3>6. \A q \in Runtimes, e \in Entries : <<q, e>> \in prepared'.updates =>
            /\ q \in prepared'.next \cap listeners'
            /\ entryOf'[q].net = e.net /\ entryOf'[q].address = e.address
            /\ \A f \in Entries : <<q, f>> \in prepared'.updates => f = e
      BY <2>2, <2>5, <3>4 DEF Prepares
    <3> QED
      BY <3>5, <3>6 DEF Prepares
  <2> QED
    BY <2>8, <2>9, <2>10, <2>11, <2>12
<1>4. ASSUME NEW e \in Entries, KeepListener(e) \/ ReuseListener(e) \/ BindListener(e)
      PROVE  Holds' /\ InForce' /\ OneSocket' /\ Accounted' /\ Prepares'
  BY <1>t, <1>4, PreparesStep
\* Closing only takes away from what is bound.
<1>5. ASSUME NEW e \in Entries, BindFails(e)
      PROVE  Holds' /\ InForce' /\ OneSocket' /\ Accounted' /\ Prepares'
  <2>1. /\ Close(prepared.created) /\ prepared' = Idle /\ holder' = "none"
        /\ UNCHANGED <<listeners, snapshot, stopping>>
    BY <1>5 DEF BindFails
  <2>2. /\ Bound' = Bound \ prepared.created
        /\ \A q \in Runtimes \ prepared.created : entryOf'[q] = entryOf[q]
    BY <1>u, <2>1, Closes
  <2>3. Stopping' = Stopping
    BY <2>1 DEF Stopping
  <2>4. Holds'
    BY <2>1, TrafficAssumption DEF Holds
  <2>5. InForce'
    BY <1>u, <2>1, <2>2 DEF InForce, Accounted
  <2>6. OneSocket'
    <3>1. Bound' \subseteq Bound /\ \A q \in Bound' : entryOf'[q] = entryOf[q]
      BY <2>2 DEF Bound
    <3> QED
      BY <3>1 DEF OneSocket
  <2>7. Accounted'
    BY <1>i, <2>1, <2>2, <2>3 DEF Accounted
  <2> QED
    BY <1>p, <2>1, <2>4, <2>5, <2>6, <2>7
<1>6. CASE Shutdown
  <2>1. /\ Close(listeners) /\ holder = "none" /\ listeners' = {} /\ snapshot' = {}
        /\ UNCHANGED <<holder, prepared, stopping>>
    BY <1>6 DEF Shutdown
  <2>2. prepared = Idle
    BY <2>1 DEF Holds
  <2>3. /\ Bound' = Bound \ listeners
        /\ \A q \in Runtimes \ listeners : entryOf'[q] = entryOf[q]
    BY <1>u, <2>1, Closes
  <2>4. Stopping' = Stopping
    BY <2>1 DEF Stopping
  <2>5. Holds' /\ InForce'
    BY <2>1 DEF Holds, InForce
  <2>6. OneSocket'
    <3>1. Bound' \subseteq Bound /\ \A q \in Bound' : entryOf'[q] = entryOf[q]
      BY <2>3 DEF Bound
    <3> QED
      BY <3>1 DEF OneSocket
  <2>7. Accounted'
    BY <1>i, <2>1, <2>2, <2>3, <2>4 DEF Accounted
  <2> QED
    BY <1>p, <2>1, <2>2, <2>5, <2>6, <2>7
<1>7. CASE UNCHANGED trafficVars
  <2>1. Bound' = Bound /\ Stopping' = Stopping
    BY <1>7 DEF trafficVars, Bound, Stopping
  <2>2. Holds' /\ InForce' /\ OneSocket' /\ Accounted'
    BY <1>7, <2>1 DEF trafficVars, Holds, InForce, OneSocket, Accounted
  <2>3. \A r, e : Becomes(r, e)' <=> Becomes(r, e)
    BY <1>7 DEF trafficVars, Becomes
  <2>4. Prepares'
    BY <1>7, <2>3 DEF trafficVars, Prepares
  <2> QED
    BY <2>2, <2>4
<1> QED
  BY <1>1, <1>2, <1>3, <1>4, <1>5, <1>6, <1>7 DEF TrafficNext

\* One socket per address: as many listeners as entry points.
LEMMA TrafficIsCounted ==
  ASSUME TrafficInv
  PROVE  Cardinality(listeners) = Cardinality(snapshot)
<1> DEFINE f == [e \in snapshot |-> CHOOSE r \in listeners : entryOf[r] = e]
<1>1. snapshot \in Graphs \cup {{}} /\ listeners \subseteq Bound
  BY DEF TrafficInv, TrafficTypeOK, Accounted
<1>2. IsFiniteSet(snapshot)
  BY <1>1, TrafficAssumption, FS_EmptySet
<1>3. \A e \in snapshot : f[e] \in listeners /\ entryOf[f[e]] = e
  BY DEF TrafficInv, InForce
<1>4. \A r \in listeners : entryOf[r] \in snapshot /\ f[entryOf[r]] = r
  <2>1. \A r \in listeners : entryOf[r] \in snapshot
    BY DEF TrafficInv, InForce
  <2>2. \A r, q \in listeners : entryOf[r] = entryOf[q] => r = q
    BY <1>1 DEF TrafficInv, OneSocket
  <2> QED
    BY <1>3, <2>1, <2>2
<1> HIDE DEF f
<1>5. f \in [snapshot -> listeners]
  BY <1>3 DEF f
<1>6. f \in Bijection(snapshot, listeners)
  BY <1>3, <1>4, <1>5 DEF Bijection, Injection, Surjection, IsInjective
<1> QED
  BY <1>2, <1>6, FS_Bijection DEF ExistsBijection

LEMMA TrafficInvInit == TrafficInit => TrafficInv
<1> SUFFICES ASSUME TrafficInit PROVE TrafficInv
  OBVIOUS
<1>1. TrafficTypeOK
  BY TrafficAssumption DEF TrafficInit, TrafficTypeOK, Idle
<1>2. Bound = {} /\ Stopping = {}
  BY DEF TrafficInit, Bound, Stopping
<1>3. Holds /\ InForce /\ OneSocket /\ Prepares
  BY <1>2 DEF TrafficInit, Holds, InForce, OneSocket, Prepares, Idle
<1>4. Accounted
  BY <1>2 DEF TrafficInit, Accounted, Idle
<1> QED
  BY <1>1, <1>3, <1>4 DEF TrafficInv

LEMMA TrafficInvariant == TrafficSpec => []TrafficInv
<1>1. TrafficInv /\ [TrafficNext]_trafficVars => TrafficInv'
  BY TrafficInvNext
<1> QED
  BY <1>1, TrafficInvInit, PTL DEF TrafficSpec

\* Whatever graphs were applied, rejected halfway or overtaken, once m.mu is free exactly
\* the graph in force is listened on, each entry point by a listener of its own, and no
\* other socket is open but those an Apply is about to stop, for any number of calls and
\* graphs of any size (Apply, prepareTCPListeners, prepareUDPListeners, Shutdown).
THEOREM GraphIsListenedOn == TrafficSpec => []GraphIsServed
<1>1. TrafficInv => GraphIsServed
  <2> SUFFICES ASSUME TrafficInv, holder = "none" PROVE GraphIsServed
    BY DEF GraphIsServed
  <2>1. prepared.created = {}
    BY DEF TrafficInv, Holds, Idle
  <2>2. Bound = listeners \cup Stopping
    BY <2>1 DEF TrafficInv, Accounted
  <2> QED
    BY <2>2, TrafficIsCounted DEF TrafficInv, InForce, GraphIsServed, Stopping
<1> QED
  BY <1>1, TrafficInvariant, PTL

-----------------------------------------------------------------------------
(* StandaloneServices: what a Reconcile leaves                             *)

\* A container has an id and its volume, also the one that a call is about.
BoxesAreWhole ==
    /\ \A s \in Services : box[s] # NoBox => box[s].id # 0 /\ volume[s]
    /\ \A r \in Reconcilers :
          /\ \A s \in Services : reconciler[r].listed[s] = NoBox \/ reconciler[r].listed[s].id # 0
          /\ reconciler[r].at \in {"stops", "removes", "starts"} => Found(r).id # 0

\* The container b is the one that was found, which may be on its way up again.
IsStill(b, found) ==
    /\ b.image = found.image /\ b.cleanup = found.cleanup
    /\ found = NoBox => b = NoBox
    /\ found.status = "running" => b.status \in {"running", "restarting"}

\* What the calls that are left for the service at hand will make of it.
Settling(r) ==
    LET at == reconciler[r].at IN
    /\ at \in {"stops", "starts"} => IsStill(box[Picked(r)], Found(r))
    /\ at = "unmounts" => ~ Wanted(r).enabled
    /\ at \in {"creates", "starts"} => Wanted(r).enabled
    /\ at = "starts" => Matches(Found(r), Wanted(r))
    /\ at = "waits" => Settled(r, Picked(r))

\* A Reconcile that is alone has seen what there still is, the services it has dealt with
\* are as they should be, and the one at hand will be.
AloneKnows(r) ==
    /\ \A q \in Reconcilers : q # r => reconciler[q].at = "idle"
    /\ reconciler[r].at \notin {"idle", "lists"} =>
          /\ \A s \in reconciler[r].left : IsStill(box[s], reconciler[r].listed[s])
          /\ \A s \in Services \ reconciler[r].left :
                reconciler[r].at = "picks" \/ s # Picked(r) => Settled(r, s)
          /\ reconciler[r].at # "picks" => Picked(r) \notin reconciler[r].left /\ Settling(r)

AllAloneKnow == \A r \in Reconcilers : reconciler[r].alone => AloneKnows(r)

ServicesInv == ServicesTypeOK /\ BoxesAreWhole /\ AllAloneKnow

\* The records that there are.
LEMMA ServiceRecords ==
  /\ NoBox \in Boxes /\ NoBox.id = 0
  /\ AtRest \in Reconciles /\ AtRest.at = "idle" /\ AtRest.alone = FALSE
  /\ AtRest.listed = [s \in Services |-> NoBox]
  /\ 1 \in Services
<1>1. NoBox.image \in {o.image : o \in ServiceOptions \cup {NoBox}}
  OBVIOUS
<1>2. NoBox \in Boxes /\ NoBox.id = 0
  <2>1. /\ NoBox.id = 0 /\ NoBox.cleanup = "remove" /\ NoBox.status = "none"
        /\ NoBox = [id |-> 0, image |-> NoBox.image, cleanup |-> "remove", status |-> "none"]
    BY DEF NoBox
  <2>2. 0 \in 0..MaxBoxes
    BY ServicesAssumption
  <2> QED
    BY <1>1, <2>1, <2>2 DEF Boxes
<1>3. 1 \in Services
  BY ServicesAssumption DEF Services
<1>4. [s \in Services |-> Absent] \in [Services -> ServiceOptions \cup {Absent}]
      /\ [s \in Services |-> NoBox] \in [Services -> Boxes]
  BY <1>2
<1>5. AtRest = [at |-> "idle", config |-> [s \in Services |-> Absent],
                listed |-> [s \in Services |-> NoBox], left |-> {}, service |-> 1,
                found |-> NoBox, alone |-> FALSE]
  BY DEF AtRest
<1>6. AtRest \in Reconciles
  BY <1>2, <1>3, <1>4, <1>5 DEF Reconciles
<1> QED
  BY <1>2, <1>3, <1>5, <1>6

\* What Goes changes of a Reconcile.
LEMMA GoesThere ==
  ASSUME reconciler \in [Reconcilers -> Reconciles], NEW r \in Reconcilers,
         NEW at \in {"picks", "stops", "removes", "unmounts", "creates", "starts", "waits"},
         Goes(r, at)
  PROVE  /\ reconciler' \in [Reconcilers -> Reconciles]
         /\ \A q \in Reconcilers \ {r} : reconciler'[q] = reconciler[q]
         /\ reconciler'[r].at = at
         /\ reconciler'[r].config = reconciler[r].config
         /\ reconciler'[r].listed = reconciler[r].listed
         /\ reconciler'[r].left = reconciler[r].left
         /\ reconciler'[r].alone = reconciler[r].alone
         /\ at # "picks" => reconciler'[r].service = reconciler[r].service
         /\ reconciler'[r].found = Concerned(at, reconciler[r].found)
<1>1. PICK me \in Reconciles : me = reconciler[r]
  OBVIOUS
<1> DEFINE service == IF at = "picks" THEN 1 ELSE me.service
           found == Concerned(at, me.found)
           new == [me EXCEPT !.at = at, !.service = service, !.found = found]
<1>2. service \in Services /\ found \in Boxes
  BY <1>1, ServiceRecords DEF Concerned, Reconciles
<1>3. /\ new \in Reconciles /\ new.at = at /\ new.service = service /\ new.found = found
      /\ new.config = me.config /\ new.listed = me.listed /\ new.left = me.left
      /\ new.alone = me.alone
  BY <1>1, <1>2 DEF Reconciles
<1>4. reconciler' = [reconciler EXCEPT ![r] = new]
  BY <1>1 DEF Goes
<1> QED
  BY <1>1, <1>3, <1>4

\* The first call, and the one after a stop, is one of these.
LEMMA StepsThereAre ==
  ASSUME NEW config, NEW found
  PROVE  /\ AfterStop(config, found) \in {"picks", "removes", "creates"}
         /\ FirstStep(config, found) \in {"picks", "stops", "removes", "creates", "starts", "waits"}
<1>1. AfterStop(config, found) \in {"picks", "removes", "creates"}
  BY DEF AfterStop
<1>2. FirstStep(config, found) \in {"creates", "waits", "starts", "picks", "stops",
                                    AfterStop(config, found)}
  BY DEF FirstStep
<1> QED
  BY <1>1, <1>2

\* What PicksService changes of a Reconcile.
LEMMA PicksThere ==
  ASSUME reconciler \in [Reconcilers -> Reconciles], NEW r \in Reconcilers, PicksService(r)
  PROVE  \E s \in reconciler[r].left :
           LET first == FirstStep(reconciler[r].config[s], reconciler[r].listed[s]) IN
           /\ s \in Services
           /\ reconciler' \in [Reconcilers -> Reconciles]
           /\ \A q \in Reconcilers \ {r} : reconciler'[q] = reconciler[q]
           /\ reconciler'[r].at = first
           /\ reconciler'[r].config = reconciler[r].config
           /\ reconciler'[r].listed = [reconciler[r].listed EXCEPT ![s] = NoBox]
           /\ reconciler'[r].left = reconciler[r].left \ {s}
           /\ reconciler'[r].alone = reconciler[r].alone
           /\ first # "picks" => reconciler'[r].service = s
           /\ reconciler'[r].found = Concerned(first, reconciler[r].listed[s])
<1>1. PICK me \in Reconciles : me = reconciler[r]
  OBVIOUS
<1>2. PICK s \in me.left :
        LET first == FirstStep(me.config[s], me.listed[s]) IN
        reconciler' = [reconciler EXCEPT ![r].at = first,
                             ![r].service = IF first = "picks" THEN 1 ELSE s,
                             ![r].found = Concerned(first, me.listed[s]),
                             ![r].listed[s] = NoBox, ![r].left = @ \ {s}]
  BY <1>1 DEF PicksService
<1>3. s \in Services
  BY DEF Reconciles
<1>4. PICK first : first = FirstStep(me.config[s], me.listed[s])
  OBVIOUS
<1> DEFINE service == IF first = "picks" THEN 1 ELSE s
           found == Concerned(first, me.listed[s])
           listed == [me.listed EXCEPT ![s] = NoBox]
           left == me.left \ {s}
           new == [me EXCEPT !.at = first, !.service = service, !.found = found,
                             !.listed = listed, !.left = left]
<1>5. service \in Services /\ found \in Boxes /\ listed \in [Services -> Boxes]
      /\ left \in SUBSET Services
  BY <1>3, ServiceRecords DEF Concerned, Reconciles
<1>6. first \in {"picks", "stops", "removes", "creates", "starts", "waits"}
  BY <1>4, StepsThereAre
<1>7. /\ new \in Reconciles /\ new.at = first /\ new.service = service /\ new.found = found
      /\ new.config = me.config /\ new.listed = listed /\ new.left = left
      /\ new.alone = me.alone
  BY <1>5, <1>6 DEF Reconciles
<1>8. reconciler' = [reconciler EXCEPT ![r] = new]
  BY <1>1, <1>2, <1>4 DEF Reconciles
<1>9. /\ s \in Services
      /\ reconciler' \in [Reconcilers -> Reconciles]
      /\ \A q \in Reconcilers \ {r} : reconciler'[q] = reconciler[q]
      /\ reconciler'[r] = new
  BY <1>3, <1>7, <1>8
<1> HIDE DEF new
<1> QED
  BY <1>1, <1>4, <1>7, <1>9

\* A Reconcile that begins knows nothing yet, and the others are no longer alone.
LEMMA BeginsThere ==
  ASSUME ServicesTypeOK, NEW r \in Reconcilers, Begins(r)
  PROVE  /\ reconciler' \in [Reconcilers -> Reconciles]
         /\ reconciler'[r].at = "lists"
         /\ reconciler'[r].listed = [s \in Services |-> NoBox]
         /\ reconciler'[r].alone => \A q \in Reconcilers : reconciler[q].at = "idle"
         /\ \A q \in Reconcilers \ {r} :
               /\ ~ reconciler'[q].alone
               /\ reconciler'[q].at = reconciler[q].at
               /\ reconciler'[q].listed = reconciler[q].listed
               /\ reconciler'[q].found = reconciler[q].found
<1>1. PICK alone \in BOOLEAN : alone <=> \A p \in Reconcilers : reconciler[p].at = "idle"
  OBVIOUS
<1> DEFINE new == [AtRest EXCEPT !.at = "lists", !.config = configured, !.alone = alone]
<1>2. configured \in [Services -> ServiceOptions \cup {Absent}]
  BY DEF ServicesTypeOK, Configs
<1>3. /\ new \in Reconciles /\ new.at = "lists" /\ new.listed = [s \in Services |-> NoBox]
      /\ new.alone = alone
  BY <1>2, ServiceRecords DEF Reconciles
<1>4. alone = \A p \in Reconcilers : reconciler[p].at = "idle"
  BY <1>1
<1>5. \A q \in Reconcilers :
        reconciler'[q] = IF q = r THEN new ELSE [reconciler[q] EXCEPT !.alone = FALSE]
  BY <1>4 DEF Begins
<1>6. \A q \in Reconcilers :
        /\ [reconciler[q] EXCEPT !.alone = FALSE] \in Reconciles
        /\ [reconciler[q] EXCEPT !.alone = FALSE].alone = FALSE
        /\ [reconciler[q] EXCEPT !.alone = FALSE].at = reconciler[q].at
        /\ [reconciler[q] EXCEPT !.alone = FALSE].listed = reconciler[q].listed
        /\ [reconciler[q] EXCEPT !.alone = FALSE].found = reconciler[q].found
  BY DEF ServicesTypeOK, Reconciles
<1> HIDE DEF new
<1>7. reconciler' \in [Reconcilers -> Reconciles]
  <2>1. \A q \in Reconcilers : reconciler'[q] \in Reconciles
    BY <1>3, <1>5, <1>6
  <2>2. reconciler' = [q \in Reconcilers |-> reconciler'[q]]
    BY DEF Begins
  <2> QED
    BY <2>1, <2>2
<1>8. \A q \in Reconcilers \ {r} :
         /\ reconciler'[q].alone = FALSE
         /\ reconciler'[q].at = reconciler[q].at
         /\ reconciler'[q].listed = reconciler[q].listed
         /\ reconciler'[q].found = reconciler[q].found
  BY <1>5, <1>6
<1>9. reconciler'[r] = new
  BY <1>5
<1> QED
  BY <1>1, <1>3, <1>7, <1>8, <1>9

\* Who reports an error rests, and with the start the whole process.
LEMMA ReportsThere ==
  ASSUME reconciler \in [Reconcilers -> Reconciles], NEW r \in Reconcilers, ReportsError(r)
  PROVE  /\ reconciler' \in [Reconcilers -> Reconciles]
         /\ server' \in BOOLEAN
         /\ \A q \in Reconcilers : reconciler'[q] \in {AtRest, reconciler[q]}
         /\ reconciler'[r] = AtRest
<1>1. \A q \in Reconcilers : reconciler'[q] \in {AtRest, reconciler[q]}
  BY DEF ReportsError
<1>2. reconciler'[r] = AtRest
  BY DEF ReportsError
<1>3. reconciler' \in [Reconcilers -> Reconciles]
  BY ServiceRecords DEF ReportsError
<1>4. server' \in BOOLEAN
  BY DEF ReportsError
<1> QED
  BY <1>1, <1>2, <1>3, <1>4

\* ListContainers has answered.
HasListed(r) ==
    /\ reconciler[r].at = "lists"
    /\ reconciler' = [reconciler EXCEPT ![r].at = "picks", ![r].listed = box,
              ![r].left = {s \in Services :
                              reconciler[r].config[s] # Absent \/ box[s] # NoBox}]
    /\ UNCHANGED <<configured, box, volume, server, spent>>

LEMMA ListsThere ==
  ASSUME ServicesTypeOK, NEW r \in Reconcilers, HasListed(r)
  PROVE  /\ reconciler' \in [Reconcilers -> Reconciles]
         /\ \A q \in Reconcilers \ {r} : reconciler'[q] = reconciler[q]
         /\ reconciler'[r].at = "picks"
         /\ reconciler'[r].config = reconciler[r].config
         /\ reconciler'[r].listed = box
         /\ reconciler'[r].left = {s \in Services :
                                     reconciler[r].config[s] # Absent \/ box[s] # NoBox}
         /\ reconciler'[r].alone = reconciler[r].alone
<1>1. PICK me \in Reconciles : me = reconciler[r]
  BY DEF ServicesTypeOK
<1> DEFINE left == {s \in Services : me.config[s] # Absent \/ box[s] # NoBox}
           new == [me EXCEPT !.at = "picks", !.listed = box, !.left = left]
<1>2. box \in [Services -> Boxes] /\ left \in SUBSET Services
  BY DEF ServicesTypeOK
<1>3. /\ new \in Reconciles /\ new.at = "picks" /\ new.config = me.config /\ new.listed = box
      /\ new.left = left /\ new.alone = me.alone
  BY <1>2 DEF Reconciles
<1>4. reconciler' = [reconciler EXCEPT ![r] = new]
  BY <1>1 DEF HasListed
<1>5. /\ reconciler' \in [Reconcilers -> Reconciles]
      /\ \A q \in Reconcilers \ {r} : reconciler'[q] = reconciler[q]
      /\ reconciler'[r] = new
  BY <1>3, <1>4 DEF ServicesTypeOK
<1> HIDE DEF new
<1> QED
  BY <1>1, <1>3, <1>5

\* CreateContainer has made the container.
HasCreated(r, created) ==
    /\ reconciler[r].at = "creates"
    /\ created = [id |-> spent.boxes + 1, image |-> Wanted(r).image,
                  cleanup |-> Wanted(r).cleanup, status |-> "created"]
    /\ box[Picked(r)] = NoBox
    /\ Spends("boxes", MaxBoxes)
    /\ box' = [box EXCEPT ![Picked(r)] = created]
    /\ volume' = [volume EXCEPT ![Picked(r)] = TRUE]
    /\ reconciler' = [reconciler EXCEPT ![r].at = "starts", ![r].found = created]
    /\ UNCHANGED <<configured, server>>

LEMMA CreatesThere ==
  ASSUME ServicesTypeOK, NEW r \in Reconcilers, NEW created, HasCreated(r, created)
  PROVE  /\ created \in Boxes /\ created.id # 0 /\ Matches(created, Wanted(r))
         /\ reconciler' \in [Reconcilers -> Reconciles]
         /\ \A q \in Reconcilers \ {r} : reconciler'[q] = reconciler[q]
         /\ reconciler'[r].at = "starts"
         /\ reconciler'[r].config = reconciler[r].config
         /\ reconciler'[r].listed = reconciler[r].listed
         /\ reconciler'[r].left = reconciler[r].left
         /\ reconciler'[r].alone = reconciler[r].alone
         /\ reconciler'[r].service = reconciler[r].service
         /\ reconciler'[r].found = created
<1>1. PICK me \in Reconciles : me = reconciler[r]
  BY DEF ServicesTypeOK
<1>2. Wanted(r) \in ServiceOptions \cup {Absent}
  BY <1>1 DEF Wanted, Picked, Reconciles
<1>3. /\ Wanted(r).image \in {o.image : o \in ServiceOptions \cup {NoBox}}
      /\ Wanted(r).cleanup \in {"remove", "keep", "drop"}
  <2>1. Absent.image = NoBox.image /\ Absent.cleanup = "remove"
    BY DEF Absent, NoBox
  <2>2. \A o \in ServiceOptions : o.cleanup \in {"remove", "keep", "drop"}
    BY ServicesAssumption
  <2> QED
    BY <1>2, <2>1, <2>2
<1>4. spent.boxes + 1 \in 0..MaxBoxes /\ spent.boxes + 1 # 0
  BY ServicesAssumption DEF HasCreated, Spends, ServicesTypeOK
<1>5. created \in Boxes /\ created.id # 0 /\ Matches(created, Wanted(r))
  BY <1>3, <1>4 DEF HasCreated, Boxes, Matches
<1> DEFINE new == [me EXCEPT !.at = "starts", !.found = created]
<1>6. /\ new \in Reconciles /\ new.at = "starts" /\ new.config = me.config
      /\ new.listed = me.listed /\ new.left = me.left /\ new.alone = me.alone
      /\ new.service = me.service /\ new.found = created
  BY <1>5 DEF Reconciles
<1>7. reconciler' = [reconciler EXCEPT ![r] = new]
  BY <1>1 DEF HasCreated
<1>8. /\ reconciler' \in [Reconcilers -> Reconciles]
      /\ \A q \in Reconcilers \ {r} : reconciler'[q] = reconciler[q]
      /\ reconciler'[r] = new
  BY <1>6, <1>7 DEF ServicesTypeOK
<1> HIDE DEF new
<1> QED
  BY <1>1, <1>5, <1>6, <1>8

\* Nothing that is known gets lost while nothing changes for a Reconcile.
LEMMA StaysKnown ==
  ASSUME NEW q \in Reconcilers, reconciler'[q] = reconciler[q], UNCHANGED <<box, volume>>,
         \A p \in Reconcilers \ {q} : reconciler[p].at = "idle" => reconciler'[p].at = "idle",
         AloneKnows(q)
  PROVE  AloneKnows(q)'
<1>1. \A s : Settled(q, s)' <=> Settled(q, s)
  BY DEF Settled
<1>2. Settling(q)' <=> Settling(q)
  BY <1>1 DEF Settling, Picked, Wanted, Found
<1>3. \A s \in reconciler[q].left : IsStill(box[s], reconciler[q].listed[s])
                            <=> IsStill(box[s], reconciler[q].listed[s])'
  OBVIOUS
<1> QED
  BY <1>1, <1>2 DEF AloneKnows, Picked

\* The restarts of a container do not matter.
LEMMA RestartsDoNotMatter ==
  ASSUME AllAloneKnow, UNCHANGED <<reconciler, volume>>,
         \A s \in Services :
            /\ box'[s].image = box[s].image /\ box'[s].cleanup = box[s].cleanup
            /\ box[s] = NoBox <=> box'[s] = NoBox
            /\ box[s].status \in {"running", "restarting"} =>
                  box'[s].status \in {"running", "restarting"},
         reconciler \in [Reconcilers -> Reconciles]
  PROVE  AllAloneKnow'
<1>1. SUFFICES ASSUME NEW r \in Reconcilers, reconciler[r].alone PROVE AloneKnows(r)'
  BY DEF AllAloneKnow
<1>2. AloneKnows(r)
  BY <1>1 DEF AllAloneKnow
<1>3. reconciler[r].service \in Services /\ reconciler[r].left \subseteq Services
  BY DEF Reconciles
<1>4. \A s \in Services : Settled(r, s) => Settled(r, s)'
  BY DEF Settled, Matches, Cleanup
<1>5. \A s \in Services, found \in Boxes : IsStill(box[s], found) => IsStill(box'[s], found)
  BY DEF IsStill
<1>6. Settling(r) => Settling(r)'
  <2>1. Found(r) \in Boxes /\ Picked(r) \in Services
    BY <1>3 DEF Found, Picked, Reconciles
  <2> QED
    BY <1>4, <1>5, <2>1 DEF Settling, Picked, Wanted, Found
<1>7. \A s \in reconciler[r].left : reconciler[r].listed[s] \in Boxes
  BY <1>3 DEF Reconciles
<1> QED
  BY <1>2, <1>3, <1>4, <1>5, <1>6, <1>7 DEF AloneKnows, Picked

\* A step of one that is not alone tells nothing, and of one that is nobody else.
LEMMA MineAlone ==
  ASSUME AllAloneKnow, NEW r \in Reconcilers, reconciler[r].at # "idle",
         \A q \in Reconcilers \ {r} : reconciler'[q] = reconciler[q],
         reconciler'[r].alone = reconciler[r].alone,
         AloneKnows(r) =>
            (reconciler'[r].at \notin {"idle", "lists"} =>
                /\ \A s \in reconciler'[r].left : IsStill(box'[s], reconciler'[r].listed[s])
                /\ \A s \in Services \ reconciler'[r].left :
                      reconciler'[r].at = "picks" \/ s # reconciler'[r].service => Settled(r, s)'
                /\ reconciler'[r].at # "picks" =>
                      reconciler'[r].service \notin reconciler'[r].left /\ Settling(r)')
  PROVE  AllAloneKnow'
<1>1. SUFFICES ASSUME NEW q \in Reconcilers, reconciler'[q].alone PROVE AloneKnows(q)'
  BY DEF AllAloneKnow
<1>2. q = r
  BY <1>1 DEF AllAloneKnow, AloneKnows
<1>3. AloneKnows(r)
  BY <1>1, <1>2 DEF AllAloneKnow
<1>4. \A p \in Reconcilers : p # r => reconciler'[p].at = "idle"
  BY <1>3 DEF AloneKnows
<1> QED
  BY <1>2, <1>3, <1>4 DEF AloneKnows, Picked

\* A call for the service s at hand leaves the others as they are.
LEMMA OwnStep ==
  ASSUME ServicesTypeOK, AllAloneKnow, NEW r \in Reconcilers, NEW s \in Services, s = Picked(r),
         reconciler[r].at \notin {"idle", "lists", "picks"},
         \A q \in Reconcilers \ {r} : reconciler'[q] = reconciler[q],
         reconciler'[r].config = reconciler[r].config,
         reconciler'[r].listed = reconciler[r].listed,
         reconciler'[r].left = reconciler[r].left,
         reconciler'[r].alone = reconciler[r].alone,
         \A t \in Services \ {s} : box'[t] = box[t] /\ volume'[t] = volume[t],
         reconciler'[r].at # "picks" => reconciler'[r].service = reconciler[r].service,
         Settling(r) => IF reconciler'[r].at = "picks" THEN Settled(r, s)' ELSE Settling(r)'
  PROVE  AllAloneKnow'
<1>1. ASSUME AloneKnows(r)
      PROVE  /\ \A t \in reconciler'[r].left : IsStill(box'[t], reconciler'[r].listed[t])
             /\ \A t \in Services \ reconciler'[r].left :
                   reconciler'[r].at = "picks" \/ t # reconciler'[r].service => Settled(r, t)'
             /\ reconciler'[r].at # "picks" =>
                   reconciler'[r].service \notin reconciler'[r].left /\ Settling(r)'
  <2>1. s \notin reconciler[r].left /\ Settling(r) /\ s = reconciler[r].service
    BY <1>1 DEF AloneKnows, Picked
  <2>2. reconciler[r].left \subseteq Services
    BY DEF ServicesTypeOK, Reconciles
  <2>3. \A t \in reconciler[r].left : IsStill(box'[t], reconciler'[r].listed[t])
    BY <1>1, <2>1, <2>2 DEF AloneKnows
  <2>4. \A t \in Services \ {s} : Settled(r, t) => Settled(r, t)'
    BY DEF Settled
  <2>5. \A t \in Services \ reconciler[r].left : t # s => Settled(r, t)'
    BY <1>1, <2>1, <2>4 DEF AloneKnows, Picked
  <2>6. \A t \in Services \ reconciler[r].left :
           reconciler'[r].at = "picks" \/ t # reconciler'[r].service => Settled(r, t)'
    BY <2>1, <2>5
  <2> QED
    BY <2>1, <2>3, <2>6
<1> QED
  BY <1>1, MineAlone

\* Types.
LEMMA ServicesTypeNext ==
  ASSUME ServicesTypeOK, [ServicesNext]_serviceVars
  PROVE  ServicesTypeOK'
<1>t. /\ configured \in Configs /\ box \in [Services -> Boxes]
      /\ volume \in [Services -> BOOLEAN] /\ server \in BOOLEAN
      /\ reconciler \in [Reconcilers -> Reconciles]
      /\ spent \in [configs : 0..MaxConfigs, boxes : 0..MaxBoxes, faults : 0..MaxFaults]
  BY DEF ServicesTypeOK
<1>n. NoBox \in Boxes
  BY ServiceRecords
<1>s. /\ Spends("configs", MaxConfigs) => spent' \in [configs : 0..MaxConfigs, boxes : 0..MaxBoxes,
                                                     faults : 0..MaxFaults]
      /\ Spends("boxes", MaxBoxes) => spent' \in [configs : 0..MaxConfigs, boxes : 0..MaxBoxes,
                                                 faults : 0..MaxFaults]
      /\ Spends("faults", MaxFaults) => spent' \in [configs : 0..MaxConfigs, boxes : 0..MaxBoxes,
                                                   faults : 0..MaxFaults]
  BY <1>t, ServicesAssumption DEF Spends
<1>b. ASSUME NEW s \in Services, NEW status \in {"running", "restarting", "exited"}
      PROVE  [box EXCEPT ![s].status = status] \in [Services -> Boxes]
  <2>1. [box[s] EXCEPT !.status = status] \in Boxes
    BY <1>t DEF Boxes
  <2> QED
    BY <1>t, <2>1
<1>f. ASSUME NEW r \in Reconcilers, NEW can, CallFails(r, can) PROVE ServicesTypeOK'
  <2>1. reconciler' \in [Reconcilers -> Reconciles] /\ server' \in BOOLEAN
    BY <1>t, <1>f, ReportsThere DEF CallFails
  <2> QED
    BY <1>t, <1>f, <1>s, <2>1 DEF CallFails, ServicesTypeOK
<1>p. \A r \in Reconcilers : Picked(r) \in Services
  BY <1>t DEF Picked, Reconciles
<1>1. CASE ServerStarts
  BY <1>1, <1>t, BeginsThere DEF ServerStarts, Begins, Reconcilers, ServicesTypeOK
<1>2. CASE ReloadStarts
  BY <1>2, <1>t, BeginsThere DEF ReloadStarts, Begins, Reconcilers, ServicesTypeOK
<1>3. CASE ServerEnds
  BY <1>3, <1>t, <1>s, ServiceRecords DEF ServerEnds, ServicesTypeOK
<1>4. ASSUME NEW r \in Reconcilers, ReconcileStep(r) PROVE ServicesTypeOK'
  <2>1. CASE ListsServices(r)
    <3>1. HasListed(r) \/ CallFails(r, TRUE)
      BY <2>1 DEF ListsServices, HasListed
    <3>2. CASE HasListed(r)
      BY <1>t, <3>2, ListsThere DEF HasListed, ServicesTypeOK
    <3> QED
      BY <1>f, <3>1, <3>2
  <2>2. CASE PicksService(r)
    BY <1>t, <2>2, PicksThere DEF PicksService, ServicesTypeOK
  <2>3. CASE StopsService(r)
    <3>1. CASE CallFails(r, SameBox(r))
      BY <1>f, <3>1
    <3>2. CASE /\ box' = [box EXCEPT ![Picked(r)].status = "exited"]
               /\ Goes(r, AfterStop(Wanted(r), Found(r)))
               /\ UNCHANGED <<configured, volume, server, spent>>
      <4>1. box' \in [Services -> Boxes]
        BY <1>b, <1>p, <3>2
      <4>2. reconciler' \in [Reconcilers -> Reconciles]
        BY <1>t, <3>2, StepsThereAre, GoesThere
      <4> QED
        BY <1>t, <3>2, <4>1, <4>2 DEF ServicesTypeOK
    <3> QED
      BY <2>3, <3>1, <3>2 DEF StopsService
  <2>4. CASE RemovesService(r)
    <3>1. CASE CallFails(r, SameBox(r))
      BY <1>f, <3>1
    <3>2. CASE /\ box' = [box EXCEPT ![Picked(r)] = NoBox]
               /\ Goes(r, IF Replaces(Wanted(r)) THEN "creates"
                          ELSE IF Cleanup(Wanted(r), Found(r)) = "drop" THEN "unmounts"
                          ELSE "picks")
               /\ UNCHANGED <<configured, volume, server, spent>>
      <4>1. box' \in [Services -> Boxes]
        BY <1>t, <1>n, <1>p, <3>2
      <4>2. reconciler' \in [Reconcilers -> Reconciles]
        BY <1>t, <3>2, GoesThere
      <4> QED
        BY <1>t, <3>2, <4>1, <4>2 DEF ServicesTypeOK
    <3> QED
      BY <2>4, <3>1, <3>2 DEF RemovesService
  <2>5. CASE DropsVolumes(r)
    <3>1. CASE CallFails(r, box[Picked(r)] = NoBox)
      BY <1>f, <3>1
    <3>2. CASE /\ volume' = [volume EXCEPT ![Picked(r)] = FALSE]
               /\ Goes(r, "picks")
               /\ UNCHANGED <<configured, box, server, spent>>
      <4>1. volume' \in [Services -> BOOLEAN]
        BY <1>t, <1>p, <3>2
      <4>2. reconciler' \in [Reconcilers -> Reconciles]
        BY <1>t, <3>2, GoesThere
      <4> QED
        BY <1>t, <3>2, <4>1, <4>2 DEF ServicesTypeOK
    <3> QED
      BY <2>5, <3>1, <3>2 DEF DropsVolumes
  <2>6. CASE CreatesService(r)
    <3>1. PICK created : created = [id |-> spent.boxes + 1, image |-> Wanted(r).image,
                                    cleanup |-> Wanted(r).cleanup, status |-> "created"]
      OBVIOUS
    <3>2. HasCreated(r, created) \/ CallFails(r, box[Picked(r)] = NoBox)
      BY <2>6, <3>1 DEF CreatesService, HasCreated
    <3>3. CASE HasCreated(r, created)
      <4>1. created \in Boxes /\ reconciler' \in [Reconcilers -> Reconciles]
        BY <3>3, CreatesThere
      <4>2. box' \in [Services -> Boxes] /\ spent' \in [configs : 0..MaxConfigs,
                                                boxes : 0..MaxBoxes, faults : 0..MaxFaults]
        BY <1>t, <1>s, <3>3, <4>1 DEF HasCreated
      <4>3. volume' \in [Services -> BOOLEAN]
        BY <1>t, <3>3 DEF HasCreated
      <4> QED
        BY <1>t, <3>3, <4>1, <4>2, <4>3 DEF HasCreated, ServicesTypeOK
    <3> QED
      BY <1>f, <3>2, <3>3
  <2>7. CASE StartsService(r)
    <3>1. CASE CallFails(r, SameBox(r))
      BY <1>f, <3>1
    <3>2. CASE /\ box' = box \/ box' = [box EXCEPT ![Picked(r)].status = "running"]
               /\ Goes(r, "waits")
               /\ UNCHANGED <<configured, volume, server, spent>>
      <4>1. box' \in [Services -> Boxes]
        <5>1. [box EXCEPT ![Picked(r)].status = "running"] \in [Services -> Boxes]
          BY <1>b, <1>p
        <5> QED
          BY <1>t, <3>2, <5>1
      <4>2. reconciler' \in [Reconcilers -> Reconciles]
        BY <1>t, <3>2, GoesThere
      <4> QED
        BY <1>t, <3>2, <4>1, <4>2 DEF ServicesTypeOK
    <3> QED
      BY <2>7, <3>1, <3>2 DEF StartsService
  <2>8. CASE AwaitsService(r)
    <3>1. CASE CallFails(r, TRUE)
      BY <1>f, <3>1
    <3>2. CASE Goes(r, "picks") /\ UNCHANGED <<configured, box, volume, server, spent>>
      BY <1>t, <3>2, GoesThere DEF ServicesTypeOK
    <3> QED
      BY <2>8, <3>1, <3>2 DEF AwaitsService
  <2>9. CASE ReconcileReturns(r)
    BY <1>t, <2>9, ServiceRecords DEF ReconcileReturns, ServicesTypeOK
  <2> QED
    BY <1>4, <2>1, <2>2, <2>3, <2>4, <2>5, <2>6, <2>7, <2>8, <2>9 DEF ReconcileStep
<1>5. ASSUME NEW s \in Services, EditsServices(s) PROVE ServicesTypeOK'
  <2>1. configured' \in Configs
    BY <1>t, <1>5 DEF EditsServices, Configs
  <2> QED
    BY <1>t, <1>s, <1>5, <2>1 DEF EditsServices, ServicesTypeOK
<1>6. ASSUME NEW s \in Services, EndsByItself(s) \/ IsRestarted(s) PROVE ServicesTypeOK'
  <2>1. box' \in [Services -> Boxes]
    BY <1>b, <1>6 DEF EndsByItself, IsRestarted
  <2> QED
    BY <1>t, <1>6, <2>1 DEF EndsByItself, IsRestarted, ServicesTypeOK
<1>7. CASE UNCHANGED serviceVars
  BY <1>7 DEF serviceVars, ServicesTypeOK
<1> QED
  BY <1>1, <1>2, <1>3, <1>4, <1>5, <1>6, <1>7 DEF ServicesNext

\* Who is busy with a container has found one.
LEMMA BoxesAreWholeNext ==
  ASSUME ServicesTypeOK, BoxesAreWhole, [ServicesNext]_serviceVars
  PROVE  BoxesAreWhole'
<1>t. /\ box \in [Services -> Boxes] /\ volume \in [Services -> BOOLEAN]
      /\ reconciler \in [Reconcilers -> Reconciles]
  BY DEF ServicesTypeOK
<1>p. \A r \in Reconcilers : Picked(r) \in Services
  BY <1>t DEF Picked, Reconciles
<1> DEFINE Volumes == \A s \in Services : box[s] # NoBox => box[s].id # 0 /\ volume[s]
           Finds(r) == /\ \A s \in Services : \/ reconciler[r].listed[s] = NoBox
                                              \/ reconciler[r].listed[s].id # 0
                       /\ reconciler[r].at \in {"stops", "removes", "starts"} => Found(r).id # 0
<1>a. Volumes /\ \A r \in Reconcilers : Finds(r)
  BY DEF BoxesAreWhole
<1>g. Volumes' /\ (\A r \in Reconcilers : Finds(r)') => BoxesAreWhole'
  BY DEF BoxesAreWhole
<1>o. \A q \in Reconcilers : reconciler'[q] = reconciler[q] => Finds(q)'
  BY <1>a DEF Found
<1>r. \A q \in Reconcilers : reconciler'[q] = AtRest => Finds(q)'
  BY ServiceRecords DEF Found
<1>v. UNCHANGED <<box, volume>> => Volumes'
  BY <1>a
<1>w. ASSUME NEW s \in Services, NEW b, b # NoBox => b.id # 0,
             box' = [box EXCEPT ![s] = b], b # NoBox => volume'[s],
             \A u \in Services \ {s} : volume'[u] = volume[u]
      PROVE  Volumes'
  BY <1>a, <1>t, <1>w
<1>f. ASSUME NEW r \in Reconcilers, NEW can, CallFails(r, can) PROVE BoxesAreWhole'
  <2>1. \A q \in Reconcilers : reconciler'[q] \in {AtRest, reconciler[q]}
    BY <1>t, <1>f, ReportsThere DEF CallFails
  <2>2. UNCHANGED <<box, volume>>
    BY <1>f DEF CallFails
  <2> HIDE DEF Volumes, Finds
  <2> QED
    BY <1>g, <1>o, <1>r, <1>v, <2>1, <2>2
\* To go on with what was found.
<1>h. ASSUME NEW r \in Reconcilers,
             NEW at \in {"picks", "stops", "removes", "unmounts", "creates", "starts", "waits"},
             Goes(r, at), reconciler[r].at \in {"stops", "removes", "starts"}
                          \/ at \notin {"stops", "removes", "starts"}
      PROVE  \A q \in Reconcilers : Finds(q)'
  <2>1. Finds(r)'
    BY <1>a, <1>h, <1>t, GoesThere DEF Found, Concerned
  <2>2. \A q \in Reconcilers \ {r} : reconciler'[q] = reconciler[q]
    BY <1>h, <1>t, GoesThere
  <2> HIDE DEF Finds
  <2> QED
    BY <1>o, <2>1, <2>2
\* A begin.
<1>j. ASSUME NEW r \in Reconcilers, Begins(r) PROVE BoxesAreWhole'
  <2>1. Finds(r)'
    BY <1>j, BeginsThere
  <2>2. \A q \in Reconcilers \ {r} : Finds(q)'
    BY <1>a, <1>j, BeginsThere DEF Found
  <2>3. Volumes'
    BY <1>j, <1>v DEF Begins
  <2> HIDE DEF Volumes, Finds
  <2> QED
    BY <1>g, <2>1, <2>2, <2>3
<1>1. CASE ServerStarts \/ ReloadStarts
  BY <1>1, <1>j DEF ServerStarts, ReloadStarts, Reconcilers
<1>2. CASE ServerEnds
  <2>1. \A q \in Reconcilers : reconciler'[q] = AtRest
    BY <1>2 DEF ServerEnds
  <2>2. UNCHANGED <<box, volume>>
    BY <1>2 DEF ServerEnds
  <2> HIDE DEF Volumes, Finds
  <2> QED
    BY <1>g, <1>r, <1>v, <2>1, <2>2
<1>3. ASSUME NEW r \in Reconcilers, ReconcileStep(r) PROVE BoxesAreWhole'
  <2>1. CASE ListsServices(r)
    <3>1. HasListed(r) \/ CallFails(r, TRUE)
      BY <2>1 DEF ListsServices, HasListed
    <3>2. CASE HasListed(r)
      <4>1. Finds(r)'
        BY <1>a, <3>2, ListsThere
      <4>2. \A q \in Reconcilers \ {r} : reconciler'[q] = reconciler[q]
        BY <3>2, ListsThere
      <4>3. UNCHANGED <<box, volume>>
        BY <3>2 DEF HasListed
      <4> HIDE DEF Volumes, Finds
      <4> QED
        BY <1>g, <1>o, <1>v, <4>1, <4>2, <4>3
    <3> QED
      BY <1>f, <3>1, <3>2
  <2>2. CASE PicksService(r)
    <3>1. PICK s \in reconciler[r].left :
             LET first == FirstStep(reconciler[r].config[s], reconciler[r].listed[s]) IN
             /\ s \in Services
             /\ \A q \in Reconcilers \ {r} : reconciler'[q] = reconciler[q]
             /\ reconciler'[r].at = first
             /\ reconciler'[r].listed = [reconciler[r].listed EXCEPT ![s] = NoBox]
             /\ reconciler'[r].found = Concerned(first, reconciler[r].listed[s])
      BY <1>t, <2>2, PicksThere
    <3>2. FirstStep(reconciler[r].config[s], NoBox) \notin {"stops", "removes", "starts"}
      BY DEF FirstStep
    <3>3. reconciler'[r].at \in {"stops", "removes", "starts"} => reconciler'[r].found.id # 0
      BY <1>a, <3>1, <3>2 DEF Concerned
    <3>4. reconciler[r].listed \in [Services -> Boxes]
      BY <1>t DEF Reconciles
    <3>5. Finds(r)'
      BY <1>a, <3>1, <3>3, <3>4 DEF Found
    <3>6. UNCHANGED <<box, volume>>
      BY <2>2 DEF PicksService
    <3> HIDE DEF Volumes, Finds
    <3> QED
      BY <1>g, <1>o, <1>v, <3>1, <3>5, <3>6
  <2>3. CASE StopsService(r)
    <3>1. CASE CallFails(r, SameBox(r))
      BY <1>f, <3>1
    <3>2. CASE /\ SameBox(r)
               /\ box' = [box EXCEPT ![Picked(r)].status = "exited"]
               /\ Goes(r, AfterStop(Wanted(r), Found(r)))
               /\ UNCHANGED <<configured, volume, server, spent>>
      <4>1. \A q \in Reconcilers : Finds(q)'
        BY <1>h, <2>3, <3>2, StepsThereAre DEF StopsService
      <4>2. box[Picked(r)].id # 0 /\ box[Picked(r)] # NoBox
        BY <1>a, <2>3, <3>2, ServiceRecords DEF SameBox, StopsService
      <4>3. [box[Picked(r)] EXCEPT !.status = "exited"].id = box[Picked(r)].id
        BY <1>p, <1>t DEF Boxes
      <4>4. volume[Picked(r)]
        BY <1>a, <1>p, <4>2
      <4>5. Volumes'
        BY <1>p, <1>w, <3>2, <4>2, <4>3, <4>4
      <4> HIDE DEF Volumes, Finds
      <4> QED
        BY <1>g, <4>1, <4>5
    <3> QED
      BY <2>3, <3>1, <3>2 DEF StopsService
  <2>4. CASE RemovesService(r)
    <3>1. CASE CallFails(r, SameBox(r))
      BY <1>f, <3>1
    <3>2. CASE /\ box' = [box EXCEPT ![Picked(r)] = NoBox]
               /\ Goes(r, IF Replaces(Wanted(r)) THEN "creates"
                          ELSE IF Cleanup(Wanted(r), Found(r)) = "drop" THEN "unmounts"
                          ELSE "picks")
               /\ UNCHANGED <<configured, volume, server, spent>>
      <4>1. \A q \in Reconcilers : Finds(q)'
        BY <1>h, <2>4, <3>2 DEF RemovesService
      <4>2. Volumes'
        BY <1>p, <1>w, <3>2
      <4> HIDE DEF Volumes, Finds
      <4> QED
        BY <1>g, <4>1, <4>2
    <3> QED
      BY <2>4, <3>1, <3>2 DEF RemovesService
  <2>5. CASE DropsVolumes(r)
    <3>1. CASE CallFails(r, box[Picked(r)] = NoBox)
      BY <1>f, <3>1
    <3>2. CASE /\ box[Picked(r)] = NoBox
               /\ volume' = [volume EXCEPT ![Picked(r)] = FALSE]
               /\ Goes(r, "picks")
               /\ UNCHANGED <<configured, box, server, spent>>
      <4>1. \A q \in Reconcilers : Finds(q)'
        BY <1>h, <3>2
      <4>2. Volumes'
        BY <1>a, <1>t, <3>2
      <4> HIDE DEF Volumes, Finds
      <4> QED
        BY <1>g, <4>1, <4>2
    <3> QED
      BY <2>5, <3>1, <3>2 DEF DropsVolumes
  <2>6. CASE CreatesService(r)
    <3>1. PICK created : created = [id |-> spent.boxes + 1, image |-> Wanted(r).image,
                                    cleanup |-> Wanted(r).cleanup, status |-> "created"]
      OBVIOUS
    <3>2. HasCreated(r, created) \/ CallFails(r, box[Picked(r)] = NoBox)
      BY <2>6, <3>1 DEF CreatesService, HasCreated
    <3>3. CASE HasCreated(r, created)
      <4>1. Finds(r)'
        BY <1>a, <3>3, CreatesThere DEF Found
      <4>2. \A q \in Reconcilers \ {r} : reconciler'[q] = reconciler[q]
        BY <3>3, CreatesThere
      <4>3. created.id # 0
        BY <3>3, CreatesThere
      <4>4. box' = [box EXCEPT ![Picked(r)] = created] /\ volume' = [volume EXCEPT ![Picked(r)] = TRUE]
        BY <3>3 DEF HasCreated
      <4>5. Volumes'
        BY <1>p, <1>t, <1>w, <4>3, <4>4
      <4> HIDE DEF Volumes, Finds
      <4> QED
        BY <1>g, <1>o, <4>1, <4>2, <4>5
    <3> QED
      BY <1>f, <3>2, <3>3
  <2>7. CASE StartsService(r)
    <3>1. CASE CallFails(r, SameBox(r))
      BY <1>f, <3>1
    <3>2. CASE /\ SameBox(r)
               /\ box' = box \/ box' = [box EXCEPT ![Picked(r)].status = "running"]
               /\ Goes(r, "waits")
               /\ UNCHANGED <<configured, volume, server, spent>>
      <4>1. \A q \in Reconcilers : Finds(q)'
        BY <1>h, <3>2
      <4>2. box[Picked(r)].id # 0 /\ box[Picked(r)] # NoBox
        BY <1>a, <2>7, <3>2, ServiceRecords DEF SameBox, StartsService
      <4>3. [box[Picked(r)] EXCEPT !.status = "running"].id = box[Picked(r)].id
        BY <1>p, <1>t DEF Boxes
      <4>4. volume[Picked(r)]
        BY <1>a, <1>p, <4>2
      <4>5. CASE box' = [box EXCEPT ![Picked(r)].status = "running"]
        <5>1. Volumes'
          BY <1>p, <1>w, <3>2, <4>2, <4>3, <4>4, <4>5
        <5> HIDE DEF Volumes, Finds
        <5> QED
          BY <1>g, <4>1, <5>1
      <4>6. CASE box' = box
        <5> HIDE DEF Volumes, Finds
        <5> QED
          BY <1>g, <1>v, <3>2, <4>1, <4>6
      <4> QED
        BY <3>2, <4>5, <4>6
    <3> QED
      BY <2>7, <3>1, <3>2 DEF StartsService
  <2>8. CASE AwaitsService(r)
    <3>1. CASE CallFails(r, TRUE)
      BY <1>f, <3>1
    <3>2. CASE Goes(r, "picks") /\ UNCHANGED <<configured, box, volume, server, spent>>
      <4>1. \A q \in Reconcilers : Finds(q)'
        BY <1>h, <3>2
      <4> HIDE DEF Volumes, Finds
      <4> QED
        BY <1>g, <1>v, <3>2, <4>1
    <3> QED
      BY <2>8, <3>1, <3>2 DEF AwaitsService
  <2>9. CASE ReconcileReturns(r)
    <3>1. \A q \in Reconcilers : reconciler'[q] \in {AtRest, reconciler[q]}
      BY <1>t, <2>9 DEF ReconcileReturns
    <3>2. UNCHANGED <<box, volume>>
      BY <2>9 DEF ReconcileReturns
    <3> HIDE DEF Volumes, Finds
    <3> QED
      BY <1>g, <1>o, <1>r, <1>v, <3>1, <3>2
  <2> QED
    BY <1>3, <2>1, <2>2, <2>3, <2>4, <2>5, <2>6, <2>7, <2>8, <2>9 DEF ReconcileStep
<1>4. ASSUME NEW s \in Services, EditsServices(s) PROVE BoxesAreWhole'
  BY <1>4 DEF EditsServices, BoxesAreWhole, Found
<1>5. ASSUME NEW s \in Services, EndsByItself(s) \/ IsRestarted(s) PROVE BoxesAreWhole'
  <2>1. PICK status \in {"running", "restarting"} :
           box' = [box EXCEPT ![s] = [box[s] EXCEPT !.status = status]]
    BY <1>5 DEF EndsByItself, IsRestarted
  <2>2. UNCHANGED <<volume, reconciler>>
    BY <1>5 DEF EndsByItself, IsRestarted
  <2>3. box[s] # NoBox /\ box[s].id # 0 /\ volume[s]
    BY <1>5, <1>a DEF EndsByItself, IsRestarted, NoBox
  <2>4. [box[s] EXCEPT !.status = status].id = box[s].id
    BY <1>t DEF Boxes
  <2>5. Volumes'
    BY <1>w, <2>1, <2>2, <2>3, <2>4
  <2> HIDE DEF Volumes, Finds
  <2> QED
    BY <1>g, <1>o, <2>2, <2>5
<1>6. CASE UNCHANGED serviceVars
  BY <1>6 DEF serviceVars, BoxesAreWhole, Found
<1> QED
  BY <1>1, <1>2, <1>3, <1>4, <1>5, <1>6 DEF ServicesNext

\* What is known of a container stays so until the calls for it are done.
LEMMA AllAloneKnowNext ==
  ASSUME ServicesTypeOK, BoxesAreWhole, AllAloneKnow, [ServicesNext]_serviceVars,
         BoxesAreWhole'
  PROVE  AllAloneKnow'
<1>t. /\ box \in [Services -> Boxes] /\ volume \in [Services -> BOOLEAN]
      /\ reconciler \in [Reconcilers -> Reconciles]
  BY DEF ServicesTypeOK
<1>p. \A r \in Reconcilers : Picked(r) \in Services
  BY <1>t DEF Picked, Reconciles
<1>r. AtRest.at = "idle" /\ ~ AtRest.alone
  BY ServiceRecords
\* Some rest, and what there is stays.
<1>f. ASSUME UNCHANGED <<box, volume>>,
             \A q \in Reconcilers : reconciler'[q] \in {AtRest, reconciler[q]}
      PROVE  AllAloneKnow'
  <2>1. SUFFICES ASSUME NEW q \in Reconcilers, reconciler'[q].alone PROVE AloneKnows(q)'
    BY DEF AllAloneKnow
  <2>2. reconciler'[q] = reconciler[q]
    BY <1>f, <1>r, <2>1
  <2>3. AloneKnows(q)
    BY <2>1, <2>2 DEF AllAloneKnow
  <2>4. \A p \in Reconcilers \ {q} : reconciler[p].at = "idle" => reconciler'[p].at = "idle"
    BY <1>f, <1>r
  <2> QED
    BY <1>f, <2>2, <2>3, <2>4, StaysKnown
<1>c. ASSUME NEW r \in Reconcilers, NEW can, CallFails(r, can) PROVE AllAloneKnow'
  BY <1>c, <1>f, <1>t, ReportsThere DEF CallFails
<1>j. ASSUME NEW r \in Reconcilers, Begins(r) PROVE AllAloneKnow'
  <2>1. SUFFICES ASSUME NEW q \in Reconcilers, reconciler'[q].alone PROVE AloneKnows(q)'
    BY DEF AllAloneKnow
  <2>2. q = r /\ reconciler'[r].at = "lists"
    BY <1>j, <2>1, BeginsThere
  <2>3. \A p \in Reconcilers : p # r => reconciler'[p].at = "idle"
    BY <1>j, <2>1, <2>2, BeginsThere
  <2> QED
    BY <2>2, <2>3 DEF AloneKnows
<1>1. CASE ServerStarts \/ ReloadStarts
  BY <1>1, <1>j DEF ServerStarts, ReloadStarts, Reconcilers
<1>2. CASE ServerEnds
  BY <1>2, <1>f DEF ServerEnds
<1>3. ASSUME NEW r \in Reconcilers, ReconcileStep(r) PROVE AllAloneKnow'
  <2>s. PICK s \in Services : s = Picked(r)
    BY <1>p
  <2>1. CASE ListsServices(r)
    <3>1. HasListed(r) \/ CallFails(r, TRUE)
      BY <2>1 DEF ListsServices, HasListed
    <3>2. CASE HasListed(r)
      <4>1. /\ \A q \in Reconcilers \ {r} : reconciler'[q] = reconciler[q]
            /\ reconciler'[r].at = "picks" /\ reconciler'[r].listed = box
            /\ reconciler'[r].config = reconciler[r].config
            /\ reconciler'[r].alone = reconciler[r].alone
            /\ reconciler'[r].left = {u \in Services :
                                       reconciler[r].config[u] # Absent \/ box[u] # NoBox}
        BY <3>2, ListsThere
      <4>2. reconciler[r].at # "idle" /\ UNCHANGED <<box, volume>>
        BY <3>2 DEF HasListed
      <4>3. \A u \in reconciler'[r].left : IsStill(box'[u], reconciler'[r].listed[u])
        BY <4>1, <4>2 DEF IsStill
      <4>4. \A u \in Services \ reconciler'[r].left : Settled(r, u)'
        BY <4>1, <4>2 DEF Settled, Absent
      <4> QED
        BY <4>1, <4>2, <4>3, <4>4, MineAlone
    <3> QED
      BY <1>c, <3>1, <3>2
  <2>2. CASE PicksService(r)
    <3>1. PICK u \in reconciler[r].left :
             LET first == FirstStep(reconciler[r].config[u], reconciler[r].listed[u]) IN
             /\ u \in Services
             /\ \A q \in Reconcilers \ {r} : reconciler'[q] = reconciler[q]
             /\ reconciler'[r].at = first
             /\ reconciler'[r].config = reconciler[r].config
             /\ reconciler'[r].listed = [reconciler[r].listed EXCEPT ![u] = NoBox]
             /\ reconciler'[r].left = reconciler[r].left \ {u}
             /\ reconciler'[r].alone = reconciler[r].alone
             /\ first # "picks" => reconciler'[r].service = u
             /\ reconciler'[r].found = Concerned(first, reconciler[r].listed[u])
      BY <1>t, <2>2, PicksThere
    <3>2. reconciler[r].at = "picks" /\ UNCHANGED <<box, volume>>
      BY <2>2 DEF PicksService
    <3>3. PICK found : found = reconciler[r].listed[u]
      OBVIOUS
    <3>4. PICK config : config = reconciler[r].config[u]
      OBVIOUS
    <3>5. ASSUME AloneKnows(r)
          PROVE  /\ \A v \in reconciler'[r].left : IsStill(box'[v], reconciler'[r].listed[v])
                 /\ \A v \in Services \ reconciler'[r].left :
                      reconciler'[r].at = "picks" \/ v # reconciler'[r].service => Settled(r, v)'
                 /\ reconciler'[r].at # "picks" =>
                      reconciler'[r].service \notin reconciler'[r].left /\ Settling(r)'
      <4>1. \A v \in reconciler[r].left : IsStill(box[v], reconciler[r].listed[v])
        BY <3>2, <3>5 DEF AloneKnows
      <4>2. \A v \in Services : Settled(r, v)' <=> Settled(r, v)
        BY <3>1, <3>2 DEF Settled
      <4>3. \A v \in Services \ reconciler[r].left : Settled(r, v)'
        BY <3>2, <3>5, <4>2 DEF AloneKnows
      <4>4. reconciler[r].left \subseteq Services /\ reconciler[r].listed \in [Services -> Boxes]
        BY <1>t DEF Reconciles
      <4>5. \A v \in reconciler'[r].left : IsStill(box'[v], reconciler'[r].listed[v])
        BY <3>1, <3>2, <4>1, <4>4
      <4>6. IsStill(box[u], found)
        BY <3>1, <3>3, <4>1
      <4>7. ASSUME FirstStep(config, found) = "picks" PROVE Settled(r, u)'
        <5>1. ~ config.enabled /\ (found = NoBox \/ Cleanup(config, found) = "keep")
          BY <4>7 DEF FirstStep, AfterStop, Replaces
        <5>2. ~ config.enabled /\ (box[u] = NoBox \/ Cleanup(config, box[u]) = "keep")
          BY <4>6, <5>1 DEF IsStill, Cleanup
        <5> QED
          BY <3>1, <3>2, <3>4, <5>2 DEF Settled
      <4>8. ASSUME FirstStep(config, found) # "picks" PROVE Settling(r)'
        <5>1. /\ reconciler'[r].at = FirstStep(config, found) /\ reconciler'[r].service = u
              /\ reconciler'[r].found = Concerned(FirstStep(config, found), found)
              /\ reconciler'[r].config[u] = config
          BY <3>1, <3>3, <3>4, <4>8
        <5>2. FirstStep(config, found) # "unmounts"
          BY StepsThereAre
        <5>3. FirstStep(config, found) \in {"creates", "starts"} => config.enabled
          BY DEF FirstStep, AfterStop, Replaces
        <5>4. FirstStep(config, found) = "starts" => Matches(found, config)
          BY DEF FirstStep, AfterStop
        <5>5. FirstStep(config, found) = "waits" => Settled(r, u)'
          <6>1. SUFFICES ASSUME FirstStep(config, found) = "waits" PROVE Settled(r, u)'
            OBVIOUS
          <6>2. config.enabled /\ Matches(found, config) /\ found.status = "running"
                /\ found # NoBox
            BY <6>1 DEF FirstStep, AfterStop
          <6>3. Matches(box[u], config) /\ box[u].status \in {"running", "restarting"}
            BY <4>6, <6>2 DEF IsStill, Matches
          <6>4. box[u] # NoBox /\ volume[u]
            BY <3>1, <6>3 DEF NoBox, BoxesAreWhole
          <6> QED
            BY <3>1, <3>2, <3>4, <6>2, <6>3, <6>4 DEF Settled
        <5>6. reconciler'[r].at \in {"stops", "starts"} => IsStill(box'[u], reconciler'[r].found)
          BY <3>2, <4>6, <5>1 DEF Concerned
        <5>7. reconciler'[r].at = "starts" => reconciler'[r].found = found
          BY <5>1 DEF Concerned
        <5> QED
          BY <5>1, <5>2, <5>3, <5>4, <5>5, <5>6, <5>7 DEF Settling, Picked, Wanted, Found
      <4>9. \A v \in Services \ reconciler'[r].left :
               reconciler'[r].at = "picks" \/ v # reconciler'[r].service => Settled(r, v)'
        BY <3>1, <3>3, <3>4, <4>3, <4>7
      <4>10. reconciler'[r].at # "picks" =>
                reconciler'[r].service \notin reconciler'[r].left /\ Settling(r)'
        BY <3>1, <3>3, <3>4, <4>8
      <4> QED
        BY <4>5, <4>9, <4>10
    <3> QED
      BY <3>1, <3>2, <3>5, MineAlone
  <2>3. CASE StopsService(r)
    <3>1. CASE CallFails(r, SameBox(r))
      BY <1>c, <3>1
    <3>2. CASE /\ box' = [box EXCEPT ![Picked(r)].status = "exited"]
               /\ Goes(r, AfterStop(Wanted(r), Found(r)))
               /\ UNCHANGED <<configured, volume, server, spent>>
      <4>1. reconciler[r].at = "stops"
        BY <2>3 DEF StopsService
      <4>2. PICK at \in {"picks", "removes", "creates"} : at = AfterStop(Wanted(r), Found(r))
        BY StepsThereAre
      <4>3. Goes(r, at)
        BY <3>2, <4>2
      <4>4. /\ \A t \in Services \ {s} : box'[t] = box[t] /\ volume'[t] = volume[t]
            /\ box'[s].cleanup = box[s].cleanup
        BY <1>t, <2>s, <3>2 DEF Boxes
      <4>5. ASSUME Settling(r), at = "picks" PROVE Settled(r, s)'
        <5>1. ~ Wanted(r).enabled /\ Cleanup(Wanted(r), Found(r)) = "keep"
          BY <4>2, <4>5 DEF AfterStop, Replaces
        <5>2. box[s].cleanup = Found(r).cleanup
          BY <2>s, <4>1, <4>5 DEF Settling, IsStill
        <5>3. reconciler'[r].config = reconciler[r].config
          BY <1>t, <4>3, GoesThere
        <5> QED
          BY <2>s, <4>4, <5>1, <5>2, <5>3 DEF Settled, Cleanup, Wanted
      <4>6. ASSUME Settling(r), at # "picks" PROVE Settling(r)'
        <5>1. at = "creates" => Wanted(r).enabled
          BY <4>2 DEF AfterStop, Replaces
        <5> QED
          BY <1>t, <4>2, <4>3, <4>6, <5>1, GoesThere DEF Settling, Picked, Wanted
      <4> QED
        BY <1>t, <2>s, <4>1, <4>2, <4>3, <4>4, <4>5, <4>6, GoesThere, OwnStep
    <3> QED
      BY <2>3, <3>1, <3>2 DEF StopsService
  <2>4. CASE RemovesService(r)
    <3>1. CASE CallFails(r, SameBox(r))
      BY <1>c, <3>1
    <3>2. CASE /\ box' = [box EXCEPT ![Picked(r)] = NoBox]
               /\ Goes(r, IF Replaces(Wanted(r)) THEN "creates"
                          ELSE IF Cleanup(Wanted(r), Found(r)) = "drop" THEN "unmounts"
                          ELSE "picks")
               /\ UNCHANGED <<configured, volume, server, spent>>
      <4>1. reconciler[r].at = "removes"
        BY <2>4 DEF RemovesService
      <4>2. PICK at \in {"picks", "unmounts", "creates"} :
               /\ Goes(r, at)
               /\ at = "creates" <=> Wanted(r).enabled
        BY <3>2 DEF Replaces
      <4>3. /\ \A t \in Services \ {s} : box'[t] = box[t] /\ volume'[t] = volume[t]
            /\ box'[s] = NoBox
        BY <1>t, <2>s, <3>2
      <4>4. reconciler'[r].config = reconciler[r].config
        BY <1>t, <4>2, GoesThere
      <4>5. at = "picks" => Settled(r, s)'
        BY <2>s, <4>2, <4>3, <4>4 DEF Settled, Wanted
      <4>6. at # "picks" => Settling(r)'
        BY <1>t, <4>2, <4>4, GoesThere DEF Settling, Picked, Wanted
      <4> QED
        BY <1>t, <2>s, <4>1, <4>2, <4>3, <4>5, <4>6, GoesThere, OwnStep
    <3> QED
      BY <2>4, <3>1, <3>2 DEF RemovesService
  <2>5. CASE DropsVolumes(r)
    <3>1. CASE CallFails(r, box[Picked(r)] = NoBox)
      BY <1>c, <3>1
    <3>2. CASE /\ box[Picked(r)] = NoBox
               /\ volume' = [volume EXCEPT ![Picked(r)] = FALSE]
               /\ Goes(r, "picks")
               /\ UNCHANGED <<configured, box, server, spent>>
      <4>1. reconciler[r].at = "unmounts"
        BY <2>5 DEF DropsVolumes
      <4>2. \A t \in Services \ {s} : box'[t] = box[t] /\ volume'[t] = volume[t]
        BY <1>t, <2>s, <3>2
      <4>3. reconciler'[r].config = reconciler[r].config
        BY <1>t, <3>2, GoesThere
      <4>4. Settling(r) => Settled(r, s)'
        BY <2>s, <3>2, <4>1, <4>3 DEF Settled, Settling, Wanted
      <4> QED
        BY <1>t, <2>s, <3>2, <4>1, <4>2, <4>4, GoesThere, OwnStep
    <3> QED
      BY <2>5, <3>1, <3>2 DEF DropsVolumes
  <2>6. CASE CreatesService(r)
    <3>1. PICK created : created = [id |-> spent.boxes + 1, image |-> Wanted(r).image,
                                    cleanup |-> Wanted(r).cleanup, status |-> "created"]
      OBVIOUS
    <3>2. HasCreated(r, created) \/ CallFails(r, box[Picked(r)] = NoBox)
      BY <2>6, <3>1 DEF CreatesService, HasCreated
    <3>3. CASE HasCreated(r, created)
      <4>1. reconciler[r].at = "creates"
        BY <3>3 DEF HasCreated
      <4>2. /\ \A t \in Services \ {s} : box'[t] = box[t] /\ volume'[t] = volume[t]
            /\ box'[s] = created
        BY <1>t, <2>s, <3>3 DEF HasCreated
      <4>3. Matches(created, Wanted(r)) /\ created.status = "created"
        BY <3>3, CreatesThere DEF HasCreated
      <4>4. IsStill(created, created)
        BY <4>3 DEF IsStill
      <4>5. Settling(r) => Settling(r)'
        BY <2>s, <3>3, <4>1, <4>2, <4>3, <4>4, CreatesThere
           DEF Settling, Picked, Wanted, Found
      <4> QED
        BY <2>s, <3>3, <4>1, <4>2, <4>5, CreatesThere, OwnStep
    <3> QED
      BY <1>c, <3>2, <3>3
  <2>7. CASE StartsService(r)
    <3>1. CASE CallFails(r, SameBox(r))
      BY <1>c, <3>1
    <3>2. CASE /\ SameBox(r)
               /\ box' = IF box[Picked(r)].status = "restarting" THEN box
                         ELSE [box EXCEPT ![Picked(r)].status = "running"]
               /\ Goes(r, "waits")
               /\ UNCHANGED <<configured, volume, server, spent>>
      <4>1. reconciler[r].at = "starts"
        BY <2>7 DEF StartsService
      <4>2. /\ \A t \in Services \ {s} : box'[t] = box[t] /\ volume'[t] = volume[t]
            /\ box'[s].image = box[s].image /\ box'[s].cleanup = box[s].cleanup
            /\ box'[s].status \in {"running", "restarting"}
        BY <1>t, <2>s, <3>2 DEF Boxes
      <4>3. reconciler'[r].config = reconciler[r].config
        BY <1>t, <3>2, GoesThere
      <4>4. box'[s] # NoBox /\ volume'[s]
        BY <4>2 DEF NoBox, BoxesAreWhole
      <4>5. Settling(r) => Settled(r, s)'
        BY <2>s, <4>1, <4>2, <4>3, <4>4 DEF Settling, Settled, Matches, IsStill, Wanted
      <4>6. Settling(r) => Settling(r)'
        BY <1>t, <2>s, <3>2, <4>5, GoesThere DEF Settling, Picked
      <4> QED
        BY <1>t, <2>s, <3>2, <4>1, <4>2, <4>6, GoesThere, OwnStep
    <3> QED
      BY <2>7, <3>1, <3>2 DEF StartsService
  <2>8. CASE AwaitsService(r)
    <3>1. CASE CallFails(r, TRUE)
      BY <1>c, <3>1
    <3>2. CASE Goes(r, "picks") /\ UNCHANGED <<configured, box, volume, server, spent>>
      <4>1. reconciler[r].at = "waits"
        BY <2>8 DEF AwaitsService
      <4>2. reconciler'[r].config = reconciler[r].config
        BY <1>t, <3>2, GoesThere
      <4>3. Settling(r) => Settled(r, s)'
        BY <2>s, <3>2, <4>1, <4>2 DEF Settling, Settled
      <4> QED
        BY <1>t, <2>s, <3>2, <4>1, <4>3, GoesThere, OwnStep
    <3> QED
      BY <2>8, <3>1, <3>2 DEF AwaitsService
  <2>9. CASE ReconcileReturns(r)
    BY <1>f, <1>t, <2>9 DEF ReconcileReturns
  <2> QED
    BY <1>3, <2>1, <2>2, <2>3, <2>4, <2>5, <2>6, <2>7, <2>8, <2>9 DEF ReconcileStep
<1>4. ASSUME NEW s \in Services, EditsServices(s) PROVE AllAloneKnow'
  BY <1>4, <1>f DEF EditsServices
<1>5. ASSUME NEW s \in Services, EndsByItself(s) \/ IsRestarted(s) PROVE AllAloneKnow'
  <2>1. PICK status \in {"running", "restarting"} :
           box' = [box EXCEPT ![s] = [box[s] EXCEPT !.status = status]]
    BY <1>5 DEF EndsByItself, IsRestarted
  <2>2. UNCHANGED <<volume, reconciler>> /\ box[s].status \in {"running", "restarting"}
    BY <1>5 DEF EndsByItself, IsRestarted
  <2>3. PICK b : b = [box[s] EXCEPT !.status = status]
    OBVIOUS
  <2>4. /\ b.image = box[s].image /\ b.cleanup = box[s].cleanup /\ b.status = status
    BY <1>t, <2>3 DEF Boxes
  <2>5. b # NoBox /\ box[s] # NoBox
    BY <2>2, <2>4 DEF NoBox
  <2>6. \A u \in Services :
            /\ box'[u].image = box[u].image /\ box'[u].cleanup = box[u].cleanup
            /\ box[u] = NoBox <=> box'[u] = NoBox
            /\ box[u].status \in {"running", "restarting"} =>
                  box'[u].status \in {"running", "restarting"}
    BY <1>t, <2>1, <2>3, <2>4, <2>5
  <2> QED
    BY <1>t, <2>2, <2>6, RestartsDoNotMatter
<1>6. CASE UNCHANGED serviceVars
  BY <1>6, <1>f DEF serviceVars
<1> QED
  BY <1>1, <1>2, <1>3, <1>4, <1>5, <1>6 DEF ServicesNext

LEMMA ServicesInvInit == ServicesInit => ServicesInv
<1> SUFFICES ASSUME ServicesInit PROVE ServicesInv
  OBVIOUS
<1>1. configured \in Configs /\ server \in BOOLEAN
  BY DEF ServicesInit, Configs
<1>2. box \in [Services -> Boxes] /\ volume \in [Services -> BOOLEAN]
      /\ reconciler \in [Reconcilers -> Reconciles]
  BY ServiceRecords DEF ServicesInit
<1>3. spent \in [configs : 0..MaxConfigs, boxes : 0..MaxBoxes, faults : 0..MaxFaults]
  BY ServicesAssumption DEF ServicesInit
<1>4. ServicesTypeOK
  BY <1>1, <1>2, <1>3 DEF ServicesTypeOK
<1>5. \A r \in Reconcilers : reconciler[r] = AtRest
  BY DEF ServicesInit
<1>6. BoxesAreWhole /\ AllAloneKnow
  BY <1>5, ServiceRecords DEF ServicesInit, BoxesAreWhole, AllAloneKnow
<1> QED
  BY <1>4, <1>6 DEF ServicesInv

LEMMA ServicesInvNext == ServicesInv /\ [ServicesNext]_serviceVars => ServicesInv'
<1> SUFFICES ASSUME ServicesInv, [ServicesNext]_serviceVars PROVE ServicesInv'
  OBVIOUS
<1>1. ServicesTypeOK' /\ BoxesAreWhole'
  BY ServicesTypeNext, BoxesAreWholeNext DEF ServicesInv
<1> QED
  BY <1>1, AllAloneKnowNext DEF ServicesInv

LEMMA ServicesInvariant == ServicesSpec => []ServicesInv
BY ServicesInvInit, ServicesInvNext, PTL DEF ServicesSpec

\* Wherever an earlier Reconcile was cut off, by an error, a death or another one beside
\* it, and however the configuration has changed since: one that no other overlaps and
\* that reports no error leaves every service as its configuration says, for any number
\* of services, options, containers and faults (Service.Reconcile).
THEOREM ReconcileLeavesSettled == ServicesSpec => ReconcileSettles
<1>1. ServicesInv /\ [ServicesNext]_serviceVars =>
         [\A r \in Reconcilers : (ReconcileReturns(r) /\ reconciler[r].alone) =>
             \A s \in Services : Settled(r, s)]_serviceVars
  <2> SUFFICES ASSUME ServicesInv, NEW r \in Reconcilers, ReconcileReturns(r),
                      reconciler[r].alone, NEW s \in Services
               PROVE  Settled(r, s)
    OBVIOUS
  <2>1. AloneKnows(r)
    BY DEF ServicesInv, AllAloneKnow
  <2> QED
    BY <2>1 DEF AloneKnows, ReconcileReturns
<1> QED
  BY <1>1, ServicesInvariant, PTL DEF ServicesSpec, ReconcileSettles

-----------------------------------------------------------------------------
(* ConfigFile: what was acknowledged                                       *)

\* s.mu: one call at a time; nobody loads the memory while it is held.
LockIsHeld ==
    /\ \A c \in Changers : change[c].at # "idle" <=> c \in locked
    /\ \A c, d \in locked : c = d
    /\ \A c \in locked : memory[c] < MaxChanges

\* These routes have what the calls were told.
Keeps(routes) == \A c \in Changers : routes[c] >= claims[c]

\* So has everything that routes are read from, or will be read from.
ClaimsAreKept ==
    /\ Keeps(viper.routes) /\ Keeps(memory) /\ Keeps(file.routes)
    /\ \A c \in Changers :
          /\ change[c].at \in {"read", "rename", "reread", "assign", "verify", "restore"} =>
                Keeps(backup.routes)
          /\ change[c].at \in {"assign", "reassign"} => Keeps(change[c].bytes.routes)
    /\ watcher.at \in {"assign", "reassign"} => Keeps(watcher.bytes.routes)
    /\ trigger.at = "assign" => Keeps(trigger.bytes.routes)

\* From the rename on the file has what the call is about to acknowledge, and once the call
\* has read it again nobody holds anything older, or two have overlapped.
ChangeIsStored ==
    \A c \in Changers :
       /\ change[c].at \in {"reread", "assign", "verify"} => file.routes = Changed(c)
       /\ change[c].at = "assign" => change[c].bytes.routes = Changed(c)
       /\ change[c].at = "verify" =>
             /\ viper.routes = Changed(c)
             /\ watcher.at \in {"assign", "reassign"} => watcher.bytes.routes = Changed(c)
             /\ trigger.at = "assign" => trigger.bytes.routes = Changed(c)

ConfigInv == ConfigTypeOK /\ LockIsHeld /\ (~ spoiled => ClaimsAreKept /\ ChangeIsStored)

LEMMA ConfigRecords ==
  /\ Empty \in Contents /\ Empty.routes \in Routings /\ Rests \in CallRecord
  /\ Rests.at = "idle" /\ Rests.bytes = Empty
  /\ Empty.routes = [c \in Changers |-> 0] /\ Empty.settings = 0
  /\ IdleWatcher.at = "idle" /\ IdleWatcher.bytes = Empty
  /\ IdleWatcher \in WatcherRecord
  /\ IdleWatcher \in TriggerRecord
<1>1. Empty \in Contents /\ Empty.routes \in Routings
  BY ConfigAssumption DEF Empty, Contents, Routings
<1>2. Rests \in CallRecord
  BY <1>1, ConfigAssumption DEF Rests, CallRecord
<1>3. /\ IdleWatcher \in WatcherRecord
      /\ IdleWatcher \in TriggerRecord
  BY <1>1 DEF IdleWatcher, WatcherRecord, TriggerRecord
<1>4. /\ Rests.at = "idle" /\ Rests.bytes = Empty
      /\ IdleWatcher.at = "idle" /\ IdleWatcher.bytes = Empty
  BY DEF Rests, IdleWatcher
<1>5. Empty.routes = [c \in Changers |-> 0] /\ Empty.settings = 0
  BY DEF Empty
<1> QED
  BY <1>1, <1>2, <1>3, <1>4, <1>5

LEMMA ConfigFields ==
  ASSUME ConfigTypeOK
  PROVE  /\ Whole \in Contents /\ Whole.routes = file.routes
         /\ \A c \in Changers :
               /\ change[c] \in CallRecord
               /\ change[c].bytes \in Contents /\ change[c].bytes.routes \in Routings
         /\ viper.routes \in Routings /\ backup.routes \in Routings
         /\ file.routes \in Routings /\ watcher.bytes \in Contents
         /\ trigger.bytes \in Contents
         /\ watcher.bytes.routes \in Routings /\ trigger.bytes.routes \in Routings
<1>1. Whole \in Contents /\ Whole.routes = file.routes
  BY DEF ConfigTypeOK, Whole, Contents, FileRecord
<1>2. ASSUME NEW c \in Changers
      PROVE  change[c] \in CallRecord /\ change[c].bytes \in Contents
             /\ change[c].bytes.routes \in Routings
  BY DEF ConfigTypeOK, CallRecord, Contents
<1>3. /\ viper.routes \in Routings /\ backup.routes \in Routings
      /\ file.routes \in Routings
  BY DEF ConfigTypeOK, Contents, FileRecord
<1>4. /\ watcher.bytes \in Contents /\ trigger.bytes \in Contents
      /\ watcher.bytes.routes \in Routings /\ trigger.bytes.routes \in Routings
  <2>1. watcher.bytes \in Contents /\ trigger.bytes \in Contents
    BY DEF ConfigTypeOK, WatcherRecord, TriggerRecord
  <2> QED
    BY <2>1 DEF Contents
<1> QED
  BY <1>1, <1>2, <1>3, <1>4

LEMMA ChangedFields ==
  ASSUME ConfigTypeOK, NEW c \in Changers, memory[c] < MaxChanges
  PROVE  /\ Changed(c) \in Routings
         /\ \A d \in Changers : Changed(c)[d] >= memory[d]
<1>1. memory \in [Changers -> 0..MaxChanges] /\ MaxChanges \in Nat
  BY ConfigAssumption DEF ConfigTypeOK, Routings
<1>2. \A d \in Changers : Changed(c)[d] = IF d = c THEN memory[c] + 1 ELSE memory[d]
  BY <1>1 DEF Changed
<1>3. memory[c] + 1 \in 0..MaxChanges
  BY <1>1
<1>4. Changed(c) \in [Changers -> 0..MaxChanges]
  BY <1>1, <1>3 DEF Changed
<1>5. ASSUME NEW d \in Changers PROVE Changed(c)[d] >= memory[d]
  <2>1. memory[d] \in Nat /\ memory[c] \in Nat
    BY <1>1
  <2> QED
    BY <2>1, <1>2
<1> QED
  BY <1>4, <1>5 DEF Routings

\* A record of a call takes the place of the one it had.
LEMMA CallMoves ==
  ASSUME ConfigTypeOK, NEW c \in Changers, NEW new \in CallRecord,
         change' = [change EXCEPT ![c] = new]
  PROVE  /\ change' \in [Changers -> CallRecord] /\ change'[c] = new
         /\ \A d \in Changers \ {c} : change'[d] = change[d]
BY DEF ConfigTypeOK, CallRecord

\* Where a step leaves the call that takes it.
LEMMA CallSteps ==
  ASSUME ConfigTypeOK, NEW c \in Changers, ChangeStep(c)
  PROVE  /\ change' \in [Changers -> CallRecord]
         /\ \A d \in Changers \ {c} : change'[d] = change[d]
         /\ BeginsChange(c) => change'[c].at = "backup"
         /\ BacksUpFile(c) => change'[c].at = "read"
         /\ ReadsFile(c) => change'[c].at = "rename"
         /\ Renames(c) => change'[c].at = "reread"
         /\ RenameFails(c) => change'[c].at = "idle"
         /\ Rereads(c) => change'[c].at = (IF change[c].at = "reread" THEN "assign" ELSE "reassign") /\ change'[c].bytes = Whole
         /\ Assigns(c) => change'[c].at = "verify"
         /\ Verifies(c) => change'[c].at = "idle"
         /\ RestoreTruncates(c) => change'[c].at = "restore"
         /\ RestoreWrites(c) => change'[c].at = "restored"
         /\ RestoreLoads(c) => change'[c].at = "idle"
<1>t. change[c] \in CallRecord /\ Empty \in Contents /\ Whole \in Contents /\ Rests \in CallRecord
      /\ Rests.at = "idle" /\ viper.settings \in 0..MaxEdits
  BY ConfigRecords, ConfigFields DEF ConfigTypeOK, Contents
<1>1. ASSUME BeginsChange(c)
      PROVE  \E new \in CallRecord : /\ change' = [change EXCEPT ![c] = new] /\ new.at = "backup"
  <2> DEFINE new == [change[c] EXCEPT !.at = "backup", !.bytes = Empty]
  <2>1. change' = [change EXCEPT ![c] = new]
    BY <1>1, <1>t DEF BeginsChange, ChangeGoes, ConfigTypeOK
  <2>2. new \in CallRecord /\ new.at = "backup"
    BY <1>t, <1>1 DEF CallRecord
  <2> QED
    BY <2>1, <2>2
<1>2. ASSUME BacksUpFile(c)
      PROVE  \E new \in CallRecord : /\ change' = [change EXCEPT ![c] = new] /\ new.at = "read"
  <2> DEFINE new == [change[c] EXCEPT !.at = "read", !.snapshot = viper.settings]
  <2>1. change' = [change EXCEPT ![c] = new]
    BY <1>2, <1>t DEF BacksUpFile, ConfigTypeOK
  <2>2. new \in CallRecord /\ new.at = "read"
    BY <1>t, <1>2 DEF CallRecord
  <2> QED
    BY <2>1, <2>2
<1>3. ASSUME ReadsFile(c)
      PROVE  \E new \in CallRecord : /\ change' = [change EXCEPT ![c] = new] /\ new.at = "rename"
  <2> DEFINE new == [change[c] EXCEPT !.at = "rename", !.bytes = Whole]
  <2>1. change' = [change EXCEPT ![c] = new]
    BY <1>3, <1>t DEF ReadsFile, ConfigTypeOK
  <2>2. new \in CallRecord /\ new.at = "rename"
    BY <1>t, <1>3 DEF CallRecord
  <2> QED
    BY <2>1, <2>2
<1>4. ASSUME Renames(c)
      PROVE  \E new \in CallRecord : /\ change' = [change EXCEPT ![c] = new] /\ new.at = "reread"
  <2> DEFINE new == [change[c] EXCEPT !.at = "reread", !.bytes = Empty]
  <2>1. change' = [change EXCEPT ![c] = new]
    BY <1>4, <1>t DEF Renames, ChangeGoes, ConfigTypeOK
  <2>2. new \in CallRecord /\ new.at = "reread"
    BY <1>t, <1>4 DEF CallRecord
  <2> QED
    BY <2>1, <2>2
<1>5. ASSUME RenameFails(c)
      PROVE  \E new \in CallRecord : /\ change' = [change EXCEPT ![c] = new] /\ new.at = "idle"
  BY <1>t, <1>5 DEF RenameFails, Ends
<1>6. ASSUME Rereads(c)
      PROVE  \E new \in CallRecord : /\ change' = [change EXCEPT ![c] = new] /\ new.at = (IF change[c].at = "reread" THEN "assign" ELSE "reassign")
                                    /\ new.bytes = Whole
  <2> DEFINE new == [change[c] EXCEPT !.bytes = Whole, !.at = IF @ = "reread" THEN "assign" ELSE "reassign"]
  <2>1. change' = [change EXCEPT ![c] = new]
    BY <1>6, <1>t DEF Rereads, ConfigTypeOK
  <2>2. new \in CallRecord /\ new.at = (IF change[c].at = "reread" THEN "assign" ELSE "reassign") /\ new.bytes = Whole
    BY <1>t, <1>6 DEF CallRecord, Rereads
  <2> QED
    BY <2>1, <2>2
<1>7. ASSUME Assigns(c)
      PROVE  \E new \in CallRecord : /\ change' = [change EXCEPT ![c] = new] /\ new.at = "verify"
  <2> DEFINE new == [change[c] EXCEPT !.at = "verify", !.bytes = Empty]
  <2>1. change' = [change EXCEPT ![c] = new]
    BY <1>7, <1>t DEF Assigns, ChangeGoes, ConfigTypeOK
  <2>2. new \in CallRecord /\ new.at = "verify"
    BY <1>t, <1>7 DEF CallRecord
  <2> QED
    BY <2>1, <2>2
<1>8. ASSUME Verifies(c)
      PROVE  \E new \in CallRecord : /\ change' = [change EXCEPT ![c] = new] /\ new.at = "idle"
  BY <1>t, <1>8 DEF Verifies, Ends
<1>9. ASSUME RestoreTruncates(c)
      PROVE  \E new \in CallRecord : /\ change' = [change EXCEPT ![c] = new] /\ new.at = "restore"
  <2> DEFINE new == [Rests EXCEPT !.at = "restore"]
  <2>1. change' = [change EXCEPT ![c] = new]
    BY <1>9, <1>t DEF RestoreTruncates, ConfigTypeOK
  <2>2. new \in CallRecord /\ new.at = "restore"
    BY <1>t, <1>9 DEF CallRecord
  <2> QED
    BY <2>1, <2>2
<1>10. ASSUME RestoreWrites(c)
      PROVE  \E new \in CallRecord : /\ change' = [change EXCEPT ![c] = new] /\ new.at = "restored"
  <2> DEFINE new == [change[c] EXCEPT !.at = "restored", !.bytes = Empty]
  <2>1. change' = [change EXCEPT ![c] = new]
    BY <1>10, <1>t DEF RestoreWrites, ChangeGoes, ConfigTypeOK
  <2>2. new \in CallRecord /\ new.at = "restored"
    BY <1>t, <1>10 DEF CallRecord
  <2> QED
    BY <2>1, <2>2
<1>11. ASSUME RestoreLoads(c)
      PROVE  \E new \in CallRecord : /\ change' = [change EXCEPT ![c] = new] /\ new.at = "idle"
  BY <1>t, <1>11 DEF RestoreLoads, Ends
<1>q. \E new \in CallRecord : change' = [change EXCEPT ![c] = new]
  BY <1>1, <1>2, <1>3, <1>4, <1>5, <1>6, <1>7, <1>8, <1>9, <1>10, <1>11 DEF ChangeStep
<1>r. change' \in [Changers -> CallRecord] /\ \A d \in Changers \ {c} : change'[d] = change[d]
  BY <1>q, CallMoves
<1>21. BeginsChange(c) => change'[c].at = "backup"
  BY <1>1, CallMoves
<1>22. BacksUpFile(c) => change'[c].at = "read"
  BY <1>2, CallMoves
<1>23. ReadsFile(c) => change'[c].at = "rename"
  BY <1>3, CallMoves
<1>24. Renames(c) => change'[c].at = "reread"
  BY <1>4, CallMoves
<1>25. RenameFails(c) => change'[c].at = "idle"
  BY <1>5, CallMoves
<1>26. Rereads(c) => change'[c].at = (IF change[c].at = "reread" THEN "assign" ELSE "reassign") /\ change'[c].bytes = Whole
  BY <1>6, CallMoves
<1>27. Assigns(c) => change'[c].at = "verify"
  BY <1>7, CallMoves
<1>28. Verifies(c) => change'[c].at = "idle"
  BY <1>8, CallMoves
<1>29. RestoreTruncates(c) => change'[c].at = "restore"
  BY <1>9, CallMoves
<1>30. RestoreWrites(c) => change'[c].at = "restored"
  BY <1>10, CallMoves
<1>31. RestoreLoads(c) => change'[c].at = "idle"
  BY <1>11, CallMoves
<1> QED
  BY <1>r, <1>21, <1>22, <1>23, <1>24, <1>25, <1>26, <1>27, <1>28, <1>29, <1>30, <1>31

-----------------------------------------------------------------------------
(* ConfigFile: types                                                       *)

LEMMA ConfigMishapType ==
  ASSUME ConfigTypeOK, ConfigMishap
  PROVE  bounds' \in BoundsLeft
<1>1. bounds.mishaps - 1 \in 0..MaxConfigMishaps
  BY ConfigAssumption DEF ConfigTypeOK, ConfigMishap, BoundsLeft
<1> QED
  BY <1>1 DEF ConfigTypeOK, ConfigMishap, BoundsLeft

\* A call keeps the types: the routes it changed are routes, for it holds the lock.
LEMMA ChangeTypes ==
  ASSUME ConfigTypeOK, LockIsHeld, NEW c \in Changers, ChangeStep(c)
  PROVE  ConfigTypeOK'
<1>t. ConfigTypeOK /\ change[c].bytes \in Contents /\ Empty \in Contents /\ Whole \in Contents
  BY ConfigFields, ConfigRecords
<1>m. change[c].at # "idle" => Changed(c) \in Routings
  BY ChangedFields DEF LockIsHeld
<1>1. change' \in [Changers -> CallRecord]
  BY CallSteps DEF CallRecord
<1>2. file' \in FileRecord
  <2>1. CASE Renames(c)
    <3>1. change[c].bytes.settings \in 0..MaxEdits
      BY <1>t DEF Contents
    <3> QED
      BY <2>1, <3>1, <1>m, <1>t DEF Renames, ConfigTypeOK, FileRecord
  <2>2. CASE RestoreTruncates(c)
    BY <2>2, <1>t DEF RestoreTruncates, ConfigTypeOK, FileRecord
  <2>3. CASE RestoreWrites(c)
    <3>1. backup.routes \in Routings /\ backup.settings \in 0..MaxEdits
      BY <1>t DEF ConfigTypeOK, Contents
    <3> QED
      BY <2>3, <3>1 DEF RestoreWrites, FileRecord
  <2>4. file' = file \/ Renames(c) \/ RestoreTruncates(c) \/ RestoreWrites(c)
    BY DEF ChangeStep, BeginsChange, BacksUpFile, ReadsFile, RenameFails, Rereads, Assigns, Verifies,
           RestoreLoads
  <2> QED
    BY <1>t, <2>1, <2>2, <2>3, <2>4 DEF ConfigTypeOK
<1>3. backup' \in Contents /\ viper' \in Contents
  BY <1>t DEF ConfigTypeOK, ChangeStep, BeginsChange, BacksUpFile, ReadsFile, Renames, RenameFails, Rereads, Assigns, Verifies,
       RestoreTruncates, RestoreWrites, RestoreLoads, Ends
<1>4. memory' \in Routings /\ claims' \in Routings
  BY <1>t, <1>m DEF ConfigTypeOK, ChangeStep, BeginsChange, BacksUpFile, ReadsFile, Renames, RenameFails, Rereads, Assigns, Verifies,
       RestoreTruncates, RestoreWrites, RestoreLoads, Ends
<1>5. locked' \subseteq Changers
  BY <1>t DEF ConfigTypeOK, ChangeStep, BeginsChange, BacksUpFile, ReadsFile, Renames, RenameFails, Rereads, Assigns, Verifies,
       RestoreTruncates, RestoreWrites, RestoreLoads, Ends
<1>6. watcher' = watcher /\ trigger' = trigger
  BY DEF ChangeStep, BeginsChange, BacksUpFile, ReadsFile, Renames, RenameFails, Rereads, Assigns, Verifies,
       RestoreTruncates, RestoreWrites, RestoreLoads, Ends
<1>7. notice' \in BOOLEAN /\ windows' \in [save : BOOLEAN, reload : BOOLEAN]
  BY <1>t DEF ConfigTypeOK, ChangeStep, BeginsChange, BacksUpFile, ReadsFile, Renames, RenameFails, Rereads, Assigns, Verifies,
       RestoreTruncates, RestoreWrites, RestoreLoads, Ends
<1>8. spoiled' \in BOOLEAN
  <2>1. spoiled' \in {spoiled, spoiled \/ Reading(c)}
    BY DEF ChangeStep, BeginsChange, BacksUpFile, ReadsFile, Renames, RenameFails, Rereads, Assigns, Verifies,
       RestoreTruncates, RestoreWrites, RestoreLoads, Ends
  <2>2. spoiled \in BOOLEAN /\ (spoiled \/ Reading(c)) \in BOOLEAN
    BY <1>t DEF ConfigTypeOK
  <2> QED
    BY <2>1, <2>2
<1>9. bounds' \in BoundsLeft
  <2>1. bounds' = bounds \/ ConfigMishap
    BY DEF ChangeStep, BeginsChange, BacksUpFile, ReadsFile, Renames, RenameFails, Rereads, Assigns, Verifies,
       RestoreTruncates, RestoreWrites, RestoreLoads, Ends
  <2> QED
    BY <1>t, <2>1, ConfigMishapType DEF ConfigTypeOK
<1>10. watcher' \in WatcherRecord
       /\ trigger' \in TriggerRecord
  BY <1>t, <1>6 DEF ConfigTypeOK
<1> QED
  BY <1>1, <1>2, <1>3, <1>4, <1>5, <1>7, <1>8, <1>9, <1>10 DEF ConfigTypeOK

\* The others keep them.
LEMMA ConfigTypeNext ==
  ASSUME ConfigTypeOK, LockIsHeld, [ConfigNext]_configVars
  PROVE  ConfigTypeOK'
<1>t. /\ ConfigTypeOK /\ Empty \in Contents /\ Empty.routes \in Routings /\ Whole \in Contents
      /\ IdleWatcher \in WatcherRecord
      /\ IdleWatcher \in TriggerRecord
      /\ viper.routes \in Routings /\ file.routes \in Routings
      /\ watcher.bytes \in Contents /\ trigger.bytes \in Contents
  BY ConfigFields, ConfigRecords
<1>s. /\ (spoiled \/ Reading("watcher")) \in BOOLEAN /\ (spoiled \/ Reading("trigger")) \in BOOLEAN
      /\ (spoiled \/ ~ file.whole) \in BOOLEAN
  BY <1>t DEF ConfigTypeOK
<1>0. ASSUME UNCHANGED configVars PROVE ConfigTypeOK'
  BY <1>t, <1>0 DEF ConfigTypeOK, configVars, Contents
<1>1. ASSUME \E c \in Changers : ChangeStep(c) PROVE ConfigTypeOK'
  BY <1>1, ChangeTypes
<1>2. ASSUME Edit PROVE ConfigTypeOK'
  <2>1. file' \in FileRecord
    <3>1. MaxEdits - bounds.edits + 1 \in 0..MaxEdits
      BY <1>t, <1>2, ConfigAssumption DEF Edit, ConfigTypeOK, BoundsLeft
    <3> QED
      BY <1>t, <1>2, <3>1 DEF Edit, ConfigTypeOK, FileRecord
  <2>2. bounds' \in BoundsLeft
    <3>1. bounds.edits - 1 \in 0..MaxEdits
      BY <1>t, <1>2, ConfigAssumption DEF Edit, ConfigTypeOK, BoundsLeft
    <3> QED
      BY <1>t, <1>2, <3>1 DEF Edit, ConfigTypeOK, BoundsLeft
  <2> QED
    BY <1>t, <1>2, <2>1, <2>2 DEF Edit, ConfigTypeOK
<1>3. ASSUME Notices PROVE ConfigTypeOK'
  <2>1. watcher' \in WatcherRecord
    BY <1>t, <1>3 DEF Notices, ConfigTypeOK, WatcherRecord
  <2>2. spoiled' \in BOOLEAN
    BY <1>t, <1>s, <1>3 DEF Notices, ConfigTypeOK
  <2> QED
    BY <1>t, <1>3, <2>1, <2>2 DEF Notices, ConfigTypeOK
<1>4. ASSUME WatcherAssigns PROVE ConfigTypeOK'
  <2>1. watcher' \in WatcherRecord
    BY <1>t, <1>4 DEF WatcherAssigns, ConfigTypeOK, WatcherRecord
  <2>2. spoiled' \in BOOLEAN
    BY <1>t, <1>s, <1>4 DEF WatcherAssigns, ConfigTypeOK
  <2> QED
    BY <1>t, <1>4, <2>1, <2>2 DEF WatcherAssigns, ConfigTypeOK
<1>5. ASSUME WatcherReads PROVE ConfigTypeOK'
  <2>1. watcher' \in WatcherRecord
    BY <1>t, <1>5 DEF WatcherReads, ConfigTypeOK, WatcherRecord
  <2>2. spoiled' \in BOOLEAN
    BY <1>t, <1>s, <1>5 DEF WatcherReads, ConfigTypeOK
  <2> QED
    BY <1>t, <1>5, <2>1, <2>2 DEF WatcherReads, ConfigTypeOK
<1>6. ASSUME WatcherReassigns PROVE ConfigTypeOK'
  <2>1. watcher' \in WatcherRecord
    BY <1>t, <1>6 DEF WatcherReassigns, ConfigTypeOK, WatcherRecord
  <2>2. spoiled' \in BOOLEAN
    BY <1>t, <1>s, <1>6 DEF WatcherReassigns, ConfigTypeOK
  <2> QED
    BY <1>t, <1>6, <2>1, <2>2 DEF WatcherReassigns, ConfigTypeOK
<1>7. ASSUME WatcherLoads PROVE ConfigTypeOK'
  <2>1. watcher' \in WatcherRecord
    BY <1>t, <1>7 DEF WatcherLoads, ConfigTypeOK, WatcherRecord
  <2>2. spoiled' \in BOOLEAN
    BY <1>t, <1>s, <1>7 DEF WatcherLoads, ConfigTypeOK
  <2> QED
    BY <1>t, <1>7, <2>1, <2>2 DEF WatcherLoads, ConfigTypeOK
<1>8. ASSUME WatcherApplies PROVE ConfigTypeOK'
  <2>1. watcher' \in WatcherRecord
    BY <1>t, <1>8 DEF WatcherApplies, ConfigTypeOK
  <2>2. windows' \in [save : BOOLEAN, reload : BOOLEAN]
    BY <1>t, <1>8 DEF WatcherApplies, Applies, ConfigTypeOK
  <2>3. bounds' \in BoundsLeft
    <3>1. bounds' = bounds \/ ConfigMishap
      BY <1>8 DEF WatcherApplies, Applies
    <3> QED
      BY <1>t, <3>1, ConfigMishapType DEF ConfigTypeOK
  <2> QED
    BY <1>t, <1>8, <2>1, <2>2, <2>3 DEF WatcherApplies, ConfigTypeOK
<1>9. ASSUME Triggers PROVE ConfigTypeOK'
  <2>1. trigger' \in TriggerRecord
    BY <1>t, <1>9 DEF Triggers, ConfigTypeOK, TriggerRecord
  <2>2. bounds' \in BoundsLeft
    <3>1. bounds.triggers - 1 \in 0..MaxTriggers
      BY <1>t, <1>9, ConfigAssumption DEF Triggers, ConfigTypeOK, BoundsLeft
    <3> QED
      BY <1>t, <1>9, <3>1 DEF Triggers, ConfigTypeOK, BoundsLeft
  <2> QED
    BY <1>t, <1>9, <2>1, <2>2 DEF Triggers, ConfigTypeOK
<1>10. ASSUME TriggerAssigns PROVE ConfigTypeOK'
  <2>1. trigger' \in TriggerRecord
    BY <1>t, <1>10 DEF TriggerAssigns, ConfigTypeOK, TriggerRecord
  <2>2. spoiled' \in BOOLEAN
    BY <1>t, <1>s, <1>10 DEF TriggerAssigns, ConfigTypeOK
  <2> QED
    BY <1>t, <1>10, <2>1, <2>2 DEF TriggerAssigns, ConfigTypeOK
<1>11. ASSUME TriggerLoads PROVE ConfigTypeOK'
  <2>1. trigger' \in TriggerRecord
    BY <1>t, <1>11 DEF TriggerLoads, ConfigTypeOK, TriggerRecord
  <2>2. spoiled' \in BOOLEAN
    BY <1>t, <1>s, <1>11 DEF TriggerLoads, ConfigTypeOK
  <2> QED
    BY <1>t, <1>11, <2>1, <2>2 DEF TriggerLoads, ConfigTypeOK
<1>12. ASSUME TriggerApplies PROVE ConfigTypeOK'
  <2>1. trigger' \in TriggerRecord
    BY <1>t, <1>12 DEF TriggerApplies, ConfigTypeOK
  <2>2. windows' \in [save : BOOLEAN, reload : BOOLEAN]
    BY <1>t, <1>12 DEF TriggerApplies, Applies, ConfigTypeOK
  <2>3. bounds' \in BoundsLeft
    <3>1. bounds' = bounds \/ ConfigMishap
      BY <1>12 DEF TriggerApplies, Applies
    <3> QED
      BY <1>t, <3>1, ConfigMishapType DEF ConfigTypeOK
  <2> QED
    BY <1>t, <1>12, <2>1, <2>2, <2>3 DEF TriggerApplies, ConfigTypeOK
<1>13. ASSUME SaveWindowEnds PROVE ConfigTypeOK'
  BY <1>t, <1>13 DEF SaveWindowEnds, ConfigTypeOK
<1>14. ASSUME ReloadWindowEnds PROVE ConfigTypeOK'
  BY <1>t, <1>14 DEF ReloadWindowEnds, ConfigTypeOK
<1>15. ASSUME ConfigCrash PROVE ConfigTypeOK'
  <2>1. file' \in FileRecord /\ file'.routes \in Routings /\ file'.settings \in 0..MaxEdits
    BY <1>t, <1>15, ConfigAssumption DEF ConfigCrash, ConfigTypeOK, FileRecord
  <2>2. viper' \in Contents /\ memory' \in Routings
    BY <2>1, <1>15 DEF ConfigCrash, Contents
  <2>3. change' \in [Changers -> CallRecord]
    BY <1>15, ConfigRecords DEF ConfigCrash, CallRecord
  <2>4. spoiled' \in BOOLEAN /\ windows' \in [save : BOOLEAN, reload : BOOLEAN]
    BY <1>s, <1>15 DEF ConfigCrash
  <2>5. bounds' \in BoundsLeft
    BY <1>t, <1>15, ConfigMishapType DEF ConfigCrash
  <2> QED
    BY <1>t, <1>15, <2>1, <2>2, <2>3, <2>4, <2>5 DEF ConfigCrash, ConfigTypeOK
<1> QED
  BY <1>0, <1>1, <1>2, <1>3, <1>4, <1>5, <1>6, <1>7, <1>8, <1>9, <1>10, <1>11, <1>12, <1>13, <1>14, <1>15
  DEF ConfigNext, WatcherStep, TriggerStep

-----------------------------------------------------------------------------
(* ConfigFile: the lock, and what the claims need                          *)

LEMMA LockIsHeldNext ==
  ASSUME ConfigTypeOK, LockIsHeld, [ConfigNext]_configVars
  PROVE  LockIsHeld'
<1>0. ASSUME UNCHANGED <<change, locked>>, memory' = memory \/ locked = {} PROVE LockIsHeld'
  BY <1>0 DEF LockIsHeld
<1>1. ASSUME NEW c \in Changers, ChangeStep(c) PROVE LockIsHeld'
  <2>t. \A d \in Changers \ {c} : change'[d] = change[d]
    BY <1>1, CallSteps
  <2>1. CASE BeginsChange(c)
    <3>1. /\ locked = {} /\ locked' = {c} /\ memory' = memory /\ memory[c] < MaxChanges
          /\ change'[c].at = "backup"
      BY <1>1, <2>1, CallSteps DEF BeginsChange
    <3> QED
      BY <3>1, <2>t DEF LockIsHeld
  <2>2. CASE RenameFails(c) \/ Verifies(c) \/ RestoreLoads(c)
    <3>1. change[c].at # "idle" /\ locked' = {} /\ change'[c].at = "idle"
      BY <1>1, <2>2, CallSteps DEF RenameFails, Verifies, RestoreLoads, Ends
    <3>2. \A d \in Changers \ {c} : change[d].at = "idle"
      BY <3>1 DEF LockIsHeld
    <3> QED
      BY <3>1, <3>2, <2>t DEF LockIsHeld
  <2>3. CASE \/ BacksUpFile(c) \/ ReadsFile(c) \/ Renames(c) \/ Rereads(c) \/ Assigns(c)
             \/ RestoreTruncates(c) \/ RestoreWrites(c)
    <3>1. change[c].at # "idle" /\ UNCHANGED <<locked, memory>> /\ change'[c].at # "idle"
      BY <1>1, <2>3, CallSteps
      DEF BacksUpFile, ReadsFile, Renames, Rereads, Assigns, RestoreTruncates, RestoreWrites
    <3> QED
      BY <3>1, <2>t DEF LockIsHeld
  <2> QED
    BY <1>1, <2>1, <2>2, <2>3 DEF ChangeStep
<1>2. ASSUME ConfigCrash PROVE LockIsHeld'
  BY <1>2, ConfigRecords DEF ConfigCrash, LockIsHeld
<1>3. ASSUME \/ Edit \/ WatcherStep \/ Triggers \/ TriggerStep
             \/ SaveWindowEnds \/ ReloadWindowEnds \/ UNCHANGED configVars
      PROVE  UNCHANGED <<change, locked>> /\ (memory' = memory \/ locked = {})
  BY <1>3 DEF Edit, WatcherStep, Triggers, TriggerStep, SaveWindowEnds, ReloadWindowEnds, configVars,
      Notices, WatcherAssigns, WatcherReads, WatcherReassigns, WatcherLoads, WatcherApplies,
      TriggerAssigns, TriggerLoads, TriggerApplies
<1> QED
  BY <1>0, <1>1, <1>2, <1>3 DEF ConfigNext

\* While a call holds s.mu the others are idle.
LEMMA CallIsAlone ==
  ASSUME LockIsHeld, NEW c \in Changers, change[c].at # "idle"
  PROVE  /\ \A d \in Changers \ {c} : change[d].at = "idle"
         /\ memory[c] < MaxChanges
BY DEF LockIsHeld

\* A step of the call that holds the lock, which touches neither what was claimed nor what
\* the watcher and the coordinator have read, leaves no more to show than about itself.
LEMMA ItsOwnClaims ==
  ASSUME ConfigTypeOK, LockIsHeld, ClaimsAreKept, NEW c \in Changers, ChangeStep(c),
         change[c].at # "idle", UNCHANGED <<claims, memory>>,
         Keeps(file.routes)', Keeps(viper.routes)',
         change'[c].at \in {"read", "rename", "reread", "assign", "verify", "restore"} =>
             Keeps(backup.routes)',
         change'[c].at \in {"assign", "reassign"} => Keeps(change[c].bytes.routes)'
  PROVE  ClaimsAreKept'
<1>1. \A d \in Changers \ {c} : change'[d].at = "idle"
  BY CallIsAlone, CallSteps
<1>2. UNCHANGED <<watcher, trigger>>
  BY DEF ChangeStep, BeginsChange, BacksUpFile, ReadsFile, Renames, RenameFails, Rereads, Assigns,
         Verifies, RestoreTruncates, RestoreWrites, RestoreLoads
<1> QED
  BY <1>1, <1>2 DEF ClaimsAreKept, Keeps

LEMMA ItsOwnChange ==
  ASSUME ConfigTypeOK, LockIsHeld, NEW c \in Changers, ChangeStep(c), change[c].at # "idle",
         memory' = memory,
         change'[c].at \in {"reread", "assign", "verify"} => file'.routes = Changed(c),
         change'[c].at = "assign" => change'[c].bytes.routes = Changed(c),
         change'[c].at = "verify" =>
             /\ viper'.routes = Changed(c)
             /\ watcher.at \notin {"assign", "reassign"} /\ trigger.at # "assign"
  PROVE  ChangeIsStored'
<1>1. \A d \in Changers \ {c} : change'[d].at = "idle"
  BY CallIsAlone, CallSteps
<1>2. UNCHANGED <<watcher, trigger>>
  BY DEF ChangeStep, BeginsChange, BacksUpFile, ReadsFile, Renames, RenameFails, Rereads, Assigns,
         Verifies, RestoreTruncates, RestoreWrites, RestoreLoads
<1>3. Changed(c)' = Changed(c)
  BY DEF Changed
<1> QED
  BY <1>1, <1>2, <1>3 DEF ChangeIsStored

\* A step of a call.
LEMMA ChangeKeeps ==
  ASSUME ConfigTypeOK, LockIsHeld, ClaimsAreKept, ChangeIsStored, NEW c \in Changers, ChangeStep(c),
         ~ spoiled'
  PROVE  ClaimsAreKept' /\ ChangeIsStored'
<1>t. /\ Whole.routes = file.routes
      /\ Keeps(file.routes) /\ Keeps(viper.routes) /\ Keeps(memory)
      /\ change[c].at \in {"read", "rename", "reread", "assign", "verify", "restore"} =>
            Keeps(backup.routes)
      /\ change[c].at \in {"assign", "reassign"} => Keeps(change[c].bytes.routes)
      /\ change[c].at \in {"reread", "assign", "verify"} => file.routes = Changed(c)
      /\ change[c].at = "assign" => change[c].bytes.routes = Changed(c)
  BY ConfigFields DEF ClaimsAreKept, ChangeIsStored
<1>c. change[c].at # "idle" => Keeps(Changed(c))
  <2> SUFFICES ASSUME change[c].at # "idle", NEW d \in Changers
               PROVE  Changed(c)[d] >= claims[d]
    BY DEF Keeps
  <2>1. Changed(c) \in Routings /\ Changed(c)[d] >= memory[d] /\ memory[d] >= claims[d]
    BY CallIsAlone, ChangedFields, <1>t DEF Keeps
  <2>2. Changed(c)[d] \in Nat /\ memory[d] \in Nat /\ claims[d] \in Nat
    BY <2>1, ConfigAssumption DEF ConfigTypeOK, Routings
  <2> QED
    BY <2>1, <2>2
<1>1. CASE BeginsChange(c)
  <2>1. /\ UNCHANGED <<file, backup, viper, memory, watcher, trigger, claims>>
        /\ locked = {} /\ change'[c].at = "backup"
        /\ \A d \in Changers \ {c} : change'[d] = change[d]
    BY <1>1, CallSteps DEF BeginsChange
  <2>2. \A d \in Changers : change[d].at = "idle"
    BY <2>1 DEF LockIsHeld
  <2>3. ClaimsAreKept'
    BY <2>1, <2>2 DEF ClaimsAreKept, Keeps
  <2>4. ChangeIsStored'
    BY <2>1, <2>2 DEF ChangeIsStored
  <2> QED
    BY <2>3, <2>4
<1>2. CASE BacksUpFile(c)
  <2>1. change[c].at = "backup" /\ UNCHANGED <<claims, memory>>
    BY <1>2 DEF BacksUpFile
  <2>2. /\ UNCHANGED <<file, viper>> /\ change'[c].at = "read"
        /\ backup'.routes = file.routes
    BY <1>2, <1>t, CallSteps DEF BacksUpFile
  <2>3. ClaimsAreKept'
    BY <1>t, <1>c, <2>1, <2>2, ItsOwnClaims DEF Keeps
  <2>4. ChangeIsStored'
    BY <1>t, <1>c, <2>1, <2>2, ItsOwnChange
  <2> QED
    BY <2>3, <2>4
<1>3. CASE ReadsFile(c)
  <2>1. change[c].at = "read" /\ UNCHANGED <<claims, memory>>
    BY <1>3 DEF ReadsFile
  <2>2. UNCHANGED <<file, viper, backup>> /\ change'[c].at = "rename"
    BY <1>3, <1>t, CallSteps DEF ReadsFile
  <2>3. ClaimsAreKept'
    BY <1>t, <1>c, <2>1, <2>2, ItsOwnClaims DEF Keeps
  <2>4. ChangeIsStored'
    BY <1>t, <1>c, <2>1, <2>2, ItsOwnChange
  <2> QED
    BY <2>3, <2>4
<1>4. CASE Renames(c)
  <2>1. change[c].at = "rename" /\ UNCHANGED <<claims, memory>>
    BY <1>4 DEF Renames
  <2>2. UNCHANGED <<viper, backup>> /\ change'[c].at = "reread" /\ file'.routes = Changed(c)
    BY <1>4, CallSteps DEF Renames, ConfigTypeOK, FileRecord
  <2>3. ClaimsAreKept'
    BY <1>t, <1>c, <2>1, <2>2, ItsOwnClaims DEF Keeps
  <2>4. ChangeIsStored'
    BY <1>t, <1>c, <2>1, <2>2, ItsOwnChange
  <2> QED
    BY <2>3, <2>4
<1>5. CASE RenameFails(c)
  <2>1. change[c].at = "rename" /\ UNCHANGED <<claims, memory>>
    BY <1>5 DEF RenameFails
  <2>2. UNCHANGED <<file, viper>> /\ change'[c].at = "idle"
    BY <1>5, <1>t, CallSteps DEF RenameFails
  <2>3. ClaimsAreKept'
    BY <1>t, <1>c, <2>1, <2>2, ItsOwnClaims DEF Keeps
  <2>4. ChangeIsStored'
    BY <1>t, <1>c, <2>1, <2>2, ItsOwnChange
  <2> QED
    BY <2>3, <2>4
<1>6. CASE Rereads(c)
  <2>1. change[c].at \in {"reread", "restored"} /\ UNCHANGED <<claims, memory>>
    BY <1>6 DEF Rereads
  <2>2. /\ UNCHANGED <<file, viper, backup>>
        /\ change'[c].at = (IF change[c].at = "reread" THEN "assign" ELSE "reassign")
        /\ change'[c].bytes = Whole
    BY <1>6, <1>t, CallSteps DEF Rereads
  <2>3. ClaimsAreKept'
    BY <1>t, <1>c, <2>1, <2>2, ItsOwnClaims DEF Keeps
  <2>4. ChangeIsStored'
    BY <1>t, <1>c, <2>1, <2>2, ItsOwnChange
  <2> QED
    BY <2>3, <2>4
<1>7. CASE Assigns(c)
  <2>1. change[c].at = "assign" /\ UNCHANGED <<claims, memory>>
    BY <1>7 DEF Assigns
  <2>2. /\ UNCHANGED <<file, backup>> /\ viper'.routes = Changed(c) /\ change'[c].at = "verify"
        /\ ~ Reading(c)
    BY <1>7, <1>t, CallSteps DEF Assigns
  <2>3. ClaimsAreKept'
    BY <1>t, <1>c, <2>1, <2>2, ItsOwnClaims DEF Keeps
  <2>4. watcher.at \notin {"assign", "reassign"} /\ trigger.at # "assign"
    BY <2>2, ConfigAssumption DEF Reading
  <2>5. ChangeIsStored'
    BY <1>t, <1>c, <2>1, <2>2, <2>4, ItsOwnChange
  <2> QED
    BY <2>3, <2>5
<1>8. CASE Verifies(c)
  <2>1. /\ change[c].at = "verify" /\ UNCHANGED <<file, viper, watcher, trigger>>
        /\ memory' = Changed(c) /\ claims' = Changed(c)
    BY <1>8 DEF Verifies
  <2>2. \A d \in Changers : change'[d].at = "idle"
    BY <1>8, <2>1, CallSteps, CallIsAlone
  <2>3. /\ file.routes = Changed(c) /\ viper.routes = Changed(c)
        /\ watcher.at \in {"assign", "reassign"} => watcher.bytes.routes = Changed(c)
        /\ trigger.at = "assign" => trigger.bytes.routes = Changed(c)
    BY <2>1 DEF ChangeIsStored
  <2>4. \A d \in Changers : Changed(c)[d] >= Changed(c)[d]
    <3>1. Changed(c) \in Routings
      BY <2>1, CallIsAlone, ChangedFields
    <3>2. ASSUME NEW d \in Changers PROVE Changed(c)[d] >= Changed(c)[d]
      BY <3>1, ConfigAssumption DEF Routings
    <3> QED
      BY <3>2
  <2>5. ClaimsAreKept'
    BY <2>1, <2>2, <2>3, <2>4 DEF ClaimsAreKept, Keeps
  <2>6. ChangeIsStored'
    BY <2>2 DEF ChangeIsStored
  <2> QED
    BY <2>5, <2>6
<1>9. CASE RestoreTruncates(c)
  <2>1. change[c].at = "verify" /\ UNCHANGED <<claims, memory>>
    BY <1>9 DEF RestoreTruncates
  <2>2. UNCHANGED <<viper, backup>> /\ file'.routes = file.routes /\ change'[c].at = "restore"
    BY <1>9, CallSteps DEF RestoreTruncates, ConfigTypeOK
  <2>3. ClaimsAreKept'
    BY <1>t, <1>c, <2>1, <2>2, ItsOwnClaims DEF Keeps
  <2>4. ChangeIsStored'
    BY <1>t, <1>c, <2>1, <2>2, ItsOwnChange
  <2> QED
    BY <2>3, <2>4
<1>10. CASE RestoreWrites(c)
  <2>1. change[c].at = "restore" /\ UNCHANGED <<claims, memory>>
    BY <1>10 DEF RestoreWrites
  <2>2. UNCHANGED viper /\ file'.routes = backup.routes /\ change'[c].at = "restored"
    BY <1>10, <1>t, CallSteps DEF RestoreWrites
  <2>3. ClaimsAreKept'
    BY <1>t, <1>c, <2>1, <2>2, ItsOwnClaims DEF Keeps
  <2>4. ChangeIsStored'
    BY <1>t, <1>c, <2>1, <2>2, ItsOwnChange
  <2> QED
    BY <2>3, <2>4
<1>11. CASE RestoreLoads(c)
  <2>1. change[c].at = "reassign" /\ UNCHANGED <<claims, memory>>
    BY <1>11 DEF RestoreLoads
  <2>2. UNCHANGED file /\ viper' = change[c].bytes /\ change'[c].at = "idle"
    BY <1>11, <1>t, CallSteps DEF RestoreLoads
  <2>3. ClaimsAreKept'
    BY <1>t, <1>c, <2>1, <2>2, ItsOwnClaims DEF Keeps
  <2>4. ChangeIsStored'
    BY <1>t, <1>c, <2>1, <2>2, ItsOwnChange
  <2> QED
    BY <2>3, <2>4
<1> QED
  BY <1>1, <1>2, <1>3, <1>4, <1>5, <1>6, <1>7, <1>8, <1>9, <1>10, <1>11 DEF ChangeStep

\* What the watcher, the coordinator and the operator do, and a restart.
LEMMA ConfigKeeps ==
  ASSUME ConfigTypeOK, LockIsHeld, ClaimsAreKept, ChangeIsStored, [ConfigNext]_configVars,
         ~ spoiled'
  PROVE  ClaimsAreKept' /\ ChangeIsStored'
<1>t. Whole.routes = file.routes /\ IdleWatcher.at = "idle"
  BY ConfigFields, ConfigRecords
<1>1. ASSUME NEW c \in Changers, ChangeStep(c) PROVE ClaimsAreKept' /\ ChangeIsStored'
  BY <1>1, ChangeKeeps
<1>2. ASSUME Edit PROVE ClaimsAreKept' /\ ChangeIsStored'
  <2>1. /\ UNCHANGED <<backup, viper, memory, change, watcher, trigger, claims>>
        /\ file'.routes = file.routes
    BY <1>2, <1>t DEF Edit, ConfigTypeOK
  <2>2. ClaimsAreKept'
    BY <2>1 DEF ClaimsAreKept, Keeps
  <2>3. ChangeIsStored'
    BY <2>1 DEF ChangeIsStored, Changed
  <2> QED
    BY <2>2, <2>3
<1>3. ASSUME Notices PROVE ClaimsAreKept' /\ ChangeIsStored'
  <2>1. /\ UNCHANGED <<file, backup, viper, memory, change, trigger, claims>>
        /\ watcher'.bytes.routes = file.routes
    BY <1>3, <1>t DEF Notices, ConfigTypeOK
  <2>2. ClaimsAreKept'
    BY <2>1 DEF ClaimsAreKept, Keeps
  <2>3. ChangeIsStored'
    BY <2>1 DEF ChangeIsStored, Changed
  <2> QED
    BY <2>2, <2>3
<1>4. ASSUME WatcherAssigns PROVE ClaimsAreKept' /\ ChangeIsStored'
  <2>1. /\ UNCHANGED <<file, backup, memory, change, trigger, claims>> /\ watcher.at \in {"assign", "reassign"}
        /\ viper' = watcher.bytes /\ watcher'.at \notin {"assign", "reassign"}
    BY <1>4, <1>t DEF WatcherAssigns, ConfigTypeOK
  <2>2. ClaimsAreKept'
    BY <2>1 DEF ClaimsAreKept, Keeps
  <2>3. ChangeIsStored'
    BY <2>1 DEF ChangeIsStored, Changed
  <2> QED
    BY <2>2, <2>3
<1>5. ASSUME WatcherReads PROVE ClaimsAreKept' /\ ChangeIsStored'
  <2>1. /\ UNCHANGED <<file, backup, viper, memory, change, trigger, claims>>
        /\ watcher'.at \in {"assign", "reassign"} => watcher'.bytes.routes = file.routes
    BY <1>5, <1>t DEF WatcherReads, ConfigTypeOK
  <2>2. ClaimsAreKept'
    BY <2>1 DEF ClaimsAreKept, Keeps
  <2>3. ChangeIsStored'
    BY <2>1 DEF ChangeIsStored, Changed
  <2> QED
    BY <2>2, <2>3
<1>6. ASSUME WatcherReassigns PROVE ClaimsAreKept' /\ ChangeIsStored'
  <2>1. /\ UNCHANGED <<file, backup, memory, change, trigger, claims>> /\ watcher.at \in {"assign", "reassign"}
        /\ viper' = watcher.bytes /\ watcher'.at \notin {"assign", "reassign"}
    BY <1>6, <1>t DEF WatcherReassigns, ConfigTypeOK
  <2>2. ClaimsAreKept'
    BY <2>1 DEF ClaimsAreKept, Keeps
  <2>3. ChangeIsStored'
    BY <2>1 DEF ChangeIsStored, Changed
  <2> QED
    BY <2>2, <2>3
<1>7. ASSUME WatcherLoads PROVE ClaimsAreKept' /\ ChangeIsStored'
  <2>1. /\ UNCHANGED <<file, backup, viper, change, trigger, claims>> /\ locked = {}
        /\ memory' = viper.routes /\ watcher'.at = "apply"
    BY <1>7 DEF WatcherLoads, ConfigTypeOK
  <2>2. \A c \in Changers : change[c].at = "idle"
    BY <2>1 DEF LockIsHeld
  <2>3. ClaimsAreKept'
    BY <2>1, <2>2 DEF ClaimsAreKept, Keeps
  <2>4. ChangeIsStored'
    BY <2>1, <2>2 DEF ChangeIsStored
  <2> QED
    BY <2>3, <2>4
<1>8. ASSUME WatcherApplies PROVE ClaimsAreKept' /\ ChangeIsStored'
  <2>1. /\ UNCHANGED <<file, backup, viper, memory, change, trigger, claims>>
        /\ watcher'.at = "idle"
    BY <1>8, <1>t DEF WatcherApplies, ConfigTypeOK
  <2>2. ClaimsAreKept'
    BY <2>1 DEF ClaimsAreKept, Keeps
  <2>3. ChangeIsStored'
    BY <2>1 DEF ChangeIsStored, Changed
  <2> QED
    BY <2>2, <2>3
<1>9. ASSUME Triggers PROVE ClaimsAreKept' /\ ChangeIsStored'
  <2>1. /\ UNCHANGED <<file, backup, viper, memory, change, watcher, claims>>
        /\ trigger' = trigger \/ trigger'.bytes.routes = file.routes
    BY <1>9, <1>t DEF Triggers, ConfigTypeOK
  <2>2. ClaimsAreKept'
    BY <2>1 DEF ClaimsAreKept, Keeps
  <2>3. ChangeIsStored'
    BY <2>1 DEF ChangeIsStored, Changed
  <2> QED
    BY <2>2, <2>3
<1>10. ASSUME TriggerAssigns PROVE ClaimsAreKept' /\ ChangeIsStored'
  <2>1. /\ UNCHANGED <<file, backup, memory, change, watcher, claims>> /\ trigger.at = "assign"
        /\ viper' = trigger.bytes /\ trigger'.at # "assign"
    BY <1>10, <1>t DEF TriggerAssigns, ConfigTypeOK
  <2>2. ClaimsAreKept'
    BY <2>1 DEF ClaimsAreKept, Keeps
  <2>3. ChangeIsStored'
    BY <2>1 DEF ChangeIsStored, Changed
  <2> QED
    BY <2>2, <2>3
<1>11. ASSUME TriggerLoads PROVE ClaimsAreKept' /\ ChangeIsStored'
  <2>1. /\ UNCHANGED <<file, backup, viper, change, watcher, claims>> /\ locked = {}
        /\ memory' = viper.routes /\ trigger'.at = "apply"
    BY <1>11 DEF TriggerLoads, ConfigTypeOK
  <2>2. \A c \in Changers : change[c].at = "idle"
    BY <2>1 DEF LockIsHeld
  <2>3. ClaimsAreKept'
    BY <2>1, <2>2 DEF ClaimsAreKept, Keeps
  <2>4. ChangeIsStored'
    BY <2>1, <2>2 DEF ChangeIsStored
  <2> QED
    BY <2>3, <2>4
<1>12. ASSUME TriggerApplies PROVE ClaimsAreKept' /\ ChangeIsStored'
  <2>1. /\ UNCHANGED <<file, backup, viper, memory, change, watcher, claims>>
        /\ trigger'.at = "idle"
    BY <1>12, <1>t DEF TriggerApplies, ConfigTypeOK
  <2>2. ClaimsAreKept'
    BY <2>1 DEF ClaimsAreKept, Keeps
  <2>3. ChangeIsStored'
    BY <2>1 DEF ChangeIsStored, Changed
  <2> QED
    BY <2>2, <2>3
<1>13. ASSUME SaveWindowEnds \/ ReloadWindowEnds \/ UNCHANGED configVars
       PROVE  ClaimsAreKept' /\ ChangeIsStored'
  <2>1. UNCHANGED <<file, backup, viper, memory, change, watcher, trigger, claims>>
    BY <1>13 DEF SaveWindowEnds, ReloadWindowEnds, configVars
  <2>2. ClaimsAreKept'
    BY <2>1 DEF ClaimsAreKept, Keeps
  <2>3. ChangeIsStored'
    BY <2>1 DEF ChangeIsStored, Changed
  <2> QED
    BY <2>2, <2>3
<1>14. ASSUME ConfigCrash PROVE ClaimsAreKept' /\ ChangeIsStored'
  <2>1. file.whole /\ file' = file
    BY <1>14 DEF ConfigCrash
  <2>2. /\ viper'.routes = file.routes /\ memory' = file.routes /\ claims' = claims
        /\ \A c \in Changers : change'[c].at = "idle"
        /\ watcher'.at = "idle" /\ trigger'.at = "idle"
    BY <1>14, <2>1, ConfigRecords DEF ConfigCrash
  <2>3. ClaimsAreKept'
    BY <2>1, <2>2 DEF ClaimsAreKept, Keeps
  <2>4. ChangeIsStored'
    BY <2>2 DEF ChangeIsStored
  <2> QED
    BY <2>3, <2>4
<1> QED
  BY <1>1, <1>2, <1>3, <1>4, <1>5, <1>6, <1>7, <1>8, <1>9, <1>10, <1>11, <1>12, <1>13, <1>14 DEF ConfigNext, WatcherStep, TriggerStep

LEMMA SpoiledStays ==
  ASSUME [ConfigNext]_configVars, spoiled
  PROVE  spoiled'
BY DEF ConfigNext, configVars, ChangeStep, BeginsChange, BacksUpFile, ReadsFile, Renames, RenameFails,
    Rereads, Assigns, Verifies, RestoreTruncates, RestoreWrites, RestoreLoads, Edit, WatcherStep, Notices,
    WatcherAssigns, WatcherReads, WatcherReassigns, WatcherLoads, WatcherApplies, Triggers, TriggerStep,
    TriggerAssigns, TriggerLoads, TriggerApplies, SaveWindowEnds, ReloadWindowEnds, ConfigCrash

LEMMA ConfigInvInit == ConfigInit => ConfigInv
<1> SUFFICES ASSUME ConfigInit PROVE ConfigInv
  OBVIOUS
<1>t. /\ Empty \in Contents /\ Empty.routes \in Routings /\ Rests \in CallRecord
      /\ Rests.at = "idle" /\ IdleWatcher.at = "idle"
      /\ IdleWatcher \in WatcherRecord
      /\ IdleWatcher \in TriggerRecord
      /\ \A c \in Changers : Empty.routes[c] = 0
  BY ConfigRecords
<1>1. ConfigTypeOK
  <2>1. change \in [Changers -> CallRecord]
    BY <1>t DEF ConfigInit
  <2>2. /\ file \in FileRecord
        /\ bounds \in BoundsLeft
    BY <1>t, ConfigAssumption DEF ConfigInit, FileRecord, BoundsLeft
  <2> QED
    BY <1>t, <2>1, <2>2 DEF ConfigInit, ConfigTypeOK, CallRecord
<1>2. \A c \in Changers : change[c].at = "idle"
  BY <1>t DEF ConfigInit
<1>3. LockIsHeld
  BY <1>2 DEF ConfigInit, LockIsHeld
<1>4. ClaimsAreKept /\ ChangeIsStored
  BY <1>t, <1>2 DEF ConfigInit, ClaimsAreKept, ChangeIsStored, Keeps
<1> QED
  BY <1>1, <1>3, <1>4 DEF ConfigInv

LEMMA ConfigInvNext == ConfigInv /\ [ConfigNext]_configVars => ConfigInv'
<1> SUFFICES ASSUME ConfigInv, [ConfigNext]_configVars PROVE ConfigInv'
  OBVIOUS
<1>1. ConfigTypeOK /\ LockIsHeld /\ ConfigTypeOK' /\ LockIsHeld'
  BY ConfigTypeNext, LockIsHeldNext DEF ConfigInv
<1>2. ~ spoiled' => ClaimsAreKept' /\ ChangeIsStored'
  <2> SUFFICES ASSUME ~ spoiled' PROVE ClaimsAreKept' /\ ChangeIsStored'
    OBVIOUS
  <2>1. ClaimsAreKept /\ ChangeIsStored
    BY SpoiledStays DEF ConfigInv
  <2> QED
    BY <1>1, <2>1, ConfigKeeps
<1> QED
  BY <1>1, <1>2 DEF ConfigInv

LEMMA ConfigInvariant == ConfigSpec => []ConfigInv
BY ConfigInvInit, ConfigInvNext, PTL DEF ConfigSpec

\* For any callers, changes, edits, reloads, failures and deaths of the server: a route change
\* that was acknowledged is in the file and in the memory, unless two reads of viper
\* overlapped or a restore was cut off (persistConfig, Watch and reloadCoordinator).
THEOREM AcknowledgedStays == ConfigSpec => []AcknowledgedIsKept
<1>1. ConfigInv => AcknowledgedIsKept
  BY DEF ConfigInv, ClaimsAreKept, Keeps, AcknowledgedIsKept
<1> QED
  BY <1>1, ConfigInvariant, PTL

-----------------------------------------------------------------------------
(* Together                                                                *)

\* Whichever part runs takes a step of its own, and the others stand still.
LEMMA ControlStep ==
  ASSUME [ControlNext]_allVars
  PROVE  /\ [RoutesNext]_routeVars /\ [ConfigNext]_configVars /\ [PreviewNext]_previewVars
         /\ [UdpNext]_udpVars /\ [TrafficNext]_trafficVars /\ [StoreNext]_storeVars
         /\ [ServicesNext]_serviceVars
BY DEF ControlNext, allVars

\* Every part of the control plane keeps its types, for any number of callers, previews,
\* sessions, listeners, certificates and services, and with local commands of the CLI in
\* the certificate store.
THEOREM ControlTyping == ControlSpec => []ControlTypeOK
<1> DEFINE ControlInv == /\ RoutesInv /\ ConfigInv /\ PreviewInv /\ UdpInv /\ TrafficInv
                         /\ StoreTyped /\ ServicesInv
<1>1. ControlInit => ControlInv
  BY RoutesInvInit, ConfigInvInit, PreviewInvInit, UdpInvInit, TrafficInvInit,
     StoreTypedInit, ServicesInvInit
  DEF ControlInit, Inits
<1>2. ControlInv /\ [ControlNext]_allVars => ControlInv'
  <2> SUFFICES ASSUME RoutesInv, ConfigInv, PreviewInv, UdpInv, TrafficInv, StoreTyped,
                      ServicesInv, [ControlNext]_allVars
               PROVE  /\ RoutesInv' /\ ConfigInv' /\ PreviewInv' /\ UdpInv' /\ TrafficInv'
                      /\ StoreTyped' /\ ServicesInv'
    OBVIOUS
  <2>1. /\ [RoutesNext]_routeVars /\ [ConfigNext]_configVars /\ [PreviewNext]_previewVars
        /\ [UdpNext]_udpVars /\ [TrafficNext]_trafficVars /\ [StoreNext]_storeVars
        /\ [ServicesNext]_serviceVars
    BY ControlStep
  <2>2. RoutesInv' /\ ConfigInv' /\ PreviewInv' /\ UdpInv'
    BY <2>1, RoutesInvNext, ConfigInvNext, PreviewInvNext, UdpInvNext
  <2>3. TrafficInv' /\ StoreTyped' /\ ServicesInv'
    BY <2>1, TrafficInvNext, StoreTypedNext, ServicesInvNext
  <2> QED
    BY <2>2, <2>3
<1>3. ControlInv => ControlTypeOK
  BY DEF RoutesInv, ConfigInv, PreviewInv, UdpInv, TrafficInv, StoreTyped, ServicesInv,
         ControlTypeOK
<1> QED
  BY <1>1, <1>2, <1>3, PTL DEF ControlSpec
=============================================================================
