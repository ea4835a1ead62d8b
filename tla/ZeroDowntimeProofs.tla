-------------------------- MODULE ZeroDowntimeProofs --------------------------
(***************************************************************************)
(* Proofs about ZeroDowntime: what the proxy counts is what it forwards,   *)
(* so a drain that ended at zero means it; and the targets chosen since    *)
(* the last invalidation are alive.                                        *)
(***************************************************************************)
EXTENDS ZeroDowntime, DeployUpProofs, FiniteSetTheorems

-----------------------------------------------------------------------------
(* The proxy: its types, and its count                                     *)

Counted == \A c \in Ids : inFlight[c] = Cardinality(P!ForwardingTo(c))

\* A request that found a container goes on with it.
Found == \A r \in Requests : requests[r].at = "resolve" => requests[r].id # 0

\* What is stored has a port.
Stored == cache.id # 0 => cache.port # 0

ProxyInv == P!TypeOK /\ Found /\ Stored /\ Counted

ProxyRequests == [at : P!Places, id : Ids \cup {0}, port : Nat, clean : BOOLEAN]

LEMMA NotAnId == 0 \notin Ids
BY DEF Ids

LEMMA SubsetFinite ==
  ASSUME NEW S, S \subseteq Requests
  PROVE  IsFiniteSet(S) /\ Cardinality(S) \in Nat
BY ZeroDowntimeAssumption, FS_Subset, FS_CardinalityType

LEMMA ForwardingFinite ==
  ASSUME NEW c
  PROVE  /\ IsFiniteSet(P!ForwardingTo(c))
         /\ Cardinality(P!ForwardingTo(c)) \in Nat
<1>1. P!ForwardingTo(c) \subseteq Requests
  BY DEF P!ForwardingTo
<1> QED
  BY <1>1, SubsetFinite

\* A step that starts or ends no forwarding.
LEMMA CountKept ==
  ASSUME ProxyInv, UNCHANGED inFlight,
         \A r \in Requests : (requests'[r].at = "forward" <=> requests[r].at = "forward")
                             /\ (requests[r].at = "forward" => requests'[r].id = requests[r].id)
  PROVE  Counted'
<1>1. ASSUME NEW c \in Ids PROVE P!ForwardingTo(c)' = P!ForwardingTo(c)
  BY DEF P!ForwardingTo
<1> QED
  BY <1>1 DEF ProxyInv, Counted

LEMMA Becomes ==
  ASSUME P!TypeOK, NEW r \in Requests, NEW request, P!Become(r, request)
  PROVE  requests'[r] = request /\ \A q \in Requests : q # r => requests'[q] = requests[q]
  BY DEF P!TypeOK, P!Become

ProxyTargets == [id : Ids \cup {0}, port : Nat, clean : BOOLEAN]

\* A step of a request that forwards neither before nor after it.
LEMMA RequestMoves ==
  ASSUME ProxyInv, NEW r \in Requests, NEW request \in ProxyRequests, P!Become(r, request),
         UNCHANGED inFlight, requests[r].at # "forward", request.at # "forward",
         request.at = "resolve" => request.id # 0,
         request.at \in {"store", "chosen"} => request.id # 0 /\ request.port # 0,
         cache' \in ProxyTargets, cache'.id = 0 => cache' = P!NoTarget, Stored'
  PROVE  ProxyInv'
<1>0. P!TypeOK
  BY DEF ProxyInv
<1>1. requests'[r] = request /\ \A q \in Requests : q # r => requests'[q] = requests[q]
  BY <1>0, Becomes
<1>2. requests' \in [Requests -> ProxyRequests]
  BY <1>0 DEF P!TypeOK, P!Become, ProxyRequests
<1>3. \A q \in Requests : requests'[q].at \in {"store", "chosen", "forward"}
                             => requests'[q].id # 0 /\ requests'[q].port # 0
  BY <1>0, <1>1 DEF P!TypeOK
<1>4. P!TypeOK'
  BY <1>0, <1>2, <1>3 DEF P!TypeOK, ProxyRequests, ProxyTargets
<1>5. Found'
  BY <1>1 DEF ProxyInv, Found
<1>6. Counted'
  BY <1>1, CountKept
<1> QED
  BY <1>4, <1>5, <1>6 DEF ProxyInv

LEMMA LookUpKeeps ==
  ASSUME TypeOK, ProxyInv, NEW r \in Requests, P!LookUp(r)
  PROVE  ProxyInv'
<1>0. /\ tracked.id \in Ids \cup {0}
      /\ requests[r] \in ProxyRequests
      /\ cache \in ProxyTargets /\ (cache.id = 0 => cache = P!NoTarget)
  BY RecordIds DEF TypeOK, ProxyInv, P!TypeOK, ProxyRequests, ProxyTargets
<1>c. UNCHANGED cache
         => cache' \in ProxyTargets /\ (cache'.id = 0 => cache' = P!NoTarget) /\ Stored'
  BY <1>0 DEF ProxyInv, Stored
<1>p. "find" \in P!Places /\ "resolve" \in P!Places /\ "store" \in P!Places
      /\ "chosen" \in P!Places /\ "idle" \in P!Places
  BY DEF P!Places
<1>1. CASE P!CacheHit(r)
  <2> DEFINE request == [at |-> "chosen", id |-> cache.id, port |-> cache.port,
                         clean |-> cache.clean]
  <2>1. request \in ProxyRequests /\ request.at = "chosen"
    BY <1>0, <1>p DEF ProxyRequests, ProxyTargets
  <2>2. request.id # 0 /\ request.port # 0
    BY <1>0, <1>1 DEF P!CacheHit, ProxyInv, Stored
  <2>3. P!Become(r, request) /\ requests[r].at = "idle" /\ UNCHANGED <<cache, inFlight>>
    BY <1>1 DEF P!CacheHit
  <2> HIDE DEF request
  <2> QED
    BY <1>c, <2>1, <2>2, <2>3, RequestMoves
<1>2. CASE P!CacheMiss(r)
  <2> DEFINE request == [requests[r] EXCEPT !.at = "find"]
  <2>1. request \in ProxyRequests /\ request.at = "find"
    BY <1>0, <1>p DEF ProxyRequests
  <2>3. P!Become(r, request) /\ requests[r].at # "forward" /\ UNCHANGED <<cache, inFlight>>
    BY <1>2 DEF P!CacheMiss
  <2> HIDE DEF request
  <2> QED
    BY <1>c, <2>1, <2>3, RequestMoves
<1>3. CASE P!FindContainer(r)
  <2> DEFINE request == [requests[r] EXCEPT !.at = "resolve", !.id = tracked.id]
  <2>1. request \in ProxyRequests /\ request.at = "resolve"
    BY <1>0, <1>p DEF ProxyRequests
  <2>2. request.id # 0
    BY <1>3 DEF P!FindContainer
  <2>3. P!Become(r, request) /\ requests[r].at # "forward" /\ UNCHANGED <<cache, inFlight>>
    BY <1>3 DEF P!FindContainer
  <2> HIDE DEF request
  <2> QED
    BY <1>c, <2>1, <2>2, <2>3, RequestMoves
<1>4. CASE P!ResolvePort(r)
  <2> DEFINE request == [requests[r] EXCEPT !.at = "store", !.port = IF Up(requests[r].id) THEN 1 ELSE 0]
  <2>1. request \in ProxyRequests /\ request.at = "store"
    BY <1>0, <1>p DEF ProxyRequests
  <2>2. requests[r].id # 0 /\ requests[r].id \in Ids
    BY <1>0, <1>4 DEF P!ResolvePort, ProxyInv, Found, ProxyRequests
  <2>4. request.id # 0 /\ request.port # 0
    BY <1>0, <1>4, <2>2 DEF P!ResolvePort, ProxyRequests
  <2>3. P!Become(r, request) /\ requests[r].at # "forward" /\ UNCHANGED <<cache, inFlight>>
    BY <1>4, <2>2 DEF P!ResolvePort
  <2> HIDE DEF request
  <2> QED
    BY <1>c, <2>1, <2>4, <2>3, RequestMoves
<1>5. CASE P!Refuse(r)
  <2> DEFINE request == P!Idle
  <2>1. request \in ProxyRequests /\ request.at = "idle"
    BY <1>0, <1>p DEF ProxyRequests, P!Idle
  <2>3. P!Become(r, request) /\ requests[r].at # "forward" /\ UNCHANGED <<cache, inFlight>>
    BY <1>5 DEF P!Refuse
  <2> HIDE DEF request
  <2> QED
    BY <1>c, <2>1, <2>3, RequestMoves
<1>6. CASE P!StoreTarget(r)
  <2> DEFINE request == [requests[r] EXCEPT !.at = "chosen"]
  <2>1. request \in ProxyRequests /\ request.at = "chosen"
    BY <1>0, <1>p DEF ProxyRequests
  <2>2. request.id # 0 /\ request.port # 0
    BY <1>0, <1>6 DEF P!StoreTarget, ProxyInv, P!TypeOK
  <2>3. P!Become(r, request) /\ requests[r].at # "forward" /\ UNCHANGED inFlight
    BY <1>6 DEF P!StoreTarget
  <2>5. cache' \in ProxyTargets /\ cache'.id # 0 /\ Stored'
    BY <1>0, <1>6, <2>2 DEF P!StoreTarget, ProxyRequests, ProxyTargets, Stored
  <2> HIDE DEF request
  <2> QED
    BY <2>5, <2>1, <2>2, <2>3, RequestMoves
<1> QED
  BY <1>1, <1>2, <1>3, <1>4, <1>5, <1>6 DEF P!LookUp

LEMMA TrackKeeps ==
  ASSUME ProxyInv, NEW r \in Requests, P!TrackInFlight(r)
  PROVE  ProxyInv'
<1> DEFINE request == [requests[r] EXCEPT !.at = "forward"]
<1>a. /\ P!TypeOK /\ requests[r] \in ProxyRequests /\ requests[r].at = "chosen"
      /\ requests[r].id \in Ids /\ requests[r].port # 0
  BY DEF ProxyInv, P!TypeOK, ProxyRequests, P!TrackInFlight
<1>0. PICK c \in Ids : c = requests[r].id
  BY <1>a
<1>1. requests'[r] = request /\ \A q \in Requests : q # r => requests'[q] = requests[q]
  BY <1>a, Becomes DEF P!TrackInFlight
<1>2. requests' \in [Requests -> ProxyRequests]
  <2>1. request \in ProxyRequests
    BY <1>a DEF ProxyRequests, P!Places
  <2> QED
    BY <1>a, <2>1 DEF P!TypeOK, P!TrackInFlight, P!Become, ProxyRequests
<1>3. inFlight' = [inFlight EXCEPT ![c] = @ + 1] /\ UNCHANGED cache
  BY <1>0 DEF P!TrackInFlight
<1>4. P!ForwardingTo(c)' = P!ForwardingTo(c) \cup {r} /\ r \notin P!ForwardingTo(c)
  BY <1>0, <1>1, <1>a DEF P!ForwardingTo, ProxyRequests
<1>5. ASSUME NEW b \in Ids, b # c PROVE P!ForwardingTo(b)' = P!ForwardingTo(b)
  BY <1>0, <1>1, <1>5, <1>a DEF P!ForwardingTo, ProxyRequests
<1>6. Cardinality(P!ForwardingTo(c)') = Cardinality(P!ForwardingTo(c)) + 1
  BY <1>4, ForwardingFinite, FS_AddElement
<1>7. Counted'
  <2>1. \A b \in Ids : inFlight'[b] = IF b = c THEN inFlight[b] + 1 ELSE inFlight[b]
    BY <1>0, <1>3, <1>a DEF P!TypeOK
  <2> QED
    BY <1>0, <1>5, <1>6, <2>1 DEF ProxyInv, Counted
<1>8. inFlight' \in [Ids -> Nat]
  BY <1>0, <1>3, <1>a DEF P!TypeOK
<1>9. \A q \in Requests : requests'[q].at \in {"store", "chosen", "forward"}
                             => requests'[q].id # 0 /\ requests'[q].port # 0
  BY <1>1, <1>a DEF P!TypeOK, ProxyRequests
<1>10. P!TypeOK'
  <2>1. /\ cache' \in [id : Ids \cup {0}, port : Nat, clean : BOOLEAN]
        /\ cache'.id = 0 => cache' = P!NoTarget
    BY <1>3, <1>a DEF P!TypeOK
  <2> QED
    BY <1>2, <1>8, <1>9, <2>1 DEF P!TypeOK, ProxyRequests
<1>11. Found' /\ Stored'
  BY <1>1, <1>3, <1>a DEF ProxyInv, Found, Stored, ProxyRequests
<1> QED
  BY <1>7, <1>10, <1>11 DEF ProxyInv

LEMMA ReleaseKeeps ==
  ASSUME ProxyInv, NEW r \in Requests, P!Release(r)
  PROVE  ProxyInv'
<1> DEFINE request == P!Idle
<1>a. /\ P!TypeOK /\ requests[r] \in ProxyRequests /\ requests[r].at = "forward"
      /\ requests[r].id \in Ids /\ requests[r].port # 0
  BY DEF ProxyInv, P!TypeOK, ProxyRequests, P!Release
<1>0. PICK c \in Ids : c = requests[r].id
  BY <1>a
<1>1. requests'[r] = request /\ \A q \in Requests : q # r => requests'[q] = requests[q]
  BY <1>a, Becomes DEF P!Release
<1>2. requests' \in [Requests -> ProxyRequests]
  <2>1. request \in ProxyRequests
    BY DEF ProxyRequests, P!Places, P!Idle
  <2> QED
    BY <1>a, <2>1 DEF P!TypeOK, P!Release, P!Become, ProxyRequests
<1>3. inFlight' = [inFlight EXCEPT ![c] = IF @ > 1 THEN @ - 1 ELSE 0] /\ UNCHANGED cache
  BY <1>0 DEF P!Release
<1>4. P!ForwardingTo(c)' = P!ForwardingTo(c) \ {r} /\ r \in P!ForwardingTo(c)
  BY <1>0, <1>1, <1>a DEF P!ForwardingTo, P!Idle
<1>5. ASSUME NEW b \in Ids, b # c PROVE P!ForwardingTo(b)' = P!ForwardingTo(b)
  BY <1>0, <1>1, <1>5, <1>a DEF P!ForwardingTo, P!Idle
<1>6. /\ Cardinality(P!ForwardingTo(c)') = Cardinality(P!ForwardingTo(c)) - 1
      /\ Cardinality(P!ForwardingTo(c)) \in Nat
      /\ Cardinality(P!ForwardingTo(c)') \in Nat
  <2>1. P!ForwardingTo(c) \ {r} \subseteq Requests
    BY DEF P!ForwardingTo
  <2>2. Cardinality(P!ForwardingTo(c) \ {r}) = Cardinality(P!ForwardingTo(c)) - 1
    BY <1>4, ForwardingFinite, FS_RemoveElement
  <2> QED
    BY <1>4, <2>1, <2>2, ForwardingFinite, SubsetFinite
<1>7. Counted'
  <2>1. \A b \in Ids : inFlight'[b] = IF b = c /\ inFlight[b] > 1 THEN inFlight[b] - 1
                              ELSE IF b = c THEN 0 ELSE inFlight[b]
    BY <1>0, <1>3, <1>a DEF P!TypeOK
  <2> QED
    BY <1>0, <1>5, <1>6, <2>1 DEF ProxyInv, Counted
<1>8. inFlight' \in [Ids -> Nat]
  BY <1>0, <1>3, <1>a DEF P!TypeOK
<1>9. \A q \in Requests : requests'[q].at \in {"store", "chosen", "forward"}
                             => requests'[q].id # 0 /\ requests'[q].port # 0
  BY <1>1, <1>a DEF P!TypeOK, P!Idle, ProxyRequests
<1>10. P!TypeOK'
  <2>1. /\ cache' \in [id : Ids \cup {0}, port : Nat, clean : BOOLEAN]
        /\ cache'.id = 0 => cache' = P!NoTarget
    BY <1>3, <1>a DEF P!TypeOK
  <2> QED
    BY <1>2, <1>8, <1>9, <2>1 DEF P!TypeOK, ProxyRequests
<1>11. Found' /\ Stored'
  BY <1>1, <1>3, <1>a DEF ProxyInv, Found, Stored, P!Idle
<1> QED
  BY <1>7, <1>10, <1>11 DEF ProxyInv

LEMMA RequestKeeps ==
  ASSUME TypeOK, ProxyInv, NEW r \in Requests, P!RequestStep(r)
  PROVE  ProxyInv'
BY LookUpKeeps, TrackKeeps, ReleaseKeeps DEF P!RequestStep

LEMMA InvalidateKeeps ==
  ASSUME ProxyInv, P!InvalidateTarget
  PROVE  /\ ProxyInv'
         /\ \A r \in Requests : requests'[r].at = requests[r].at
                                /\ requests'[r].id = requests[r].id
<1>0. P!TypeOK
  BY DEF ProxyInv
<1>1. \A r \in Requests : \/ requests'[r] = requests[r]
                          \/ requests'[r] = [requests[r] EXCEPT !.clean = FALSE]
  BY DEF P!InvalidateTarget
<1>2. \A r \in Requests : /\ requests'[r] \in ProxyRequests
                          /\ requests'[r].at = requests[r].at
                          /\ requests'[r].id = requests[r].id
                          /\ requests'[r].port = requests[r].port
  BY <1>0, <1>1 DEF P!TypeOK, ProxyRequests
<1>3. requests' \in [Requests -> ProxyRequests]
  BY <1>2 DEF P!InvalidateTarget
<1>4. cache' = P!NoTarget /\ UNCHANGED inFlight
  BY DEF P!InvalidateTarget
<1>5. cache' \in ProxyTargets /\ Stored'
  BY <1>4 DEF P!NoTarget, ProxyTargets, Stored
<1>6. P!TypeOK'
  BY <1>0, <1>2, <1>3, <1>4, <1>5 DEF P!TypeOK, ProxyRequests, ProxyTargets
<1>7. Found'
  BY <1>2 DEF ProxyInv, Found
<1>8. Counted'
  BY <1>2, <1>4, CountKept
<1> QED
  BY <1>2, <1>5, <1>6, <1>7, <1>8 DEF ProxyInv

LEMMA UnusedProxy == P!Init => ProxyInv
<1> SUFFICES ASSUME P!Init PROVE ProxyInv
  OBVIOUS
<1> USE DEF P!Init
<1>1. P!TypeOK
  BY DEF P!TypeOK, P!NoTarget, P!Idle, P!Places
<1>2. Found /\ Stored
  BY DEF Found, Stored, P!Idle, P!NoTarget
<1>3. \A c : P!ForwardingTo(c) = {}
  BY DEF P!ForwardingTo, P!Idle
<1>4. Counted
  BY <1>3, FS_EmptySet DEF Counted
<1> QED
  BY <1>1, <1>2, <1>4 DEF ProxyInv

LEMMA ProxyInit == ZInit => ProxyInv
BY UnusedProxy DEF ZInit

LEMMA AllDieKeeps == AllDie => ProxyInv'
<1>1. AllDie => P!Init'
  BY DEF AllDie, P!Init
<1> QED
  BY <1>1, UnusedProxy, PTL

\* What a step of the container service does to the proxy is an invalidation or nothing.
LEMMA ServiceKeeps ==
  ASSUME ProxyInv, ServiceStep
  PROVE  /\ ProxyInv'
         /\ \A r \in Requests : requests'[r].at = requests[r].at
                                /\ requests'[r].id = requests[r].id
<1>1. CASE P!InvalidateTarget
  BY <1>1, InvalidateKeeps
<1>2. CASE UNCHANGED <<cache, requests, inFlight>>
  <2>1. P!TypeOK' /\ Found' /\ Stored'
    BY <1>2 DEF ProxyInv, P!TypeOK, Found, Stored
  <2>2. Counted'
    BY <1>2, CountKept
  <2> QED
    BY <1>2, <2>1, <2>2 DEF ProxyInv
<1> QED
  BY <1>1, <1>2 DEF ServiceStep

LEMMA ProxyNext ==
  ASSUME TypeOK, ProxyInv, [ZNext]_allVars
  PROVE  ProxyInv'
<1>1. CASE ServiceStep
  BY <1>1, ServiceKeeps
<1>2. CASE AllDie
  BY <1>2, AllDieKeeps
<1>3. ASSUME NEW r \in Requests, ProxyStep(r) PROVE ProxyInv'
  BY <1>3, RequestKeeps DEF ProxyStep
<1>4. CASE RefreshTargets
  BY <1>4, InvalidateKeeps DEF RefreshTargets
<1>5. CASE UNCHANGED allVars
  <2>1. UNCHANGED <<cache, requests, inFlight>>
    BY <1>5 DEF allVars
  <2>2. P!TypeOK' /\ Found' /\ Stored'
    BY <2>1 DEF ProxyInv, P!TypeOK, Found, Stored
  <2>3. Counted'
    BY <2>1, CountKept
  <2> QED
    BY <2>2, <2>3 DEF ProxyInv
<1> QED
  BY <1>1, <1>2, <1>3, <1>4, <1>5 DEF ZNext

\* The container service takes its own steps only.
LEMMA ServiceNext == [ZNext]_allVars => [Next]_vars
BY DEF ZNext, ServiceStep, AllDie, ProxyStep, RefreshTargets, allVars, vars, Next

-----------------------------------------------------------------------------
(* Drained means drained                                                   *)

DrainInv ==
    /\ TypeOK
    /\ ProxyInv
    /\ \A c \in drained : P!ForwardingTo(c) \subseteq late

LEMMA LookUpForwardsNone ==
  ASSUME P!TypeOK, NEW r \in Requests, P!LookUp(r)
  PROVE  requests'[r].at # "forward"
<1> USE Becomes DEF P!TypeOK
<1>1. CASE P!CacheHit(r)
  BY <1>1 DEF P!CacheHit
<1>2. CASE P!CacheMiss(r)
  BY <1>2 DEF P!CacheMiss
<1>3. CASE P!FindContainer(r)
  BY <1>3 DEF P!FindContainer, P!Become
<1>4. CASE P!ResolvePort(r)
  <2>1. PICK port : P!Become(r, [requests[r] EXCEPT !.at = "store", !.port = port])
    BY <1>4 DEF P!ResolvePort
  <2> QED
    BY <2>1 DEF P!Become
<1>5. CASE P!Refuse(r)
  BY <1>5 DEF P!Refuse, P!Idle
<1>6. CASE P!StoreTarget(r)
  BY <1>6 DEF P!StoreTarget
<1> QED
  BY <1>1, <1>2, <1>3, <1>4, <1>5, <1>6 DEF P!LookUp

LEMMA ForwardingIsCounted ==
  ASSUME ProxyInv, NEW r \in Requests, P!RequestStep(r), requests'[r].at = "forward"
  PROVE  requests'[r].id = requests[r].id
<1>0. P!TypeOK
  BY DEF ProxyInv
<1>1. CASE P!LookUp(r)
  BY <1>0, <1>1, LookUpForwardsNone
<1>2. CASE P!TrackInFlight(r)
  BY <1>0, <1>2, Becomes DEF P!TrackInFlight, P!TypeOK
<1>3. CASE P!Release(r)
  BY <1>0, <1>3, Becomes DEF P!Release, P!Idle
<1> QED
  BY <1>1, <1>2, <1>3 DEF P!RequestStep

LEMMA RequestOthers ==
  ASSUME ProxyInv, NEW r \in Requests, P!RequestStep(r)
  PROVE  \A q \in Requests : q # r => requests'[q] = requests[q]
<1>1. PICK request : P!Become(r, request)
  BY DEF P!RequestStep, P!LookUp, P!CacheHit, P!CacheMiss, P!FindContainer, P!ResolvePort,
         P!Refuse, P!StoreTarget, P!TrackInFlight, P!Release
<1> QED
  BY <1>1, Becomes DEF ProxyInv

LEMMA DrainNext ==
  ASSUME DrainInv, [ZNext]_allVars
  PROVE  \A c \in drained' : P!ForwardingTo(c)' \subseteq late'
<1>0. /\ TypeOK /\ ProxyInv /\ P!TypeOK
      /\ \A c \in drained : P!ForwardingTo(c) \subseteq late
  BY DEF DrainInv, ProxyInv
<1>1. SUFFICES ASSUME NEW c \in drained', NEW q \in Requests,
                      requests'[q].at = "forward", requests'[q].id = c
               PROVE  q \in late'
  BY DEF P!ForwardingTo
<1>2. CASE ServiceStep
  <2>1. requests[q].at = "forward" /\ requests[q].id = c
    BY <1>0, <1>1, <1>2, ServiceKeeps
  <2>2. c \in drained \/ \E t \in tasks : NotesDrain(t) /\ c = t.old
    BY <1>1, <1>2 DEF ServiceStep
  <2>3. q \in P!ForwardingTo(c)
    BY <2>1 DEF P!ForwardingTo
  <2>4. c \in Ids
    BY <1>0, <2>1 DEF P!TypeOK
  <2>5. CASE \E t \in tasks : NotesDrain(t) /\ c = t.old
    <3>1. inFlight[c] <= 0
      BY <2>5 DEF NotesDrain, P!NoInFlight
    <3>2. Cardinality(P!ForwardingTo(c)) = 0
      BY <1>0, <2>4, <3>1, ForwardingFinite DEF ProxyInv, Counted
    <3>3. P!ForwardingTo(c) = {}
      BY <3>2, ForwardingFinite, FS_EmptySet
    <3> QED
      BY <2>3, <3>3
  <2>6. CASE c \in drained
    <3>1. q \in late
      BY <1>0, <2>3, <2>6
    <3> QED
      BY <1>1, <1>2, <2>1, <3>1 DEF ServiceStep
  <2> QED
    BY <2>2, <2>5, <2>6
<1>3. CASE AllDie
  BY <1>1, <1>3 DEF AllDie
<1>4. ASSUME NEW r \in Requests, ProxyStep(r) PROVE q \in late'
  <2>1. CASE q = r
    BY <1>0, <1>1, <1>4, <2>1, ForwardingIsCounted DEF ProxyStep
  <2>2. CASE q # r
    <3>1. requests[q] = requests'[q] /\ c \in drained
      BY <1>0, <1>1, <1>4, <2>2, RequestOthers DEF ProxyStep
    <3>2. q \in late
      BY <1>0, <1>1, <3>1 DEF P!ForwardingTo
    <3> QED
      BY <1>4, <2>2, <3>2 DEF ProxyStep
  <2> QED
    BY <2>1, <2>2
<1>5. CASE RefreshTargets
  <2>1. requests[q].at = "forward" /\ requests[q].id = c /\ UNCHANGED <<drained, late>>
    BY <1>0, <1>1, <1>5, InvalidateKeeps DEF RefreshTargets
  <2> QED
    BY <1>0, <1>1, <2>1 DEF P!ForwardingTo
<1>6. CASE UNCHANGED allVars
  BY <1>0, <1>1, <1>6 DEF allVars, P!ForwardingTo
<1> QED
  BY <1>2, <1>3, <1>4, <1>5, <1>6 DEF ZNext

\* When a drain ends at a count of zero, the stop of the replaced container cuts no
\* request that was counted before: whatever fails, dies or calls without the lock
\* (finalizePreviousContainer, WaitForNoInFlight, trackInFlight of the proxy).
THEOREM DrainHonoured == ZSpec => DrainIsHonoured
<1>1. ZInit => DrainInv
  BY TypeInit, ProxyInit DEF ZInit, DrainInv
<1>2. DrainInv /\ [ZNext]_allVars => DrainInv'
  BY TypeNext, ServiceNext, ProxyNext, DrainNext DEF DrainInv
<1> DEFINE Honoured == \A t \in tasks : t.old \in drained /\ StopOld(t)
                                           => P!ForwardingTo(t.old) \subseteq late
<1>3. DrainInv => Honoured
  BY DEF DrainInv
<1> HIDE DEF Honoured
<1>4. ZSpec => [][Honoured]_allVars
  BY <1>1, <1>2, <1>3, PTL DEF ZSpec
<1> QED
  BY <1>4 DEF DrainIsHonoured, Honoured

-----------------------------------------------------------------------------
(* What is chosen serves                                                   *)

\* What the map says, or, between the map's change and the invalidation that follows
\* it, what it said.
Serves(c) ==
    /\ c # 0
    /\ \/ c = tracked.id
       \/ \E d \in Deployers : deploy[d].at = "invalidate" /\ deploy[d].existing.id = c

ChosenInv ==
    /\ \A r \in Requests : requests[r].at \notin {"idle", "find"} /\ requests[r].clean
                              => Serves(requests[r].id)
    /\ cache.id # 0 /\ cache.clean => Serves(cache.id)

ServeInv == UpInv /\ ProxyInv /\ ChosenInv

LEMMA ServesIsUp ==
  ASSUME UpInv, NEW c, Serves(c)
  PROVE  docker[c].status = "running"
<1>1. CASE c = tracked.id
  BY <1>1 DEF Serves, UpInv, TrackedIsUp, Up, Untracked
<1>2. ASSUME NEW d \in Deployers, deploy[d].existing.id = c PROVE Up(c)
  BY <1>2 DEF Serves, UpInv, UpCall, Untracked
<1> QED
  BY <1>1, <1>2 DEF Serves, Up

LEMMA ChosenImplies == ServeInv => ChosenServes
<1> SUFFICES ASSUME ServeInv, NEW r \in Requests,
                    requests[r].at \in {"chosen", "forward"}, requests[r].clean
             PROVE  docker[requests[r].id].status \notin {"stopped", "absent"}
  BY DEF ChosenServes
<1> QED
  BY ServesIsUp DEF ServeInv, ChosenInv

LEMMA TrackedChanges ==
  ASSUME Calls = {}, Reconcilers = {}, UpInv, Next, ~ ProcessDies
  PROVE  tracked' = tracked \/ \E d \in Deployers : Adopt(d) \/ Activate(d)
<1>a. NoFreeCalls /\ \A d \in Deployers : UpCall(d)
  BY DEF UpInv, SparesInv, CurrentInv
<1>1. ASSUME NEW d \in Deployers, RestoreOld(d) PROVE FALSE
  BY <1>1, <1>a DEF RestoreOld, UpCall
<1>2. ASSUME NEW d \in Deployers, DeployStep(d)
      PROVE tracked' = tracked \/ Adopt(d) \/ Activate(d)
  BY <1>1, <1>2 DEF DeployStep, ResolveTracked, ResolveFromRuntime,
     ListOrphans, CleanOrphan, PrepareFails, SkipRedundantDeploy, CreateContainer,
     CreateFails, StartContainer, StartFails, BecomeReady, ReadinessFails,
     InvalidateTarget, Stabilized, CrashedEarly, Reinvalidate, DropNew, BothDead, Finish
<1>3. ASSUME NEW d \in Deployers, CallDeploy(d) \/ GiveUpWaiting(d) \/ AcquireLock(d)
      PROVE tracked' = tracked
  BY <1>3 DEF CallDeploy, GiveUpWaiting, AcquireLock
<1>4. ASSUME NEW t \in tasks, TaskStep(t) PROVE tracked' = tracked
  BY <1>4 DEF TaskStep, Drained, StopOld, RemoveOld, RenameNew
<1>5. ASSUME MonitorStep PROVE tracked' = tracked
  BY <1>5 DEF MonitorStep, MonitorSnapshot, MonitorInspect, MonitorSkip,
     MonitorVerify, MonitorAct
<1>6. ASSUME NEW o \in Operators,
             SyncList(o) \/ SyncStore(o) \/ RestartCall(o) \/ RestartContainer(o)
      PROVE tracked' = tracked
  <2>1. operator[o].at = "idle"
    BY <1>a DEF NoFreeCalls, IdleOperator
  <2> QED
    BY <1>6, <2>1 DEF SyncList, SyncStore, RestartCall, RestartContainer
<1>7. ASSUME NEW c \in Ids,
              ContainerCrashes(c) \/ RuntimeRestarts(c) \/ StoppedExternally(c)
       PROVE tracked' = tracked
  BY <1>7 DEF ContainerCrashes, RuntimeRestarts, StoppedExternally
<1> QED
  BY <1>2, <1>3, <1>4, <1>5, <1>6, <1>7 DEF Next

LEMMA OnlyInvalidates ==
  ASSUME NEW d \in Deployers, deploy[d].at = "invalidate", DeployStep(d)
  PROVE  InvalidateTarget(d)
BY DEF DeployStep, ResolveTracked, ResolveFromRuntime, Adopt, Activate, RestoreOld,
   ListOrphans, CleanOrphan, PrepareFails, SkipRedundantDeploy, CreateContainer,
   CreateFails, StartContainer, StartFails, BecomeReady, ReadinessFails,
   Stabilized, CrashedEarly, Reinvalidate, DropNew, BothDead, Finish

LEMMA DeployStepInside ==
  ASSUME NEW d \in Deployers, DeployStep(d)
  PROVE  InSection(d)
BY DEF InSection, DeployStep, ResolveTracked, ResolveFromRuntime, Adopt, Activate, RestoreOld,
   ListOrphans, CleanOrphan, PrepareFails, SkipRedundantDeploy, CreateContainer,
   CreateFails, StartContainer, StartFails, BecomeReady, ReadinessFails, InvalidateTarget,
   Stabilized, CrashedEarly, Reinvalidate, DropNew, BothDead, Finish

LEMMA InvalidatingStays ==
  ASSUME Calls = {}, Reconcilers = {}, UpInv, Next, ~ ProcessDies,
         NEW d \in Deployers, deploy[d].at = "invalidate"
  PROVE  deploy'[d] = deploy[d] \/ InvalidateTarget(d)
<1>a. TypeOK /\ LockedSections /\ InSection(d)
  BY DEF UpInv, SparesInv, CurrentInv, InSection
<1>1. ASSUME NEW e \in Deployers, DeployStep(e) PROVE InvalidateTarget(d)
  <2>1. e = d
    BY <1>1, <1>a, DeployStepInside, Alone DEF InSection
  <2> QED
    BY <1>1, <2>1, OnlyInvalidates
<1>2. ASSUME NEW e \in Deployers, CallDeploy(e) \/ GiveUpWaiting(e) \/ AcquireLock(e)
      PROVE deploy'[d] = deploy[d]
  <2>1. e # d
    BY <1>2 DEF CallDeploy, GiveUpWaiting, AcquireLock
  <2> QED
    BY <1>2, <1>a, <2>1 DEF CallDeploy, GiveUpWaiting, AcquireLock, Goto, TypeOK
<1>3. ASSUME UNCHANGED deploy PROVE deploy'[d] = deploy[d]
  BY <1>3
<1>4. ASSUME NEW t \in tasks, TaskStep(t) PROVE UNCHANGED deploy
  BY <1>4 DEF TaskStep, Drained, StopOld, RemoveOld, RenameNew
<1>5. ASSUME MonitorStep PROVE UNCHANGED deploy
  BY <1>5 DEF MonitorStep, MonitorSnapshot, MonitorInspect, MonitorSkip,
     MonitorVerify, MonitorAct
<1>6. ASSUME NEW o \in Operators,
             SyncList(o) \/ SyncStore(o) \/ RestartCall(o) \/ RestartContainer(o)
      PROVE UNCHANGED deploy
  BY <1>6 DEF SyncList, SyncStore, RestartCall, RestartContainer
<1>7. ASSUME NEW c \in Ids,
              ContainerCrashes(c) \/ RuntimeRestarts(c) \/ StoppedExternally(c)
       PROVE UNCHANGED deploy
  BY <1>7 DEF ContainerCrashes, RuntimeRestarts, StoppedExternally
<1> QED
  BY <1>1, <1>2, <1>3, <1>4, <1>5, <1>6, <1>7 DEF Next

\* A step of the container service that does not invalidate takes no service away.
LEMMA ServesOn ==
  ASSUME Calls = {}, Reconcilers = {}, UpInv, Next, ~ ProcessDies, ~ Invalidates,
         NEW c, Serves(c)
  PROVE  Serves(c)'
<1>a. /\ TypeOK /\ LockedSections /\ tracked \in Records
      /\ \A d \in Deployers : Current(d)
  BY DEF UpInv, SparesInv, CurrentInv, TypeOK
<1>1. ASSUME NEW d \in Deployers, deploy[d].at = "invalidate", deploy[d].existing.id = c
      PROVE Serves(c)'
  <2>1. deploy'[d] = deploy[d]
    BY <1>1, InvalidatingStays DEF Invalidates
  <2> QED
    BY <1>1, <2>1 DEF Serves
<1>2. CASE c = tracked.id
  <2>1. CASE tracked' = tracked
    BY <1>2, <2>1 DEF Serves
  <2>2. ASSUME NEW d \in Deployers, Adopt(d) PROVE Serves(c)'
    BY <1>2, <1>a, <2>2 DEF Adopt, Current, Serves, Untracked
  <2>3. ASSUME NEW d \in Deployers, Activate(d) PROVE Serves(c)'
    <3>1. deploy'[d].at = "invalidate" /\ deploy'[d].existing = deploy[d].existing
      BY <1>a, <2>3, GotoFields DEF Activate
    <3>2. deploy[d].existing = tracked
      BY <1>a, <2>3 DEF Activate, Current
    <3> QED
      BY <1>2, <3>1, <3>2 DEF Serves
  <2> QED
    BY <2>1, <2>2, <2>3, TrackedChanges
<1> QED
  BY <1>1, <1>2 DEF Serves

LEMMA ServesKept ==
  ASSUME UNCHANGED <<tracked, deploy>>, NEW c, Serves(c)
  PROVE  Serves(c)'
BY DEF Serves

\* After an invalidation there is no clean target left.
LEMMA InvalidateClears ==
  ASSUME P!TypeOK, P!InvalidateTarget
  PROVE  ChosenInv'
<1>1. ASSUME NEW r \in Requests, requests'[r].at \notin {"idle", "find"}
      PROVE ~ requests'[r].clean
  <2>1. requests'[r] = [requests[r] EXCEPT !.clean = FALSE]
    BY <1>1 DEF P!InvalidateTarget
  <2> QED
    BY <2>1 DEF P!TypeOK
<1>2. cache'.id = 0
  BY DEF P!InvalidateTarget, P!NoTarget
<1> QED
  BY <1>1, <1>2 DEF ChosenInv

\* What a request stores or goes on with was chosen by it, found in the cache or asked
\* of the container service just now.
LEMMA RequestChooses ==
  ASSUME UpInv, ProxyInv, ChosenInv, NEW r \in Requests, P!RequestStep(r)
  PROVE  /\ requests'[r].at \notin {"idle", "find"} /\ requests'[r].clean
               => Serves(requests'[r].id)
         /\ cache'.id # 0 /\ cache'.clean => Serves(cache'.id)
<1>0. /\ P!TypeOK /\ requests[r] \in ProxyRequests
      /\ requests[r].at \notin {"idle", "find"} /\ requests[r].clean
               => Serves(requests[r].id)
      /\ cache.id # 0 /\ cache.clean => Serves(cache.id)
  BY DEF ProxyInv, P!TypeOK, ProxyRequests, ChosenInv
<1>1. CASE P!CacheHit(r)
  <2>1. /\ requests'[r].id = cache.id /\ requests'[r].clean = cache.clean
        /\ cache.id # 0 /\ UNCHANGED cache
    BY <1>0, <1>1, Becomes DEF P!CacheHit, P!TypeOK
  <2> QED
    BY <1>0, <2>1
<1>2. CASE P!CacheMiss(r)
  <2>1. requests'[r].at = "find" /\ UNCHANGED cache
    BY <1>0, <1>2, Becomes DEF P!CacheMiss, ProxyRequests
  <2> QED
    BY <1>0, <2>1
<1>3. CASE P!FindContainer(r)
  <2>1. requests'[r].id = tracked.id /\ tracked.id # 0 /\ UNCHANGED cache
    BY <1>0, <1>3 DEF P!FindContainer, P!Become, P!TypeOK
  <2> QED
    BY <1>0, <2>1 DEF Serves
<1>4. CASE P!ResolvePort(r)
  <2>1. PICK port : P!Become(r, [requests[r] EXCEPT !.at = "store", !.port = port])
    BY <1>4 DEF P!ResolvePort
  <2>2. /\ requests'[r].id = requests[r].id /\ requests'[r].clean = requests[r].clean
        /\ requests[r].at = "resolve" /\ UNCHANGED cache
    BY <1>0, <1>4, <2>1 DEF P!ResolvePort, P!Become, P!TypeOK
  <2> QED
    BY <1>0, <2>2
<1>5. CASE P!Refuse(r)
  <2>1. requests'[r].at = "idle" /\ UNCHANGED cache
    BY <1>0, <1>5, Becomes DEF P!Refuse, P!Idle
  <2> QED
    BY <1>0, <2>1
<1>6. CASE P!StoreTarget(r)
  <2>1. /\ requests'[r].id = requests[r].id /\ requests'[r].clean = requests[r].clean
        /\ requests[r].at = "store"
        /\ cache'.id = requests[r].id /\ cache'.clean = requests[r].clean
    BY <1>0, <1>6 DEF P!StoreTarget, P!Become, P!TypeOK
  <2> QED
    BY <1>0, <2>1
<1>7. CASE P!TrackInFlight(r)
  <2>1. /\ requests'[r].id = requests[r].id /\ requests'[r].clean = requests[r].clean
        /\ requests[r].at = "chosen" /\ UNCHANGED cache
    BY <1>0, <1>7 DEF P!TrackInFlight, P!Become, P!TypeOK
  <2> QED
    BY <1>0, <2>1
<1>8. CASE P!Release(r)
  <2>1. requests'[r].at = "idle" /\ UNCHANGED cache
    BY <1>0, <1>8, Becomes DEF P!Release, P!Idle
  <2> QED
    BY <1>0, <2>1
<1> QED
  BY <1>1, <1>2, <1>3, <1>4, <1>5, <1>6, <1>7, <1>8 DEF P!RequestStep, P!LookUp

LEMMA ChosenNext ==
  ASSUME Calls = {}, Reconcilers = {}, ServeInv, [ZNext]_allVars
  PROVE  ChosenInv'
<1>0. UpInv /\ ProxyInv /\ ChosenInv /\ P!TypeOK
  BY DEF ServeInv, ProxyInv
<1>1. ASSUME UNCHANGED <<cache, requests>>, \A c : Serves(c) => Serves(c)'
      PROVE ChosenInv'
  BY <1>0, <1>1 DEF ChosenInv, Serves
<1>2. CASE ServiceStep
  <2>1. CASE Invalidates
    BY <1>0, <1>2, <2>1, InvalidateClears DEF ServiceStep
  <2>2. CASE ~ Invalidates
    <3>1. UNCHANGED <<cache, requests>> /\ Next /\ ~ ProcessDies
      BY <1>2, <2>2 DEF ServiceStep
    <3>2. \A c : Serves(c) => Serves(c)'
      BY <1>0, <2>2, <3>1, ServesOn
    <3> QED
      BY <1>1, <3>1, <3>2
  <2> QED
    BY <2>1, <2>2
<1>3. CASE AllDie
  BY <1>3 DEF AllDie, ChosenInv, P!NoTarget, P!Idle
<1>4. ASSUME NEW r \in Requests, ProxyStep(r) PROVE ChosenInv'
  <2>1. P!RequestStep(r) /\ UNCHANGED <<tracked, deploy>>
    BY <1>4 DEF ProxyStep, vars
  <2>2. ASSUME NEW q \in Requests, requests'[q].at \notin {"idle", "find"},
               requests'[q].clean
        PROVE Serves(requests'[q].id)
    BY <1>0, <2>1, <2>2, RequestChooses, RequestOthers DEF ChosenInv
  <2>3. cache'.id # 0 /\ cache'.clean => Serves(cache'.id)
    BY <1>0, <2>1, RequestChooses
  <2> QED
    BY <2>1, <2>2, <2>3 DEF ChosenInv, Serves
<1>5. CASE RefreshTargets
  BY <1>0, <1>5, InvalidateClears DEF RefreshTargets
<1>6. CASE UNCHANGED allVars
  <2>1. UNCHANGED <<cache, requests>> /\ UNCHANGED <<tracked, deploy>>
    BY <1>6 DEF allVars, vars
  <2> QED
    BY <1>1, <2>1, ServesKept
<1> QED
  BY <1>2, <1>3, <1>4, <1>5, <1>6 DEF ZNext

\* Zero downtime as a client sees it, as long as the programs in the containers live:
\* no deploy, failure of a deploy, clean-up, monitor or death of the process stops the
\* target of a request that was chosen after the last invalidation (getTarget and
\* InvalidateTarget of the proxy against activateDeployedContainer).
THEOREM TargetsServe ==
  Calls = {} /\ Reconcilers = {} /\ ProgramsLive => (ZSpec => []ChosenServes)
<1> SUFFICES ASSUME Calls = {}, Reconcilers = {}, ProgramsLive
             PROVE  ZSpec => []ChosenServes
  OBVIOUS
<1>1. ZSpec => []UpInv
  BY ServiceNext, UpInvariant, PTL DEF ZSpec, ZInit, Spec
<1>2. ZInit => ProxyInv /\ ChosenInv
  BY ProxyInit DEF ZInit, P!Init, ChosenInv, P!NoTarget, P!Idle
<1>3. UpInv /\ ProxyInv /\ ChosenInv /\ [ZNext]_allVars => ProxyInv' /\ ChosenInv'
  <2>1. UpInv => TypeOK
    BY DEF UpInv, SparesInv, CurrentInv
  <2> QED
    BY <2>1, ProxyNext, ChosenNext DEF ServeInv
<1>4. UpInv /\ ProxyInv /\ ChosenInv => ChosenServes
  BY ChosenImplies DEF ServeInv
<1> QED
  BY <1>1, <1>2, <1>3, <1>4, PTL DEF ZSpec
=============================================================================
