-------------------------------- MODULE Proxy --------------------------------
(***************************************************************************)
(* The HTTP reverse proxy for one domain (usecase/proxy/service.go and     *)
(* adapters/in/http/proxy): the cached target, the requests that look it   *)
(* up, and the count of requests in flight to each container.              *)
(*                                                                         *)
(* serving and ports belong to the environment: what the container service *)
(* and the container runtime answer.  A step is one critical section of    *)
(* s.mu or of inFlightMu, or one call to the service or to the runtime.    *)
(* The domain has a container; an external route, which never changes its  *)
(* target, is left out, as are the registry's own host and the limits on   *)
(* connections and sizes.                                                  *)
(***************************************************************************)
EXTENDS Naturals

CONSTANTS Requests,     \* goroutines that serve a request
          Backends      \* identities of containers, not 0

VARIABLES
    serving,    \* environment: the container tracked for the domain, or 0
    ports,      \* environment: the port of each container that has one, else 0
    cache,      \* s.targets[domain]
    requests,   \* the requests
    inFlight    \* s.inFlight

proxyVars == <<cache, requests, inFlight>>

NoTarget == [id |-> 0, port |-> 0, clean |-> TRUE]
Idle     == [at |-> "idle", id |-> 0, port |-> 0, clean |-> TRUE]

\* clean is history: no invalidation has come between the choice of the target, by
\* this request or by the one that stored it, and now.
Places == {"idle", "find", "resolve", "store", "chosen", "forward"}

TypeOK ==
    /\ cache \in [id : Backends \cup {0}, port : Nat, clean : BOOLEAN]
    /\ cache.id = 0 => cache = NoTarget
    /\ requests \in [Requests -> [at : Places, id : Backends \cup {0}, port : Nat,
                                  clean : BOOLEAN]]
    /\ \A r \in Requests : requests[r].at \in {"store", "chosen", "forward"}
                              => requests[r].id # 0 /\ requests[r].port # 0
    /\ inFlight \in [Backends -> Nat]

Init ==
    /\ cache = NoTarget
    /\ requests = [r \in Requests |-> Idle]
    /\ inFlight = [c \in Backends |-> 0]

ForwardingTo(c) == {r \in Requests : requests[r].at = "forward" /\ requests[r].id = c}

-----------------------------------------------------------------------------
(* A request: GetTarget, then forwardToTarget                              *)

Become(r, request) == requests' = [requests EXCEPT ![r] = request]

CacheHit(r) ==
    /\ requests[r].at = "idle"
    /\ cache # NoTarget
    /\ Become(r, [at |-> "chosen", id |-> cache.id, port |-> cache.port,
                  clean |-> cache.clean])
    /\ UNCHANGED <<cache, inFlight>>

CacheMiss(r) ==
    /\ requests[r].at = "idle"
    /\ cache = NoTarget
    /\ Become(r, [requests[r] EXCEPT !.at = "find"])
    /\ UNCHANGED <<cache, inFlight>>

FindContainer(r) ==
    /\ requests[r].at = "find"
    /\ serving # 0
    /\ Become(r, [requests[r] EXCEPT !.at = "resolve", !.id = serving])
    /\ UNCHANGED <<cache, inFlight>>

ResolvePortBlindly(r) ==      \* the mistake: a container without a port is a target too
    /\ requests[r].at = "resolve"
    /\ Become(r, [requests[r] EXCEPT !.at = "store", !.port = ports[requests[r].id]])
    /\ UNCHANGED <<cache, inFlight>>

ResolvePort(r) ==
    /\ requests[r].at = "resolve"
    /\ ports[requests[r].id] # 0
    /\ Become(r, [requests[r] EXCEPT !.at = "store", !.port = ports[requests[r].id]])
    /\ UNCHANGED <<cache, inFlight>>

\* No container, no route, no image metadata or no port: the client gets a 404.
Refuse(r) ==
    /\ \/ requests[r].at = "find" /\ serving = 0
       \/ requests[r].at = "resolve"
    /\ Become(r, Idle)
    /\ UNCHANGED <<cache, inFlight>>

\* Whatever has happened since the container was found, the answer is stored.
StoreTarget(r) ==
    /\ requests[r].at = "store"
    /\ cache' = [id |-> requests[r].id, port |-> requests[r].port,
                 clean |-> requests[r].clean]
    /\ Become(r, [requests[r] EXCEPT !.at = "chosen"])
    /\ UNCHANGED inFlight

TrackInFlight(r) ==
    /\ requests[r].at = "chosen"
    /\ inFlight' = [inFlight EXCEPT ![requests[r].id] = @ + 1]
    /\ Become(r, [requests[r] EXCEPT !.at = "forward"])
    /\ UNCHANGED cache

ReleaseDeletes(r) ==      \* the mistake: the entry is deleted whatever it counts
    /\ requests[r].at = "forward"
    /\ inFlight' = [inFlight EXCEPT ![requests[r].id] = 0]
    /\ Become(r, Idle)
    /\ UNCHANGED cache

\* The deferred release, when the response is complete or the connection broke.
Release(r) ==
    /\ requests[r].at = "forward"
    /\ inFlight' = [inFlight EXCEPT ![requests[r].id] = IF @ > 1 THEN @ - 1 ELSE 0]
    /\ Become(r, Idle)
    /\ UNCHANGED cache

LookUp(r) == \/ CacheHit(r) \/ CacheMiss(r) \/ FindContainer(r) \/ ResolvePort(r)
             \/ Refuse(r) \/ StoreTarget(r)

RequestStep(r) == LookUp(r) \/ TrackInFlight(r) \/ Release(r)

-----------------------------------------------------------------------------
(* What others call                                                        *)

\* InvalidateTarget, and RefreshTargets of a reloaded configuration, for this domain.  A
\* request that has only missed the cache has not looked at the container yet.
InvalidateTarget ==
    /\ cache' = NoTarget
    /\ requests' = [r \in Requests |-> IF requests[r].at \in {"idle", "find"} THEN requests[r]
                                       ELSE [requests[r] EXCEPT !.clean = FALSE]]
    /\ UNCHANGED inFlight

\* What WaitForNoInFlight waits for.
NoInFlight(c) == inFlight[c] <= 0
=============================================================================
