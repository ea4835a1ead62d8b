----------------------------- MODULE ZeroDowntime -----------------------------
(***************************************************************************)
(* The container service and the proxy together: a deploy, a rollback and  *)
(* a route removal invalidate the proxy's cache (SetProxyCacheInvalidator),*)
(* the background clean-up waits for the requests in flight to the         *)
(* replaced container (SetProxyDrainWaiter), and the proxy asks the        *)
(* service which container serves.                                         *)
(***************************************************************************)
EXTENDS Deploy

CONSTANT Requests       \* goroutines that serve a request

ASSUME ZeroDowntimeAssumption == IsFiniteSet(Requests)

VARIABLES
    cache, requests, inFlight,  \* the proxy
    drained,                    \* history: containers whose drain ended at zero and
                                \* whose clean-up goes on
    late                        \* history: requests to them counted only afterwards

allVars == <<vars, cache, requests, inFlight, drained, late>>

\* A container that is not running has no port.
P == INSTANCE Proxy WITH
        Backends <- Ids,
        serving  <- tracked.id,
        ports    <- [c \in Ids |-> IF Up(c) THEN 1 ELSE 0]

ProxyTypeOK ==
    /\ P!TypeOK
    /\ drained \subseteq Ids
    /\ late \subseteq Requests

ZInit ==
    /\ Init
    /\ P!Init
    /\ drained = {}
    /\ late = {}

-----------------------------------------------------------------------------
Invalidates ==
    \/ \E d \in Deployers : InvalidateTarget(d) \/ Reinvalidate(d)
    \/ \E r \in Reconcilers : ReconcileInvalidate(r)

\* The drain ends when nothing is in flight, or with its timeout.
NotesDrain(t) == Drained(t) /\ P!NoInFlight(t.old)

\* A step of the container service and what it does to the proxy.
ServiceStep ==
    /\ Next /\ ~ ProcessDies
    /\ IF Invalidates THEN P!InvalidateTarget 
       ELSE UNCHANGED <<cache, requests, inFlight>>
    /\ drained' = (drained \cup {t.old : t \in {t \in tasks : NotesDrain(t)}})
                     \cap {t.old : t \in tasks'}
    /\ late' = {r \in late : requests[r].id \in drained'}

\* The proxy lives in the same process.
AllDie ==
    /\ ProcessDies
    /\ cache' = P!NoTarget
    /\ requests' = [r \in Requests |-> P!Idle]
    /\ inFlight' = [c \in Ids |-> 0]
    /\ drained' = {}
    /\ late' = {}

ProxyStep(r) ==
    /\ P!RequestStep(r)
    /\ late' = IF requests'[r].at = "forward" /\ requests[r].id \in drained
               THEN late \cup {r} ELSE late \ {r}
    /\ UNCHANGED <<vars, drained>>

\* A reloaded configuration clears the cache (ConfigReloadProxyHandler).
RefreshTargets ==
    /\ P!InvalidateTarget
    /\ UNCHANGED <<vars, drained, late>>

ZNext == ServiceStep \/ AllDie \/ (\E r \in Requests : ProxyStep(r)) \/ RefreshTargets

ZSpec == ZInit /\ [][ZNext]_allVars

-----------------------------------------------------------------------------
(* Properties                                                              *)

\* Zero downtime, as a client sees it: the target of a request, chosen after the last
\* invalidation, is what the container service itself believes to serve, or at least
\* has not been stopped by it: at every moment of a deploy, of its rollback, of the
\* clean-up behind it and of the removal of the route.
ChosenServes ==
    \A r \in Requests :
        requests[r].at \in {"chosen", "forward"} /\ requests[r].clean
            => \/ requests[r].id = tracked.id
               \/ docker[requests[r].id].status \notin {"stopped", "absent"}

\* A drain that did not time out means it: the stop that follows cuts only requests
\* that had not been counted yet when the count was zero.
DrainIsHonoured ==
    [][\A t \in tasks : t.old \in drained /\ StopOld(t)
                            => P!ForwardingTo(t.old) \subseteq late]_allVars

\* "InvalidateTarget removes a cached proxy target, forcing re-lookup on next
\* request ... to switch traffic to a new container" (proxy/service.go): the cache
\* does not name a container that was replaced and is gone.
CachedIsUp == cache # P!NoTarget => Up(cache.id)
=============================================================================
