-------------------------------- MODULE Routes --------------------------------
(***************************************************************************)
(* Who changes a route and who deploys it: the admin API                   *)
(* (adapters/in/http/admin/handler.go), the labels of pushed images        *)
(* (usecase/container/autoroute.go) and the handlers of image.pushed and   *)
(* config.reload (usecase/container/events.go), over the routes of         *)
(* usecase/config/service.go.  Reading a route, changing it and deploying  *)
(* it are separate calls, and the event loop handles one event at a time.  *)
(*                                                                         *)
(* One domain.  AddRoute, UpdateRoute and RemoveRoute are atomic under the *)
(* mutex of the configuration; Reload has what they do to the file.  A     *)
(* deploy is what Deploy promises: the given image runs, or what ran does. *)
(***************************************************************************)
EXTENDS Naturals

CONSTANTS Admins,       \* calls of the admin API
          RouteImages,  \* images, [repo, tag], all labelled with the domain
          MaxRouteCalls \* bound: admin calls and events in all

ASSUME RoutesAssumption == MaxRouteCalls \in Nat

VARIABLES
    routed,    \* the image the domain is routed to, or Nothing
    runs,      \* the image of the domain's tracked container, or Nothing
    admin,     \* the admin calls
    loop,      \* the event loop: its step, the image and what it read
    calm,      \* whether a reload has the routes and the containers for itself
    routeCalls \* how many calls and events there were

routeVars == <<routed, runs, admin, loop, calm, routeCalls>>

Nothing  == [repo |-> "none", tag |-> "none"]
Readings == RouteImages \cup {Nothing}

RoutesInit ==
    /\ routed = Nothing
    /\ runs = Nothing
    /\ admin = [a \in Admins |-> [at |-> "idle", image |-> Nothing]]
    /\ loop = [at |-> "idle", image |-> Nothing, read |-> Nothing]
    /\ calm = FALSE
    /\ routeCalls = 0

RoutesTypeOK ==
    /\ routed \in Readings
    /\ runs \in Readings
    /\ admin \in [Admins -> [at : {"idle", "put", "remove", "deploy"}, image : Readings]]
    /\ loop \in [at : {"idle", "matched", "labels", "absent", "present", "deploy", "listed",
                       "compare", "reloaded"},
                 image : Readings, read : Readings]
    /\ calm \in BOOLEAN
    /\ routeCalls \in 0..MaxRouteCalls

Called == routeCalls < MaxRouteCalls /\ routeCalls' = routeCalls + 1

\* Writing the file of the configuration may fail, and the route stays as it is.
Writes(image) == routed' = image \/ UNCHANGED routed

\* A failed deploy leaves what ran.
Deploys(image) ==
    \/ runs' = image /\ UNCHANGED calm
    \/ calm' = FALSE /\ UNCHANGED runs

TakesDown == runs' = Nothing

-----------------------------------------------------------------------------
(* The admin API                                                           *)

AdminGoes(a, at, image) == admin' = [admin EXCEPT ![a] = [at |-> at, image |-> image]]

\* handleRoutesPost, handleBootstrap, gordon routes add: no deploy follows.
AdminAdds(a) ==
    /\ admin[a].at = "idle"
    /\ Called
    /\ \E image \in RouteImages : Writes(image)
    /\ calm' = FALSE
    /\ UNCHANGED <<runs, admin, loop>>

\* handleRoutesPut reads the route first ...
AdminReads(a) ==
    /\ admin[a].at = "idle"
    /\ routed # Nothing
    /\ Called
    /\ \/ \E image \in RouteImages : AdminGoes(a, "put", image)
       \/ AdminGoes(a, "deploy", routed)
    /\ UNCHANGED <<routed, runs, loop, calm>>

\* ... and updates it if it is still there.
AdminPuts(a) ==
    /\ admin[a].at = "put"
    /\ IF routed = Nothing THEN UNCHANGED routed
       ELSE Writes(admin[a].image)
    /\ AdminGoes(a, "idle", Nothing)
    /\ calm' = FALSE
    /\ UNCHANGED <<runs, loop, routeCalls>>

\* handleDeploy deploys the route it has read.
AdminDeploys(a) ==
    /\ admin[a].at = "deploy"
    /\ runs' = admin[a].image \/ UNCHANGED runs
    /\ AdminGoes(a, "idle", Nothing)
    /\ calm' = FALSE
    /\ UNCHANGED <<routed, loop, routeCalls>>

\* handleRoutesDelete: an absent route is reconciled as well, an error is not ...
AdminRemoves(a) ==
    /\ admin[a].at = "idle"
    /\ Called
    /\ \/ AdminGoes(a, "remove", Nothing) /\ routed' = Nothing
       \/ routed # Nothing /\ UNCHANGED <<routed, admin>>
    /\ calm' = FALSE
    /\ UNCHANGED <<runs, loop>>

\* ... ReconcileRemovedRoute, which may fail.
AdminReconciles(a) ==
    /\ admin[a].at = "remove"
    /\ TakesDown \/ UNCHANGED runs
    /\ AdminGoes(a, "idle", Nothing)
    /\ calm' = FALSE
    /\ UNCHANGED <<routed, loop, routeCalls>>

-----------------------------------------------------------------------------
(* image.pushed                                                            *)

LoopGoes(at) == loop' = [loop EXCEPT !.at = at]

\* ImagePushedHandler: the routes whose image was pushed are deployed again.
TakePush ==
    /\ loop.at = "idle"
    /\ Called
    /\ \E image \in RouteImages :
          loop' = [at |-> IF routed = image THEN "matched" ELSE "labels",
                   image |-> image, read |-> routed]
    /\ UNCHANGED <<routed, runs, admin, calm>>

DeployMatched ==
    /\ loop.at = "matched"
    /\ Deploys(loop.read)
    /\ LoopGoes("labels")
    /\ UNCHANGED <<routed, admin, routeCalls>>

\* AutoRouteHandler.Handle: disabled, or a manifest without usable labels.
NoLabels ==
    /\ loop.at = "labels"
    /\ LoopGoes("idle")
    /\ UNCHANGED <<routed, runs, admin, calm, routeCalls>>

\* createOrUpdateRoute: the route of another repository is not touched.
LooksUp ==
    /\ loop.at = "labels"
    /\ loop' = [loop EXCEPT !.read = routed,
                    !.at = IF routed = Nothing THEN "absent"
                           ELSE IF routed.repo = loop.image.repo /\ routed # loop.image
                                THEN "present" ELSE "idle"]
    /\ UNCHANGED <<routed, runs, admin, calm, routeCalls>>

\* AddRoute replaces whatever the domain is routed to by now; the allowlist may refuse.
AutoAdds ==
    /\ loop.at = "absent"
    /\ \/ routed' = loop.image /\ LoopGoes("deploy")
       \/ LoopGoes("idle") /\ UNCHANGED routed
    /\ UNCHANGED <<runs, admin, calm, routeCalls>>

AutoUpdates ==
    /\ loop.at = "present"
    /\ \/ /\ routed # Nothing
          /\ routed' = loop.image
          /\ LoopGoes("deploy")
       \/ LoopGoes("idle") /\ UNCHANGED routed
    /\ UNCHANGED <<runs, admin, calm, routeCalls>>

\* triggerDeploy.  (The env file of a created route is extracted after this deploy.)
DeployLabelled ==
    /\ loop.at = "deploy"
    /\ Deploys(loop.image)
    /\ LoopGoes("idle")
    /\ UNCHANGED <<routed, admin, routeCalls>>

-----------------------------------------------------------------------------
(* config.reload                                                           *)

\* ConfigReloadHandler: the containers first ...
ListsContainers ==
    /\ loop.at = "idle"
    /\ Called
    /\ loop' = [at |-> "listed", image |-> runs, read |-> Nothing]
    /\ calm' = TRUE
    /\ UNCHANGED <<routed, runs, admin>>

\* ... then the routes ...
ListsRoutes ==
    /\ loop.at = "listed"
    /\ loop' = [loop EXCEPT !.at = "compare", !.read = routed]
    /\ UNCHANGED <<routed, runs, admin, calm, routeCalls>>

\* Mutated: only a route without a container is deployed.
ReloadsMissing ==
    /\ loop.at = "compare"
    /\ IF loop.read = Nothing
       THEN IF loop.image # Nothing
            THEN \/ TakesDown /\ UNCHANGED calm
                 \/ calm' = FALSE /\ UNCHANGED runs
            ELSE UNCHANGED <<runs, calm>>
       ELSE IF loop.image = Nothing THEN Deploys(loop.read)
            ELSE UNCHANGED <<runs, calm>>
    /\ LoopGoes("reloaded")
    /\ UNCHANGED <<routed, admin, routeCalls>>

\* ... then a route with another image or no container is deployed, and a container
\* without a route is reconciled.  Each of them may fail.
Reloads ==
    /\ loop.at = "compare"
    /\ IF loop.read = Nothing
       THEN IF loop.image # Nothing
            THEN \/ TakesDown /\ UNCHANGED calm
                 \/ calm' = FALSE /\ UNCHANGED runs
            ELSE UNCHANGED <<runs, calm>>
       ELSE IF loop.image # loop.read THEN Deploys(loop.read)
            ELSE UNCHANGED <<runs, calm>>
    /\ LoopGoes("reloaded")
    /\ UNCHANGED <<routed, admin, routeCalls>>

ReloadEnds ==
    /\ loop.at = "reloaded"
    /\ loop' = [at |-> "idle", image |-> Nothing, read |-> Nothing]
    /\ calm' = FALSE
    /\ UNCHANGED <<routed, runs, admin, routeCalls>>

AdminStep(a) ==
    \/ AdminAdds(a) \/ AdminReads(a) \/ AdminPuts(a) \/ AdminDeploys(a)
    \/ AdminRemoves(a) \/ AdminReconciles(a)

RoutesNext ==
    \/ \E a \in Admins : AdminStep(a)
    \/ TakePush \/ DeployMatched
    \/ NoLabels \/ LooksUp \/ AutoAdds \/ AutoUpdates \/ DeployLabelled
    \/ ListsContainers \/ ListsRoutes \/ Reloads \/ ReloadEnds

RoutesSpec == RoutesInit /\ [][RoutesNext]_routeVars

-----------------------------------------------------------------------------
(* Correctness                                                             *)

\* Whatever calls met before - a deploy of a route removed since, a removal that took down
\* the container of a route added again, a failed deploy -, a reload that no call overlaps
\* and in which nothing fails leaves what runs as the routes say (ConfigReloadHandler).
ReloadConverges == (loop.at = "reloaded" /\ calm) => runs = routed
=============================================================================
