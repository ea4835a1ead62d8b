------------------------------- MODULE Previews -------------------------------
(***************************************************************************)
(* Preview environments, usecase/auto/preview/service.go, of one preview   *)
(* domain: pushes create it one after the other under the domain's lock,   *)
(* the admin API deletes or extends it, and the ticker of app/run.go tears *)
(* down what has expired and collects the containers nothing tracks.       *)
(* The list of previews is written to the store outside its mutex, so two  *)
(* writes may land in either order; a restart reads what the store has.    *)
(*                                                                         *)
(* A container has the name of its domain, so a later deploy replaces it.  *)
(***************************************************************************)
EXTENDS Naturals, FiniteSets

CONSTANTS Pushes,       \* the pushes of a preview tag
          MaxMutexes,   \* bound: mutexes of the domain alive at once
          MaxMishaps    \* bound: calls of Delete and Extend, failed calls of the runtime,
                        \* the store or the routes, and restarts, together

ASSUME PreviewAssumption ==
    /\ IsFiniteSet(Pushes)
    /\ MaxMutexes \in Nat /\ MaxMishaps \in Nat

VARIABLES
    creation,  \* per push: its step, the mutex it was given, what it has to save
    nameLock,  \* nameLocks[domain]: its mutex (0 for none) and its references
    preview,   \* the record of the domain in memory
    store,     \* the record in previews.json
    route,     \* whether the configuration routes the domain
    container, \* whether the domain's container exists, and is older than the TTL
    api,       \* the call of the admin API in progress, if any
    sweep,     \* the ticker's step, the record it tears down
    budget     \* mishaps left

previewVars ==
    <<creation, nameLock, preview, store, route, container, api, sweep, budget>>

NoPreview == [status |-> "none", listed |-> FALSE, expired |-> FALSE]
Gone      == [up |-> FALSE, old |-> FALSE]
Mutexes   == 1..MaxMutexes
Inside    == {"add", "addSave", "addRoute", "deploy", "update", "updateSave", "unlock"}

PreviewInit ==
    /\ creation = [p \in Pushes |-> [at |-> "new", mutex |-> 0, saves |-> NoPreview]]
    /\ nameLock = [mutex |-> 0, refs |-> 0]
    /\ preview = NoPreview
    /\ store = NoPreview
    /\ route = FALSE
    /\ container = Gone
    /\ api = [at |-> "idle", saves |-> NoPreview]
    /\ sweep = [at |-> "idle", tears |-> NoPreview]
    /\ budget = MaxMishaps

PreviewRecord == [status : {"none", "deploying", "running", "failed"},
                  listed : BOOLEAN, expired : BOOLEAN]

CreationRecord == [at : Inside \cup {"new", "lock", "release", "done"},
                   mutex : 0..MaxMutexes, saves : PreviewRecord]
ApiRecord   == [at : {"idle", "deleteSave", "deleteRoute", "extendSave"}, saves : PreviewRecord]
SweepRecord == [at : {"idle", "save", "tearContainer", "tearRoute", "list", "orphanRoute",
                      "orphanRemove"}, tears : PreviewRecord]

PreviewTypeOK ==
    /\ creation \in [Pushes -> CreationRecord]
    /\ nameLock \in [mutex : 0..MaxMutexes, refs : Nat]
    /\ preview \in PreviewRecord /\ store \in PreviewRecord
    /\ api \in ApiRecord /\ sweep \in SweepRecord
    /\ route \in BOOLEAN
    /\ container \in [up : BOOLEAN, old : BOOLEAN]
    /\ budget \in 0..MaxMishaps

Step(p, at) == creation' = [creation EXCEPT ![p].at = at]
SweepTo(at) == sweep' = [sweep EXCEPT !.at = at]
Mishap      == budget > 0 /\ budget' = budget - 1

-----------------------------------------------------------------------------
(* CreatePreview                                                           *)

\* AutoPreviewHandler.Handle starts the creation in a goroutine: AcquireNameLock.
Acquire(p) ==
    /\ creation[p].at = "new"
    /\ \E m \in Mutexes :
          /\ IF nameLock.mutex # 0 THEN m = nameLock.mutex
             ELSE \A q \in Pushes : creation[q].mutex # m
          /\ nameLock' = [mutex |-> m, refs |-> nameLock.refs + 1]
          /\ creation' = [creation EXCEPT ![p].at = "lock", ![p].mutex = m]
    /\ UNCHANGED <<preview, store, route, container, api, sweep, budget>>

Lock(p) ==
    /\ creation[p].at = "lock"
    /\ \A q \in Pushes : creation[q].at \in Inside => creation[q].mutex # creation[p].mutex
    /\ Step(p, "add")
    /\ UNCHANGED <<nameLock, preview, store, route, container, api, sweep, budget>>

\* Add replaces the record of an earlier push, and forgets its containers.
Add(p) ==
    /\ creation[p].at = "add"
    /\ preview' = [status |-> "deploying", listed |-> FALSE, expired |-> FALSE]
    /\ creation' = [creation EXCEPT ![p].at = "addSave", ![p].saves = preview']
    /\ UNCHANGED <<nameLock, store, route, container, api, sweep, budget>>

AddSave(p) ==
    /\ creation[p].at = "addSave"
    /\ \/ Step(p, "addRoute") /\ store' = creation[p].saves /\ UNCHANGED budget
       \/ Step(p, "unlock") /\ Mishap /\ UNCHANGED store
    /\ UNCHANGED <<nameLock, preview, route, container, api, sweep>>

\* What Update is to store: the creation's own record, with the TTL of Add.
Finishes(p, status) ==
    creation' = [creation EXCEPT ![p].at = "update",
        ![p].saves = [status |-> status, listed |-> status = "running", expired |-> FALSE]]

AddPreviewRoute(p) ==
    /\ creation[p].at = "addRoute"
    /\ \/ Step(p, "deploy") /\ route' = TRUE /\ UNCHANGED budget
       \/ Finishes(p, "failed") /\ Mishap /\ UNCHANGED route
    /\ UNCHANGED <<nameLock, preview, store, container, api, sweep>>

\* A deploy that fails keeps the container that runs.
DeployPreview(p) ==
    /\ creation[p].at = "deploy"
    /\ \/ /\ Finishes(p, "running")
          /\ container' = [up |-> TRUE, old |-> FALSE]
          /\ UNCHANGED budget
       \/ Finishes(p, "failed") /\ Mishap /\ UNCHANGED container
    /\ UNCHANGED <<nameLock, preview, store, route, api, sweep>>

\* Update finds no record when the preview was deleted or expired meanwhile.
Update(p) ==
    /\ creation[p].at = "update"
    /\ IF preview = NoPreview
       THEN Step(p, "unlock") /\ UNCHANGED preview
       ELSE Step(p, "updateSave") /\ preview' = creation[p].saves
    /\ UNCHANGED <<nameLock, store, route, container, api, sweep, budget>>

UpdateSave(p) ==
    /\ creation[p].at = "updateSave"
    /\ Step(p, "unlock")
    /\ \/ store' = creation[p].saves /\ UNCHANGED budget
       \/ Mishap /\ UNCHANGED store
    /\ UNCHANGED <<nameLock, preview, route, container, api, sweep>>

Unlock(p) ==
    /\ creation[p].at = "unlock"
    /\ creation' = [creation EXCEPT ![p].at = "release", ![p].saves = NoPreview]
    /\ UNCHANGED <<nameLock, preview, store, route, container, api, sweep, budget>>

\* Mutated: the entry goes whoever else was given its mutex.
ReleaseDrops(p) ==
    /\ creation[p].at = "release"
    /\ nameLock' = [mutex |-> 0, refs |-> 0]
    /\ creation' = [creation EXCEPT ![p].at = "done", ![p].mutex = 0]
    /\ UNCHANGED <<preview, store, route, container, api, sweep, budget>>

\* ReleaseNameLock: the last reference removes the entry.
Release(p) ==
    /\ creation[p].at = "release"
    /\ nameLock' = IF nameLock.refs > 1 THEN [nameLock EXCEPT !.refs = @ - 1]
                   ELSE [mutex |-> 0, refs |-> 0]
    /\ creation' = [creation EXCEPT ![p].at = "done", ![p].mutex = 0]
    /\ UNCHANGED <<preview, store, route, container, api, sweep, budget>>

-----------------------------------------------------------------------------
(* The admin API                                                           *)

Delete ==
    /\ api.at = "idle"
    /\ Mishap
    /\ preview # NoPreview
    /\ preview' = NoPreview
    /\ api' = [at |-> "deleteSave", saves |-> NoPreview]
    /\ UNCHANGED <<creation, nameLock, store, route, container, sweep>>

\* No route is removed when the list cannot be saved; the containers stay either way.
DeleteSave ==
    /\ api.at = "deleteSave"
    /\ \/ store' = NoPreview /\ api' = [api EXCEPT !.at = "deleteRoute"] /\ UNCHANGED budget
       \/ Mishap /\ api' = [api EXCEPT !.at = "idle"] /\ UNCHANGED store
    /\ UNCHANGED <<creation, nameLock, preview, route, container, sweep>>

DeleteRoute ==
    /\ api.at = "deleteRoute"
    /\ route' = FALSE
    /\ api' = [api EXCEPT !.at = "idle"]
    /\ UNCHANGED <<creation, nameLock, preview, store, container, sweep, budget>>

Extend ==
    /\ api.at = "idle"
    /\ Mishap
    /\ preview # NoPreview
    /\ preview' = [preview EXCEPT !.expired = FALSE]
    /\ api' = [at |-> "extendSave", saves |-> preview']
    /\ UNCHANGED <<creation, nameLock, store, route, container, sweep>>

ExtendSave ==
    /\ api.at = "extendSave"
    /\ \/ store' = api.saves /\ UNCHANGED budget
       \/ Mishap /\ UNCHANGED store
    /\ api' = [at |-> "idle", saves |-> NoPreview]
    /\ UNCHANGED <<creation, nameLock, preview, route, container, sweep>>

-----------------------------------------------------------------------------
(* The ticker                                                              *)

\* The TTL of the record, and the age of the container, pass.
RecordExpires ==
    /\ preview # NoPreview /\ ~preview.expired
    /\ preview' = [preview EXCEPT !.expired = TRUE]
    /\ UNCHANGED <<creation, nameLock, store, route, container, api, sweep, budget>>

ContainerAges ==
    /\ container.up /\ ~container.old
    /\ container' = [container EXCEPT !.old = TRUE]
    /\ UNCHANGED <<creation, nameLock, preview, store, route, api, sweep, budget>>

\* CleanupExpired takes no name lock.
CleanupExpired ==
    /\ sweep.at = "idle"
    /\ IF preview.expired
       THEN /\ sweep' = [at |-> "save", tears |-> preview]
            /\ preview' = NoPreview
       ELSE SweepTo("list") /\ UNCHANGED preview
    /\ UNCHANGED <<creation, nameLock, store, route, container, api, budget>>

CleanupSave ==
    /\ sweep.at = "save"
    /\ \/ store' = NoPreview /\ UNCHANGED budget
       \/ Mishap /\ UNCHANGED store
    /\ SweepTo("tearContainer")
    /\ UNCHANGED <<creation, nameLock, preview, route, container, api>>

\* teardownTrackedPreview: whatever fails, it goes on.  The record has the name that the
\* container had when it was deployed, and a replacing one is renamed afterwards.
TearContainer ==
    /\ sweep.at = "tearContainer"
    /\ container' \in {container} \cup (IF sweep.tears.listed THEN {Gone} ELSE {})
    /\ SweepTo("tearRoute")
    /\ UNCHANGED <<creation, nameLock, preview, store, route, api, budget>>

TearRoute ==
    /\ sweep.at = "tearRoute"
    /\ \/ route' = FALSE /\ UNCHANGED budget
       \/ Mishap /\ UNCHANGED route
    /\ sweep' = [at |-> "list", tears |-> NoPreview]
    /\ UNCHANGED <<creation, nameLock, preview, store, container, api>>

\* Mutated: a domain that is still routed is not collected.
CollectUnrouted ==
    /\ sweep.at = "list"
    /\ SweepTo(IF container.old /\ preview = NoPreview /\ ~route THEN "orphanRoute" ELSE "idle")
    /\ UNCHANGED <<creation, nameLock, preview, store, route, container, api, budget>>

\* CollectOrphans: an old container whose domain no record tracks.  The listing fails.
CollectOrphans ==
    /\ sweep.at = "list"
    /\ \/ /\ SweepTo(IF container.old /\ preview = NoPreview THEN "orphanRoute" ELSE "idle")
          /\ UNCHANGED budget
       \/ SweepTo("idle") /\ Mishap
    /\ UNCHANGED <<creation, nameLock, preview, store, route, container, api>>

\* The route first: when it cannot be removed the container waits for the next tick.
OrphanRoute ==
    /\ sweep.at = "orphanRoute"
    /\ \/ route' = FALSE /\ SweepTo("orphanRemove") /\ UNCHANGED budget
       \/ SweepTo("idle") /\ Mishap /\ UNCHANGED route
    /\ UNCHANGED <<creation, nameLock, preview, store, container, api>>

\* By name, as StopContainer and RemoveContainer are given the listed name.
OrphanRemove ==
    /\ sweep.at = "orphanRemove"
    /\ \/ container' = Gone /\ UNCHANGED budget
       \/ Mishap /\ UNCHANGED container
    /\ SweepTo("idle")
    /\ UNCHANGED <<creation, nameLock, preview, store, route, api>>

\* The server stops anywhere and loads the store when it is back.
PreviewRestart ==
    /\ Mishap
    /\ creation' = [p \in Pushes |-> [creation[p] EXCEPT
          !.at = IF @ = "new" THEN "new" ELSE "done", !.mutex = 0, !.saves = NoPreview]]
    /\ nameLock' = [mutex |-> 0, refs |-> 0]
    /\ preview' = store
    /\ api' = [api EXCEPT !.at = "idle", !.saves = NoPreview]
    /\ sweep' = [at |-> "idle", tears |-> NoPreview]
    /\ UNCHANGED <<store, route, container>>

CreationStep(p) ==
    \/ Acquire(p) \/ Lock(p) \/ Add(p) \/ AddSave(p) \/ AddPreviewRoute(p)
    \/ DeployPreview(p) \/ Update(p) \/ UpdateSave(p) \/ Unlock(p) \/ Release(p)

SweepStep ==
    \/ CleanupExpired \/ CleanupSave \/ TearContainer \/ TearRoute
    \/ CollectOrphans \/ OrphanRoute \/ OrphanRemove

PreviewNext ==
    \/ \E p \in Pushes : CreationStep(p)
    \/ Delete \/ DeleteSave \/ DeleteRoute \/ Extend \/ ExtendSave
    \/ RecordExpires \/ ContainerAges
    \/ SweepStep
    \/ PreviewRestart

\* Time passes and the ticker ticks.  Calls fail MaxMishaps times at most.
PreviewFairness ==
    /\ WF_previewVars(RecordExpires)
    /\ WF_previewVars(ContainerAges)
    /\ WF_previewVars(SweepStep)

PreviewSpec == PreviewInit /\ [][PreviewNext]_previewVars /\ PreviewFairness

-----------------------------------------------------------------------------
(* Correctness                                                             *)

\* One creation of a domain at a time: the lock's entry goes with its last reference, not
\* before (ReleaseNameLock).
CreationsAlone ==
    \A p, q \in Pushes : creation[p].at \in Inside /\ creation[q].at \in Inside => p = q

\* No container of a preview stays for good, however its creation, its deletion, the
\* teardown of its record, lost writes of the store and restarts met: what no record
\* tracks, the ticker finds by its age.
PreviewIsCollected == container.up ~> ~container.up
=============================================================================
